--------------------------- MODULE DevicesProofs ---------------------------
EXTENDS Devices, SchedulerProofs

(***************************************************************************)
(* The safety of interrupts, console and disk, for any number of threads,  *)
(* any times and any number of keys and calls: proofs about Devices.       *)
(***************************************************************************)

-----------------------------------------------------------------------------
(* The kernel's part: only its shape matters to the devices *)

\* A kernel state while no thread ever finishes.
QuietKernel == {s \in Kernel : s.threadToBeDestroyed = NoThread}

LEMMA ReadyQuiet ==
    ASSUME NEW s \in QuietKernel, NEW t \in Thread
    PROVE  /\ ReadyToRun(s, t) \in QuietKernel
           /\ ReadyToRun(s, t).currentThread = s.currentThread
  <1> DEFINE i == Position(s.readyList, s.Priority, t)
             l == InsertAt(s.readyList, i, t)
             f == [s.status EXCEPT ![t] = "READY"]
             b == s.needResched \/ t # s.currentThread
  <1>1. s \in Kernel /\ s.threadToBeDestroyed = NoThread
    BY DEF QuietKernel
  <1>2. /\ s.readyList \in Seq(Thread) /\ s.Priority \in [Thread -> Priority]
        /\ s.status \in [Thread -> ThreadStatus]
    BY <1>1, KernelFields
  <1>3. i \in 1 .. Len(s.readyList) + 1
    BY <1>2, PositionFound
  <1>4. l \in Seq(Thread)
    <2> HIDE DEF i
    <2> QED BY <1>2, <1>3, InsertAtEffect
  <1>5. f \in [Thread -> ThreadStatus] /\ b \in BOOLEAN
    BY <1>2 DEF ThreadStatus
  <1>6. ReadyToRun(s, t) = [s EXCEPT !.needResched = b, !.status = f, !.readyList = l]
    BY <1>1 DEF ReadyToRun, Kernel
  <1> HIDE DEF l, f, b
  <1> QED BY <1>1, <1>4, <1>5, <1>6 DEF QuietKernel, Kernel

LEMMA DispatchQuiet ==
    ASSUME NEW s \in QuietKernel
    PROVE  Dispatch(s) \in QuietKernel
  <1>1. s \in Kernel /\ s.threadToBeDestroyed = NoThread
    BY DEF QuietKernel
  <1>2. /\ s.readyList \in Seq(Thread) /\ s.started \in SUBSET Thread
        /\ s.status \in [Thread -> ThreadStatus]
    BY <1>1, KernelFields
  <1>3. CASE AllDone(s)
    BY <1>1, <1>3 DEF Dispatch, QuietKernel, Kernel
  <1>4. CASE ~AllDone(s) /\ s.readyList = <<>>
    BY <1>4 DEF Dispatch
  <1>5. CASE ~AllDone(s) /\ s.readyList # <<>>
    <2> DEFINE h == Head(s.readyList)
               q == Tail(s.readyList)
               r == [s EXCEPT !.readyList = q]
               f == [s.status EXCEPT ![h] = "RUNNING"]
    <2>1. h \in Thread /\ q \in Seq(Thread)
      BY <1>2, <1>5, HeadTailProperties
    <2>2. Dispatch(s) = Run(r, h)
      BY <1>5 DEF Dispatch
    <2> HIDE DEF h, q
    <2>3. f \in [Thread -> ThreadStatus] /\ s.started \cup {h} \in SUBSET Thread
      BY <1>2, <2>1 DEF ThreadStatus
    <2> DEFINE u == [s EXCEPT !.readyList = q, !.currentThread = h, !.status = f,
                              !.started = s.started \cup {h}]
    <2>4. u \in QuietKernel
      <3> HIDE DEF f
      <3> QED BY <1>1, <2>1, <2>3 DEF QuietKernel, Kernel
    <2>5. /\ r.threadToBeDestroyed = NoThread
          /\ u = [r EXCEPT !.currentThread = h, !.status[h] = "RUNNING",
                           !.started = @ \cup {h}]
      BY <1>1 DEF Kernel
    <2>6. u.threadToBeDestroyed = NoThread /\ [u EXCEPT !.threadToBeDestroyed = NoThread] = u
      <3> HIDE DEF u
      <3> QED BY <2>4 DEF QuietKernel, Kernel
    <2>7. Run(r, h) = u
      <3> HIDE DEF u, r
      <3> QED BY <2>5, <2>6 DEF Run, Delete
    <2> QED BY <2>2, <2>4, <2>7
  <1> QED BY <1>3, <1>4, <1>5

LEMMA SleepQuiet ==
    ASSUME NEW s \in QuietKernel
    PROVE  Sleep(s, "BLOCKED") \in QuietKernel
  <1> DEFINE e == [s EXCEPT !.status[s.currentThread] = "BLOCKED"]
  <1>1. s \in Kernel
    BY DEF QuietKernel
  <1>2. [s.status EXCEPT ![s.currentThread] = "BLOCKED"] \in [Thread -> ThreadStatus]
    BY <1>1, KernelFields DEF ThreadStatus
  <1>3. e \in QuietKernel
    BY <1>1, <1>2 DEF QuietKernel, Kernel
  <1> QED BY <1>3, DispatchQuiet DEF Sleep

LEMMA YieldQuiet ==
    ASSUME NEW s \in QuietKernel
    PROVE  Yield(s) \in QuietKernel
  <1> DEFINE e == [s EXCEPT !.needResched = FALSE]
  <1>1. e \in QuietKernel /\ s.currentThread \in Thread
    BY DEF QuietKernel, Kernel
  <1> HIDE DEF e
  <1>2. ReadyToRun(e, s.currentThread) \in QuietKernel
    BY <1>1, ReadyQuiet
  <1> QED BY <1>2, DispatchQuiet DEF Yield, e

-----------------------------------------------------------------------------
(* The pending interrupts *)

\* The character to write and its writer.
Char == Thread \X (0 .. 2)

Event ==
    {e \in [type : IntType, arg : {0} \cup Char, when : Int] :
        e.type = "ConsoleWriteInt" => e.arg \in Char}

\* No two pending interrupts are of the same type.
OneEach(p) == \A i, j \in 1 .. Len(p) : p[i].type = p[j].type => i = j

InOrder(p) == \A i, j \in 1 .. Len(p) : i < j => p[i].when <= p[j].when

\* What the pending interrupts of a type are about: empty when there is none.
Requests(p, type) == {p[i].arg : i \in {j \in 1 .. Len(p) : p[j].type = type}}

\* No interrupt is n ticks late, nor n less its distance in places from the head
\* of the list, which is how many ticks it may have to wait yet.
Latest(n, i) == -(SystemTick * (n - i))

OnTime(p, n) == \A i \in 1 .. Len(p) : p[i].when > Latest(n, i)

Sources == Cardinality(IntType)

LEMMA SourcesNatural == Sources \in Nat /\ IsFiniteSet(IntType)
  <1>1. IsFiniteSet({}) /\ IsFiniteSet({"TimerInt"})
    BY FS_EmptySet, FS_Singleton
  <1>2. IsFiniteSet({"TimerInt", "DiskInt"})
    <2>1. {"TimerInt", "DiskInt"} = {"TimerInt"} \cup {"DiskInt"}
      OBVIOUS
    <2> QED BY <1>1, <2>1, FS_AddElement
  <1>3. IsFiniteSet({"TimerInt", "DiskInt", "ConsoleWriteInt"})
    <2>1. {"TimerInt", "DiskInt", "ConsoleWriteInt"}
            = {"TimerInt", "DiskInt"} \cup {"ConsoleWriteInt"}
      OBVIOUS
    <2> QED BY <1>2, <2>1, FS_AddElement
  <1>4. IsFiniteSet(IntType)
    <2>1. IntType = {"TimerInt", "DiskInt", "ConsoleWriteInt"} \cup {"ConsoleReadInt"}
      BY DEF IntType
    <2> QED BY <1>3, <2>1, FS_AddElement
  <1> QED BY <1>4, FS_CardinalityType DEF Sources

\* There is room for one interrupt of each type.
LEMMA PendingShort ==
    ASSUME NEW p \in Seq(Event), OneEach(p)
    PROVE  Len(p) \in 0 .. Sources
  <1> DEFINE n == Len(p)
             f == [i \in 1 .. n |-> p[i].type]
  <1>1. n \in Nat /\ \A i \in 1 .. n : p[i] \in Event
    OBVIOUS
  <1>2. f \in Injection(1 .. n, IntType)
    <2>1. \A i \in 1 .. n : f[i] = p[i].type /\ p[i].type \in IntType
      BY <1>1 DEF Event
    <2>2. f \in [1 .. n -> IntType]
      BY <2>1
    <2>3. \A i, j \in 1 .. n : f[i] = f[j] => i = j
      BY <2>1 DEF OneEach
    <2> HIDE DEF f, n
    <2> QED BY <2>2, <2>3 DEF Injection, IsInjective
  <1> HIDE DEF f, n
  <1>3. IsFiniteSet(1 .. n) /\ Cardinality(1 .. n) = n
    <2>1. n \in Int /\ 1 \in Int
      BY <1>1
    <2>2. IsFiniteSet(1 .. n) /\ Cardinality(1 .. n) = IF 1 > n THEN 0 ELSE n - 1 + 1
      BY <2>1, FS_Interval
    <2> QED BY <1>1, <2>2
  <1>4. Cardinality(1 .. n) <= Cardinality(IntType)
    BY <1>2, <1>3, SourcesNatural, FS_Injection
  <1> QED BY <1>1, <1>3, <1>4, SourcesNatural DEF Sources, n

\* SystemTick times a distance in places.
LEMMA TickProduct ==
    ASSUME NEW a \in Int, NEW b \in Int
    PROVE  /\ SystemTick \in Nat \ {0}
           /\ SystemTick * a \in Int
           /\ SystemTick * (a + 1) = SystemTick * a + SystemTick
           /\ a >= 0 => SystemTick * a >= 0
           /\ a > 0 => SystemTick * a > 0
           /\ a <= b => SystemTick * a <= SystemTick * b
  <1>1. SystemTick \in Nat \ {0}
    BY TimeAssumption
  <1>2. \A x \in Int : x >= 0 => SystemTick * x >= 0
    BY <1>1
  <1>3. SystemTick * (b - a) = SystemTick * b - SystemTick * a
    BY <1>1
  <1>4. a <= b => SystemTick * (b - a) >= 0
    BY <1>2
  <1>5. a <= b => SystemTick * a <= SystemTick * b
    BY <1>1, <1>3, <1>4
  <1>6. a > 0 => SystemTick * a > 0
    BY <1>1
  <1> QED BY <1>1, <1>2, <1>5, <1>6

LEMMA LatestSteps ==
    ASSUME NEW n \in Int, NEW i \in Int
    PROVE  /\ Latest(n, i) \in Int
           /\ Latest(n + 1, i + 1) = Latest(n, i)
           /\ Latest(n + 1, i) = Latest(n, i) - SystemTick
  <1>1. SystemTick \in Int
    BY TimeAssumption
  <1>2. Latest(n, i) = SystemTick * i - SystemTick * n
    BY <1>1 DEF Latest
  <1>3. Latest(n + 1, i + 1) = SystemTick * i - SystemTick * n
    BY <1>1 DEF Latest
  <1>4. Latest(n + 1, i) = SystemTick * i - SystemTick * n - SystemTick
    BY <1>1 DEF Latest
  <1>5. SystemTick * i \in Int /\ SystemTick * n \in Int
    BY <1>1
  <1> QED BY <1>1, <1>2, <1>3, <1>4, <1>5

LEMMA PositionInTime ==
    ASSUME NEW p \in Seq(Event), NEW when \in Int
    PROVE  LET i == InterruptPosition(p, when)
           IN  /\ i \in 1 .. Len(p) + 1
               /\ \A j \in 1 .. i - 1 : p[j].when <= when
               /\ i <= Len(p) => when < p[i].when
  <1> DEFINE Stops(i) == i <= Len(p) => when < p[i].when
             T == {i \in 1 .. Len(p) + 1 : Stops(i)}
             Good(i) == /\ \A j \in 1 .. i - 1 : p[j].when <= when
                        /\ i <= Len(p) => when < p[i].when
  <1>0. Len(p) \in Nat /\ \A j \in 1 .. Len(p) : p[j].when \in Int
    BY DEF Event
  <1>1. T \in SUBSET Nat /\ Len(p) + 1 \in T
    BY <1>0
  <1>2. PICK x \in T : \A y \in T : x <= y
    <2> HIDE DEF T
    <2> QED BY <1>1, LeastNatural
  <1>3. x \in 1 .. Len(p) + 1 /\ Good(x)
    <2>1. ASSUME NEW j \in 1 .. x - 1 PROVE p[j].when <= when
      <3>1. j \notin T /\ j \in 1 .. Len(p)
        BY <1>0, <1>2
      <3> QED BY <1>0, <3>1
    <2> QED BY <2>1
  <1> QED BY <1>3 DEF InterruptPosition

\* q is p after an interrupt of that type, about arg, was scheduled.
Scheduled(p, q, type, arg) ==
    /\ q \in Seq(Event) /\ OneEach(q) /\ InOrder(q)
    /\ Requests(q, type) = {arg}
    /\ \A x : x # type => Requests(q, x) = Requests(p, x)
    /\ OnTime(p, Sources) => OnTime(q, Sources)

\* Schedule, of a type of which none is pending.
LEMMA ScheduleEffect ==
    ASSUME NEW p \in Seq(Event), OneEach(p), InOrder(p),
           NEW e \in Event, e.when > 0, Requests(p, e.type) = {}
    PROVE  Scheduled(p, InsertAt(p, InterruptPosition(p, e.when), e), e.type, e.arg)
  <1> DEFINE n == Len(p)
             i == InterruptPosition(p, e.when)
             q == InsertAt(p, i, e)
  <1>1. n \in Nat /\ \A j \in 1 .. n : p[j] \in Event /\ p[j].when \in Int
    BY DEF Event
  <1>2. e.when \in Int
    BY DEF Event
  <1>3. /\ i \in 1 .. n + 1
        /\ \A j \in 1 .. i - 1 : p[j].when <= e.when
        /\ i <= n => e.when < p[i].when
    BY <1>2, PositionInTime
  <1> HIDE DEF i
  <1>4. /\ q \in Seq(Event) /\ Len(q) = n + 1
        /\ \A j \in 1 .. n + 1 :
              q[j] = IF j < i THEN p[j] ELSE IF j = i THEN e ELSE p[j - 1]
    BY <1>3, InsertAtEffect
  <1> HIDE DEF q, n
  <1>5. \A j \in 1 .. n : p[j].type # e.type
    BY DEF Requests, n
  <1>6. \A j \in 1 .. n + 1 : /\ j < i => j \in 1 .. n
                              /\ j > i => j - 1 \in 1 .. n
    BY <1>1, <1>3
  <1>13. \A j \in 1 .. n + 1 : q[j].type = e.type => j = i
    <2> SUFFICES ASSUME NEW j \in 1 .. n + 1, j # i PROVE q[j].type # e.type
      OBVIOUS
    <2>1. CASE j < i
      <3>1. j \in 1 .. n /\ q[j] = p[j]
        BY <1>4, <1>6, <2>1
      <3> QED BY <1>5, <3>1
    <2>2. CASE j > i
      <3>1. j - 1 \in 1 .. n /\ q[j] = p[j - 1]
        BY <1>3, <1>4, <1>6, <2>2
      <3> QED BY <1>5, <3>1
    <2> QED BY <1>1, <1>3, <2>1, <2>2
  <1>7. OneEach(q)
    <2> SUFFICES ASSUME NEW a \in 1 .. n + 1, NEW b \in 1 .. n + 1,
                        q[a].type = q[b].type
                 PROVE  a = b
      BY <1>4 DEF OneEach
    <2>1. CASE a = i \/ b = i
      <3>1. q[i] = e
        BY <1>3, <1>4
      <3> QED BY <1>13, <2>1, <3>1
    <2>2. CASE a # i /\ b # i
      <3> DEFINE c == IF a < i THEN a ELSE a - 1
                 d == IF b < i THEN b ELSE b - 1
      <3>1. c \in 1 .. n /\ d \in 1 .. n /\ q[a] = p[c] /\ q[b] = p[d]
        BY <1>1, <1>3, <1>4, <1>6, <2>2
      <3>2. c = d
        <4> HIDE DEF c, d
        <4> QED BY <3>1 DEF OneEach, n
      <3> QED BY <1>1, <1>3, <2>2, <3>2
    <2> QED BY <2>1, <2>2
  <1>8. \A j \in i .. n : e.when < p[j].when
    <2> SUFFICES ASSUME NEW j \in i .. n PROVE e.when < p[j].when
      OBVIOUS
    <2>1. i \in 1 .. n /\ j \in 1 .. n /\ (i = j \/ i < j) /\ e.when < p[i].when
      BY <1>1, <1>3
    <2>2. p[i].when <= p[j].when
      BY <1>1, <2>1 DEF InOrder, n
    <2> QED BY <1>1, <1>2, <2>1, <2>2
  <1>9. InOrder(q)
    <2> SUFFICES ASSUME NEW a \in 1 .. n + 1, NEW b \in 1 .. n + 1, a < b
                 PROVE  q[a].when <= q[b].when
      BY <1>4 DEF InOrder
    <2>1. CASE b < i
      <3>1. a \in 1 .. n /\ b \in 1 .. n /\ q[a] = p[a] /\ q[b] = p[b]
        BY <1>1, <1>3, <1>4, <1>6, <2>1
      <3> QED BY <3>1 DEF InOrder, n
    <2>2. CASE b = i
      <3>1. a \in 1 .. i - 1 /\ q[a] = p[a] /\ q[b] = e
        BY <1>1, <1>3, <1>4, <2>2
      <3> QED BY <1>3, <3>1
    <2>3. CASE a = i
      <3>1. b - 1 \in i .. n /\ q[b] = p[b - 1] /\ q[a] = e
        BY <1>1, <1>3, <1>4, <2>3
      <3>2. e.when < p[b - 1].when /\ p[b - 1].when \in Int
        BY <1>1, <1>3, <1>8, <3>1
      <3> QED BY <1>2, <3>1, <3>2
    <2>4. CASE a > i
      <3>1. /\ a - 1 \in 1 .. n /\ b - 1 \in 1 .. n /\ a - 1 < b - 1
            /\ q[a] = p[a - 1] /\ q[b] = p[b - 1]
        BY <1>1, <1>3, <1>4, <1>6, <2>4
      <3> QED BY <3>1 DEF InOrder, n
    <2>5. CASE a < i /\ b > i
      <3>1. a \in 1 .. i - 1 /\ b - 1 \in i .. n /\ q[a] = p[a] /\ q[b] = p[b - 1]
        BY <1>1, <1>3, <1>4, <2>5
      <3>2. /\ p[a].when <= e.when /\ e.when < p[b - 1].when
            /\ p[a].when \in Int /\ p[b - 1].when \in Int
        BY <1>1, <1>3, <1>8, <3>1
      <3> QED BY <1>2, <3>1, <3>2
    <2> QED BY <1>1, <1>3, <2>1, <2>2, <2>3, <2>4, <2>5
  <1>10. Requests(q, e.type) = {e.arg}
    <2>0. q[i] = e
      BY <1>3, <1>4
    <2>1. \A j \in 1 .. n + 1 : q[j].type = e.type <=> j = i
      BY <1>13, <2>0
    <2>2. {j \in 1 .. Len(q) : q[j].type = e.type} = {i} /\ q[i] = e
      BY <1>3, <1>4, <2>1
    <2> QED BY <2>2 DEF Requests
  <1>11. ASSUME NEW x, x # e.type PROVE Requests(q, x) = Requests(p, x)
    <2>1. ASSUME NEW a \in 1 .. n + 1, q[a].type = x
          PROVE  \E b \in 1 .. n : p[b].type = x /\ p[b].arg = q[a].arg
      <3>1. a # i
        BY <1>3, <1>4, <1>11, <2>1
      <3>2. CASE a < i
        BY <1>4, <1>6, <2>1, <3>2
      <3>3. CASE a > i
        <4>1. a - 1 \in 1 .. n /\ q[a] = p[a - 1]
          BY <1>1, <1>3, <1>4, <1>6, <3>3
        <4> QED BY <2>1, <4>1
      <3> QED BY <1>3, <3>1, <3>2, <3>3
    <2>2. ASSUME NEW b \in 1 .. n, p[b].type = x
          PROVE  \E a \in 1 .. n + 1 : q[a].type = x /\ p[b].arg = q[a].arg
      <3>1. CASE b < i
        <4>1. b \in 1 .. n + 1 /\ q[b] = p[b]
          BY <1>1, <1>4, <3>1
        <4> QED BY <2>2, <4>1
      <3>2. CASE b >= i
        <4>1. b + 1 \in 1 .. n + 1 /\ q[b + 1] = p[b]
          BY <1>1, <1>3, <1>4, <3>2
        <4> QED BY <2>2, <4>1
      <3> QED BY <1>3, <3>1, <3>2
    <2>3. ASSUME NEW r PROVE r \in Requests(q, x) <=> r \in Requests(p, x)
      <3>1. r \in Requests(q, x) <=> \E a \in 1 .. n + 1 : q[a].type = x /\ r = q[a].arg
        BY <1>4 DEF Requests
      <3>2. r \in Requests(p, x) <=> \E b \in 1 .. n : p[b].type = x /\ r = p[b].arg
        BY DEF Requests, n
      <3> QED BY <2>1, <2>2, <3>1, <3>2, Zenon
    <2> QED BY <2>3
  <1>12. ASSUME OnTime(p, Sources) PROVE OnTime(q, Sources)
    <2> SUFFICES ASSUME NEW a \in 1 .. n + 1
                 PROVE  q[a].when > Latest(Sources, a)
      BY <1>4 DEF OnTime
    <2>1. CASE a < i
      BY <1>4, <1>6, <1>12, <2>1 DEF OnTime, n
    <2>2. CASE a >= i
      <3>1. n + 1 \in 0 .. Sources
        BY <1>4, <1>7, PendingShort
      <3>2. Sources - a \in Int /\ Sources - a >= 0
        BY <3>1, <1>1, SourcesNatural
      <3>3. SystemTick * (Sources - a) >= 0 /\ SystemTick * (Sources - a) \in Int
        BY <3>2, TickProduct
      <3>4. q[a].when > 0 /\ q[a].when \in Int
        <4>1. CASE a = i
          BY <1>2, <1>4, <4>1
        <4>2. CASE a > i
          <5>1. a - 1 \in i .. n /\ q[a] = p[a - 1] /\ a - 1 \in 1 .. n
            BY <1>1, <1>3, <1>4, <4>2
          <5>2. e.when < p[a - 1].when /\ p[a - 1].when \in Int
            BY <1>1, <1>8, <5>1
          <5> QED BY <1>2, <5>1, <5>2
        <4> QED BY <1>3, <2>2, <4>1, <4>2
      <3> QED BY <3>3, <3>4 DEF Latest
    <2> QED BY <1>3, <2>1, <2>2
  <1> QED BY <1>4, <1>7, <1>9, <1>10, <1>11, <1>12 DEF Scheduled, q, i

\* Interrupts that are still to come, in order, are on time.
LEMMA PositiveOnTime ==
    ASSUME NEW p \in Seq(Event), OneEach(p), InOrder(p), NEW n \in Int,
           \/ n = Sources /\ \A i \in 1 .. Len(p) : p[i].when > 0
           \/ n = Sources + 1 /\ \A i \in 1 .. Len(p) : p[i].when >= 0
    PROVE  OnTime(p, n)
  <1> SUFFICES ASSUME NEW i \in 1 .. Len(p)
               PROVE  p[i].when > Latest(n, i)
    BY DEF OnTime
  <1>1. Len(p) \in 0 .. Sources /\ Sources \in Nat
    BY PendingShort, SourcesNatural
  <1>2. i \in Int /\ p[i].when \in Int
    BY <1>1 DEF Event
  <1>3. CASE n = Sources /\ p[i].when > 0
    <2>1. n - i \in Int /\ n - i >= 0
      BY <1>1, <1>2, <1>3
    <2>2. SystemTick * (n - i) >= 0 /\ SystemTick * (n - i) \in Int
      BY <2>1, TickProduct
    <2> QED BY <1>2, <1>3, <2>2 DEF Latest
  <1>4. CASE n = Sources + 1 /\ p[i].when >= 0
    <2>1. n - i \in Int /\ n - i > 0
      BY <1>1, <1>2, <1>4
    <2>2. SystemTick * (n - i) > 0 /\ SystemTick * (n - i) \in Int
      BY <2>1, TickProduct
    <2> QED BY <1>2, <1>4, <2>2 DEF Latest
  <1> QED BY <1>3, <1>4

\* The list after time has passed.
Aged(p, ticks) == [i \in DOMAIN p |-> [p[i] EXCEPT !.when = @ - ticks]]

LEMMA AgedEffect ==
    ASSUME NEW p \in Seq(Event), OneEach(p), InOrder(p), NEW ticks \in Int
    PROVE  /\ Aged(p, ticks) \in Seq(Event) /\ Len(Aged(p, ticks)) = Len(p)
           /\ OneEach(Aged(p, ticks)) /\ InOrder(Aged(p, ticks))
           /\ \A i \in 1 .. Len(p) : Aged(p, ticks)[i].when = p[i].when - ticks
           /\ \A x : Requests(Aged(p, ticks), x) = Requests(p, x)
  <1> DEFINE n == Len(p)
             q == Aged(p, ticks)
  <1>1. n \in Nat /\ DOMAIN p = 1 .. n /\ \A i \in 1 .. n : p[i] \in Event
    OBVIOUS
  <1>2. \A i \in 1 .. n : q[i] = [p[i] EXCEPT !.when = @ - ticks]
    BY <1>1 DEF Aged
  <1>3. \A i \in 1 .. n : /\ q[i] \in Event /\ q[i].type = p[i].type
                          /\ q[i].arg = p[i].arg /\ q[i].when = p[i].when - ticks
                          /\ p[i].when \in Int
    <2> SUFFICES ASSUME NEW i \in 1 .. n
                 PROVE  /\ q[i] \in Event /\ q[i].type = p[i].type
                        /\ q[i].arg = p[i].arg /\ q[i].when = p[i].when - ticks
                        /\ p[i].when \in Int
      OBVIOUS
    <2>1. p[i] \in Event /\ q[i] = [p[i] EXCEPT !.when = @ - ticks]
      BY <1>1, <1>2
    <2> DEFINE e == p[i]
               f == q[i]
    <2>2. e \in Event /\ f = [e EXCEPT !.when = @ - ticks]
      BY <2>1
    <2> HIDE DEF e, f
    <2>3. e.when \in Int /\ e.when - ticks \in Int
      BY <2>2 DEF Event
    <2>4. f.type = e.type /\ f.arg = e.arg /\ f.when = e.when - ticks
      BY <2>2 DEF Event
    <2>5. f \in Event
      BY <2>2, <2>3 DEF Event
    <2> QED BY <2>3, <2>4, <2>5 DEF e, f
  <1>4. q \in Seq(Event) /\ Len(q) = n
    <2>1. q \in [1 .. n -> Event]
      BY <1>1, <1>2, <1>3 DEF Aged
    <2> HIDE DEF q
    <2> QED BY <1>1, <2>1
  <1> HIDE DEF q, n
  <1>5. OneEach(q)
    BY <1>3, <1>4 DEF OneEach, n
  <1>6. InOrder(q)
    BY <1>1, <1>3, <1>4 DEF InOrder, n
  <1>7. ASSUME NEW x PROVE Requests(q, x) = Requests(p, x)
    BY <1>3, <1>4 DEF Requests, n
  <1> QED BY <1>3, <1>4, <1>5, <1>6, <1>7 DEF q, n

\* A tick makes every interrupt a tick later at most.
LEMMA AgedOnTime ==
    ASSUME NEW p \in Seq(Event), OneEach(p), InOrder(p), OnTime(p, Sources),
           NEW ticks \in Int, ticks <= SystemTick
    PROVE  OnTime(Aged(p, ticks), Sources + 1)
  <1> DEFINE q == Aged(p, ticks)
  <1>1. /\ Len(q) = Len(p)
        /\ \A i \in 1 .. Len(p) : q[i].when = p[i].when - ticks
    BY AgedEffect
  <1> HIDE DEF q
  <1>2. ASSUME NEW i \in 1 .. Len(p) PROVE q[i].when > Latest(Sources + 1, i)
    <2>1. i \in Int /\ p[i].when \in Int /\ p[i].when > Latest(Sources, i)
      BY DEF Event, OnTime
    <2>2. SystemTick \in Nat /\ Sources \in Int
      BY SourcesNatural, TimeAssumption
    <2>3. /\ Latest(Sources, i) \in Int
          /\ Latest(Sources + 1, i) = Latest(Sources, i) - SystemTick
      BY <2>1, <2>2, LatestSteps
    <2>4. q[i].when = p[i].when - ticks
      BY <1>1
    <2> QED BY <2>1, <2>2, <2>3, <2>4
  <1> QED BY <1>1, <1>2 DEF OnTime, q

\* The head is taken off the list.
Taken(p, q) ==
    /\ q \in Seq(Event) /\ OneEach(q) /\ InOrder(q)
    /\ Head(p) \in Event /\ Requests(p, Head(p).type) = {Head(p).arg}
    /\ Requests(q, Head(p).type) = {}
    /\ \A x : x # Head(p).type => Requests(q, x) = Requests(p, x)
    /\ OnTime(p, Sources + 1) => OnTime(q, Sources)

LEMMA TailEffect ==
    ASSUME NEW p \in Seq(Event), OneEach(p), InOrder(p), p # <<>>
    PROVE  Taken(p, Tail(p))
  <1> DEFINE n == Len(p)
             q == Tail(p)
             e == Head(p)
  <1>1. n \in Nat \ {0} /\ \A i \in 1 .. n : p[i] \in Event /\ p[i].when \in Int
    BY EmptySeq DEF Event
  <1>2. /\ q \in Seq(Event) /\ Len(q) = n - 1 /\ e = p[1]
        /\ \A i \in 1 .. n - 1 : q[i] = p[i + 1]
    BY HeadTailProperties
  <1> HIDE DEF q, n, e
  <1>3. \A i \in 1 .. n - 1 : i + 1 \in 1 .. n /\ q[i] = p[i + 1]
    BY <1>1, <1>2
  <1>4. 1 \in 1 .. n /\ e \in Event
    BY <1>1, <1>2
  <1>5. OneEach(q)
    <2> SUFFICES ASSUME NEW a \in 1 .. n - 1, NEW b \in 1 .. n - 1,
                        q[a].type = q[b].type
                 PROVE  a = b
      BY <1>2 DEF OneEach
    <2>1. a + 1 = b + 1
      BY <1>3 DEF OneEach, n
    <2> QED BY <1>1, <2>1
  <1>6. InOrder(q)
    <2> SUFFICES ASSUME NEW a \in 1 .. n - 1, NEW b \in 1 .. n - 1, a < b
                 PROVE  q[a].when <= q[b].when
      BY <1>2 DEF InOrder
    <2>1. a + 1 < b + 1
      BY <1>1
    <2> QED BY <1>3, <2>1 DEF InOrder, n
  <1>7. \A i \in 1 .. n : p[i].type = e.type <=> i = 1
    BY <1>2, <1>4 DEF OneEach, n
  <1>8. Requests(p, e.type) = {e.arg}
    <2>1. {j \in 1 .. Len(p) : p[j].type = e.type} = {1}
      BY <1>4, <1>7 DEF n
    <2> QED BY <1>2, <2>1 DEF Requests
  <1>9. Requests(q, e.type) = {}
    <2>1. \A i \in 1 .. n - 1 : q[i].type # e.type
      BY <1>1, <1>3, <1>7
    <2> QED BY <1>2, <2>1 DEF Requests
  <1>10. ASSUME NEW x, x # e.type PROVE Requests(q, x) = Requests(p, x)
    <2>1. ASSUME NEW b \in 1 .. n, p[b].type = x
          PROVE  \E a \in 1 .. n - 1 : q[a].type = x /\ p[b].arg = q[a].arg
      <3>1. b # 1
        BY <1>2, <1>10, <2>1
      <3>2. b - 1 \in 1 .. n - 1 /\ (b - 1) + 1 = b
        BY <1>1, <3>1
      <3> QED BY <1>3, <2>1, <3>2
    <2>2. ASSUME NEW a \in 1 .. n - 1, q[a].type = x
          PROVE  \E b \in 1 .. n : p[b].type = x /\ p[b].arg = q[a].arg
      BY <1>3, <2>2
    <2>3. ASSUME NEW r PROVE r \in Requests(q, x) <=> r \in Requests(p, x)
      <3>1. r \in Requests(q, x) <=> \E a \in 1 .. n - 1 : q[a].type = x /\ r = q[a].arg
        BY <1>2 DEF Requests
      <3>2. r \in Requests(p, x) <=> \E b \in 1 .. n : p[b].type = x /\ r = p[b].arg
        BY DEF Requests, n
      <3> QED BY <2>1, <2>2, <3>1, <3>2, Zenon
    <2> QED BY <2>3
  <1>11. ASSUME OnTime(p, Sources + 1) PROVE OnTime(q, Sources)
    <2>1. ASSUME NEW i \in 1 .. n - 1 PROVE q[i].when > Latest(Sources, i)
      <3>1. i + 1 \in 1 .. n /\ q[i] = p[i + 1]
        BY <1>3
      <3>2. p[i + 1].when > Latest(Sources + 1, i + 1)
        BY <1>11, <3>1 DEF OnTime, n
      <3>3. Latest(Sources + 1, i + 1) = Latest(Sources, i)
        BY SourcesNatural, LatestSteps
      <3> QED BY <3>1, <3>2, <3>3
    <2> QED BY <1>2, <2>1 DEF OnTime
  <1> QED BY <1>2, <1>4, <1>5, <1>6, <1>8, <1>9, <1>10, <1>11 DEF Taken, q, e

-----------------------------------------------------------------------------
(* The inductive invariant, of a machine state s with the threads at w and l *)
(* bytes left                                                               *)

Typed == Key \cup {EOF}

Machine ==
    [k : QuietKernel, inYield : SUBSET Thread, sem : [SemName -> KernelSemaphore],
     pending : Seq(Event), yieldOnReturn : BOOLEAN, loop : {"none", "tick", "idle"},
     putBusy : BOOLEAN, incoming : Typed \cup {FLAG_EOF}, keyboard : Seq(Typed),
     screen : Seq(Char), taken : Seq(Typed), active : BOOLEAN, lock : Lock,
     failed : BOOLEAN]

\* A semaphore that starts at 1 lets one thread at a time into the part of a
\* routine with these labels.
OneInside(value, w, labels) ==
    \/ value = 1 /\ \A t \in Thread : w[t] \notin labels
    \/ value = 0 /\ \E t \in Thread : \A u \in Thread : w[u] \in labels <=> u = t

\* The interrupt that a thread at label waits for is pending, or has been here
\* and has done its V; one of the two, and only while a thread waits.
Answered(value, requests, w, label) ==
    /\ value \in {0, 1}
    /\ value = 1 => requests = {}
    /\ (\E t \in Thread : w[t] = label) <=> value = 1 \/ requests # {}

\* The last character written is the last of its call, or the next to come is
\* the one t has to write with n left.
Ended(screen) == screen # <<>> => screen[Len(screen)][2] <= 1
Continues(screen, t, n) == ~Ended(screen) => screen[Len(screen)] = <<t, n + 1>>

Unbroken(screen) ==
    \A i \in 1 .. Len(screen) - 1 :
        screen[i][2] > 1 => screen[i + 1] = <<screen[i][1], screen[i][2] - 1>>

WriteSound(write, done, busy, screen, requests, w, l) ==
    /\ OneInside(write, w, {"put", "putwait"})
    /\ Answered(done, requests, w, "putwait")
    /\ busy <=> requests # {}
    /\ Unbroken(screen)
    /\ (\A t \in Thread : w[t] \notin {"put", "putwait"}) => Ended(screen)
    /\ \A t \in Thread :
          /\ w[t] = "put" => Continues(screen, t, l[t])
          /\ w[t] = "putwait" =>
                /\ done = 0 => Continues(screen, t, l[t])
                /\ done = 1 => screen # <<>> /\ screen[Len(screen)] = <<t, l[t]>>
                /\ \A a \in requests : a = <<t, l[t]>>

\* The buffer is full exactly while its character is announced, to the semaphore
\* or to the thread that came through it; keys are in the order typed.
ReadSound(read, avail, incoming, keyboard, taken, w) ==
    LET n == IF incoming = FLAG_EOF THEN 0 ELSE 1
    IN  /\ OneInside(read, w, {"getwait", "get"})
        /\ avail \in {0, 1}
        /\ avail = 1 => \A t \in Thread : w[t] # "get"
        /\ n = 1 <=> avail = 1 \/ \E t \in Thread : w[t] = "get"
        /\ \A i \in 1 .. Len(taken) : taken[i] \in {i, EOF}
        /\ n = 1 => incoming \in {Len(taken) + 1, EOF}
        /\ \A i \in 1 .. Len(keyboard) : keyboard[i] \in {Len(taken) + n + i, EOF}

DiskSound(done, active, owner, requests, w) ==
    /\ \A t \in Thread : w[t] \in {"request", "diskwait", "release"} => owner = t
    /\ Answered(done, requests, w, "diskwait")
    /\ active <=> requests # {}

\* A thread inside a loop of ConsoleRead or ConsoleWrite has something left to do.
LeftSound(w, l) ==
    /\ w \in [Thread -> Where] /\ l \in [Thread -> 0 .. 2]
    /\ \A t \in Thread :
          w[t] \in {"write", "putwait", "read", "getwait", "get"} => l[t] > 0

PendingSound(p) ==
    /\ OneEach(p) /\ InOrder(p)
    /\ Requests(p, "TimerInt") # {} /\ Requests(p, "ConsoleReadInt") # {}

OutputSound(s, w, l) ==
    WriteSound(s.sem["write"].value, s.sem["writeDone"].value, s.putBusy, s.screen,
               Requests(s.pending, "ConsoleWriteInt"), w, l)

InputSound(s, w) ==
    ReadSound(s.sem["read"].value, s.sem["readAvail"].value, s.incoming,
              s.keyboard, s.taken, w)

SectorsSound(s, w) ==
    DiskSound(s.sem["disk"].value, s.active, s.lock.owner,
              Requests(s.pending, "DiskInt"), w)

Sound(s, w, l) ==
    /\ s \in Machine /\ ~s.failed
    /\ PendingSound(s.pending)
    /\ LeftSound(w, l)
    /\ OutputSound(s, w, l)
    /\ InputSound(s, w)
    /\ SectorsSound(s, w)

\* While handlers run, a tick has passed and nobody may have been served yet.
InTime(s) == OnTime(s.pending, IF s.loop = "none" THEN Sources ELSE Sources + 1)

\* The inductive invariant.
IInv == Sound(m, pc, left) /\ InTime(m)

-----------------------------------------------------------------------------
(* What each step does to the console's output *)

\* The two say the same of who is at one of the labels.
Agree(w, x, labels) ==
    \A u \in Thread : w[u] \in labels \/ x[u] \in labels => x[u] = w[u]

LEMMA WriteFrame ==
    ASSUME NEW v, NEW d, NEW b, NEW scr, NEW r, NEW w, NEW l, NEW x, NEW y,
           WriteSound(v, d, b, scr, r, w, l),
           Agree(w, x, {"put", "putwait"}),
           \A u \in Thread : w[u] \in {"put", "putwait"} => y[u] = l[u]
    PROVE  WriteSound(v, d, b, scr, r, x, y)
  <1>0. \A u \in Thread : /\ x[u] = "put" <=> w[u] = "put"
                          /\ x[u] = "putwait" <=> w[u] = "putwait"
    BY DEF Agree
  <1>1. OneInside(v, x, {"put", "putwait"})
    BY <1>0 DEF WriteSound, OneInside
  <1>2. Answered(d, r, x, "putwait")
    BY <1>0 DEF WriteSound, Answered
  <1>3. (\A t \in Thread : x[t] \notin {"put", "putwait"}) => Ended(scr)
    BY <1>0 DEF WriteSound
  <1> QED BY <1>0, <1>1, <1>2, <1>3 DEF WriteSound

\* P (consoleWrite) returns to t.
LEMMA WriteEnter ==
    ASSUME NEW v, NEW d, NEW b, NEW scr, NEW r, NEW w \in [Thread -> Where], NEW l, NEW y,
           WriteSound(v, d, b, scr, r, w, l), v # 0,
           NEW t \in Thread
    PROVE  WriteSound(v - 1, d, b, scr, r, [w EXCEPT ![t] = "put"], y)
  <1> DEFINE x == [w EXCEPT ![t] = "put"]
  <1>1. v = 1 /\ \A u \in Thread : w[u] \notin {"put", "putwait"}
    BY DEF WriteSound, OneInside
  <1>2. \A u \in Thread : x[u] = IF u = t THEN "put" ELSE w[u]
    OBVIOUS
  <1> HIDE DEF x
  <1>3. OneInside(v - 1, x, {"put", "putwait"})
    BY <1>1, <1>2 DEF OneInside
  <1>4. Answered(d, r, x, "putwait")
    BY <1>1, <1>2 DEF WriteSound, Answered
  <1>5. Ended(scr)
    BY <1>1 DEF WriteSound
  <1>6. \A u \in Thread : x[u] = "put" => Continues(scr, u, y[u])
    BY <1>5 DEF Continues
  <1>7. \A u \in Thread : x[u] # "putwait"
    BY <1>1, <1>2
  <1> QED BY <1>3, <1>4, <1>5, <1>6, <1>7 DEF WriteSound, x

\* PutChar: the device is not busy, and becomes so.
LEMMA WritePut ==
    ASSUME NEW v, NEW d, NEW b \in BOOLEAN, NEW scr, NEW r, NEW w \in [Thread -> Where],
           NEW l, WriteSound(v, d, b, scr, r, w, l), NEW t \in Thread, w[t] = "put"
    PROVE  /\ r = {} /\ b = FALSE
           /\ WriteSound(v, d, TRUE, scr, {<<t, l[t]>>}, [w EXCEPT ![t] = "putwait"], l)
  <1> DEFINE x == [w EXCEPT ![t] = "putwait"]
  <1>1. v = 0 /\ \A u \in Thread : w[u] \in {"put", "putwait"} <=> u = t
    BY DEF WriteSound, OneInside
  <1>2. d = 0 /\ r = {}
    BY <1>1 DEF WriteSound, Answered
  <1>3. b = FALSE
    BY <1>2 DEF WriteSound
  <1>4. \A u \in Thread : x[u] = IF u = t THEN "putwait" ELSE w[u]
    OBVIOUS
  <1> HIDE DEF x
  <1>5. OneInside(v, x, {"put", "putwait"})
    BY <1>1, <1>4 DEF OneInside
  <1>6. Answered(d, {<<t, l[t]>>}, x, "putwait")
    BY <1>1, <1>2, <1>4 DEF Answered
  <1>7. Continues(scr, t, l[t])
    BY DEF WriteSound
  <1>8. \A u \in Thread : x[u] \in {"put", "putwait"} => u = t /\ x[u] = "putwait"
    BY <1>1, <1>4
  <1>9. WriteSound(v, d, TRUE, scr, {<<t, l[t]>>}, x, l)
    BY <1>2, <1>4, <1>5, <1>6, <1>7, <1>8 DEF WriteSound
  <1> QED BY <1>2, <1>3, <1>9 DEF x

\* The character is written, and V (consoleWriteDone) done.
LEMMA WriteDoneSound ==
    ASSUME NEW v, NEW d, NEW b, NEW scr \in Seq(Char), NEW a \in Char, NEW w, NEW l,
           WriteSound(v, d, b, scr, {a}, w, l)
    PROVE  WriteSound(v, d + 1, FALSE, Append(scr, a), {}, w, l)
  <1> DEFINE z == Append(scr, a)
             n == Len(scr)
  <1>1. d = 0 /\ \E t \in Thread : w[t] = "putwait"
    BY DEF WriteSound, Answered
  <1>2. PICK t \in Thread : w[t] = "putwait"
    BY <1>1
  <1>3. a = <<t, l[t]>> /\ Continues(scr, t, l[t])
    BY <1>1, <1>2 DEF WriteSound
  <1>4. /\ n \in Nat /\ Len(z) = n + 1 /\ z[n + 1] = a /\ z # <<>>
        /\ \A i \in 1 .. n : z[i] = scr[i] /\ scr[i] \in Char
    BY AppendProperties
  <1>5. \A u \in Thread : w[u] \in {"put", "putwait"} <=> u = t
    BY <1>2 DEF WriteSound, OneInside
  <1> HIDE DEF z, n
  <1>6. Unbroken(z)
    <2> SUFFICES ASSUME NEW i \in 1 .. n, z[i][2] > 1
                 PROVE  z[i + 1] = <<z[i][1], z[i][2] - 1>>
      BY <1>4 DEF Unbroken
    <2>1. CASE i < n
      <3>1. i \in 1 .. n - 1 /\ i + 1 \in 1 .. n
        BY <1>4, <2>1
      <3>2. z[i] = scr[i] /\ z[i + 1] = scr[i + 1]
        BY <1>4, <3>1
      <3> QED BY <3>1, <3>2 DEF WriteSound, Unbroken, n
    <2>2. CASE i = n
      <3>1. z[i] = scr[n] /\ z[i + 1] = a /\ scr # <<>> /\ scr[n] \in Char
        BY <1>4, <2>2 DEF n
      <3>2. ~Ended(scr)
        BY <3>1 DEF Ended, n, Char
      <3>3. scr[n] = <<t, l[t] + 1>>
        BY <1>3, <3>2 DEF Continues, n
      <3>4. l[t] \in Int
        BY <1>3 DEF Char
      <3>5. scr[n][1] = t /\ scr[n][2] - 1 = l[t]
        BY <3>3, <3>4
      <3> QED BY <1>3, <3>1, <3>5
    <2> QED BY <1>4, <2>1, <2>2
  <1>7. Answered(d + 1, {}, w, "putwait")
    BY <1>1, <1>2 DEF Answered
  <1>8. \A u \in Thread : w[u] = "putwait" => z # <<>> /\ z[Len(z)] = <<u, l[u]>>
    BY <1>3, <1>4, <1>5
  <1>9. \A u \in Thread : w[u] # "put"
    BY <1>2, <1>5
  <1>10. d + 1 # 0
    BY <1>1
  <1> QED BY <1>2, <1>6, <1>7, <1>8, <1>9, <1>10 DEF WriteSound, z

\* P (consoleWriteDone) returns to t.
LEMMA WriteNext ==
    ASSUME NEW v, NEW d, NEW b, NEW scr, NEW r, NEW w \in [Thread -> Where],
           NEW l \in [Thread -> 0 .. 2], WriteSound(v, d, b, scr, r, w, l),
           NEW t \in Thread, w[t] = "putwait", d # 0
    PROVE  WriteSound(v, d - 1, b, scr, r, [w EXCEPT ![t] = "put"],
                      [l EXCEPT ![t] = @ - 1])
  <1> DEFINE x == [w EXCEPT ![t] = "put"]
             y == [l EXCEPT ![t] = @ - 1]
  <1>1. v = 0 /\ \A u \in Thread : w[u] \in {"put", "putwait"} <=> u = t
    BY DEF WriteSound, OneInside
  <1>2. d = 1 /\ r = {}
    BY <1>1 DEF WriteSound, Answered
  <1>3. \A u \in Thread : x[u] = IF u = t THEN "put" ELSE w[u]
    OBVIOUS
  <1>4. y[t] = l[t] - 1 /\ l[t] \in Int
    OBVIOUS
  <1> HIDE DEF x, y
  <1>5. OneInside(v, x, {"put", "putwait"})
    BY <1>1, <1>3 DEF OneInside
  <1>6. Answered(d - 1, r, x, "putwait")
    BY <1>1, <1>2, <1>3 DEF Answered
  <1>7. Continues(scr, t, y[t])
    <2>1. scr[Len(scr)] = <<t, l[t]>> /\ y[t] + 1 = l[t]
      BY <1>2, <1>4 DEF WriteSound
    <2> QED BY <2>1 DEF Continues
  <1>8. \A u \in Thread : x[u] \in {"put", "putwait"} => u = t /\ x[u] = "put"
    BY <1>1, <1>3
  <1> QED BY <1>3, <1>5, <1>6, <1>7, <1>8 DEF WriteSound, x, y

\* V (consoleWrite), after the last character.
LEMMA WriteLeave ==
    ASSUME NEW v, NEW d, NEW b, NEW scr \in Seq(Char), NEW r, NEW w \in [Thread -> Where],
           NEW l, WriteSound(v, d, b, scr, r, w, l),
           NEW t \in Thread, w[t] = "put", l[t] = 0
    PROVE  WriteSound(v + 1, d, b, scr, r, [w EXCEPT ![t] = "user"], l)
  <1> DEFINE x == [w EXCEPT ![t] = "user"]
  <1>1. v = 0 /\ \A u \in Thread : w[u] \in {"put", "putwait"} <=> u = t
    BY DEF WriteSound, OneInside
  <1>2. \A u \in Thread : x[u] = IF u = t THEN "user" ELSE w[u]
    OBVIOUS
  <1> HIDE DEF x
  <1>3. \A u \in Thread : x[u] \notin {"put", "putwait"}
    BY <1>1, <1>2
  <1>4. OneInside(v + 1, x, {"put", "putwait"})
    BY <1>1, <1>3 DEF OneInside
  <1>5. Answered(d, r, x, "putwait")
    BY <1>1, <1>3 DEF WriteSound, Answered
  <1>6. Ended(scr)
    <2>1. ~Ended(scr) => scr[Len(scr)] = <<t, 0 + 1>>
      BY DEF WriteSound, Continues
    <2>2. scr[Len(scr)] = <<t, 0 + 1>> => scr[Len(scr)][2] = 1
      OBVIOUS
    <2> QED BY <2>1, <2>2 DEF Ended
  <1> QED BY <1>3, <1>4, <1>5, <1>6 DEF WriteSound, x

-----------------------------------------------------------------------------
(* What each step does to the console's input *)

LEMMA ReadFrame ==
    ASSUME NEW v, NEW a, NEW c, NEW kb, NEW tk, NEW w, NEW x,
           ReadSound(v, a, c, kb, tk, w), Agree(w, x, {"getwait", "get"})
    PROVE  ReadSound(v, a, c, kb, tk, x)
  <1>0. \A u \in Thread : /\ x[u] = "get" <=> w[u] = "get"
                          /\ x[u] = "getwait" <=> w[u] = "getwait"
    BY DEF Agree
  <1>1. OneInside(v, x, {"getwait", "get"})
    BY <1>0 DEF ReadSound, OneInside
  <1> QED BY <1>0, <1>1 DEF ReadSound

\* P (consoleRead) returns to t.
LEMMA ReadEnter ==
    ASSUME NEW v, NEW a, NEW c, NEW kb, NEW tk, NEW w \in [Thread -> Where],
           ReadSound(v, a, c, kb, tk, w), v # 0, NEW t \in Thread
    PROVE  ReadSound(v - 1, a, c, kb, tk, [w EXCEPT ![t] = "getwait"])
  <1> DEFINE x == [w EXCEPT ![t] = "getwait"]
  <1>1. v = 1 /\ \A u \in Thread : w[u] \notin {"getwait", "get"}
    BY DEF ReadSound, OneInside
  <1>2. \A u \in Thread : x[u] = IF u = t THEN "getwait" ELSE w[u]
    OBVIOUS
  <1> HIDE DEF x
  <1>3. OneInside(v - 1, x, {"getwait", "get"})
    BY <1>1, <1>2 DEF OneInside
  <1>4. \A u \in Thread : x[u] # "get" /\ w[u] # "get"
    BY <1>1, <1>2
  <1> QED BY <1>3, <1>4 DEF ReadSound, x

\* The console takes a key from the keyboard and does V (consoleReadAvail).
LEMMA ReadArrive ==
    ASSUME NEW v, NEW a, NEW kb \in Seq(Typed), NEW tk \in Seq(Typed), NEW w,
           ReadSound(v, a, FLAG_EOF, kb, tk, w), kb # <<>>
    PROVE  ReadSound(v, a + 1, Head(kb), Tail(kb), tk, w)
  <1> DEFINE h == Head(kb)
             q == Tail(kb)
             n == Len(tk)
  <1>1. a = 0 /\ \A u \in Thread : w[u] # "get"
    BY DEF ReadSound
  <1>2. /\ Len(kb) \in Nat \ {0} /\ n \in Nat /\ h = kb[1] /\ h \in Typed
        /\ q \in Seq(Typed) /\ Len(q) = Len(kb) - 1
        /\ \A i \in 1 .. Len(kb) - 1 : q[i] = kb[i + 1]
    BY HeadTailProperties, EmptySeq
  <1>3. h # FLAG_EOF
    BY <1>2, KeyAssumption DEF Typed
  <1>4. \A i \in 1 .. Len(kb) : kb[i] \in {n + 0 + i, EOF}
    BY DEF ReadSound
  <1> HIDE DEF h, q, n
  <1>5. h \in {n + 1, EOF}
    BY <1>2, <1>4
  <1>6. ASSUME NEW i \in 1 .. Len(q) PROVE q[i] \in {n + 1 + i, EOF}
    <2>1. i + 1 \in 1 .. Len(kb) /\ q[i] = kb[i + 1]
      BY <1>2
    <2>2. kb[i + 1] \in {n + 0 + (i + 1), EOF}
      BY <1>4, <2>1
    <2>3. n + 0 + (i + 1) = n + 1 + i
      BY <1>2
    <2> QED BY <2>1, <2>2, <2>3
  <1>7. \A i \in 1 .. Len(tk) : tk[i] \in {i, EOF}
    BY DEF ReadSound
  <1>8. OneInside(v, w, {"getwait", "get"})
    BY DEF ReadSound
  <1> QED BY <1>1, <1>3, <1>5, <1>6, <1>7, <1>8 DEF ReadSound, h, q, n

\* P (consoleReadAvail) returns to t.
LEMMA ReadThrough ==
    ASSUME NEW v, NEW a, NEW c, NEW kb, NEW tk, NEW w \in [Thread -> Where],
           ReadSound(v, a, c, kb, tk, w), NEW t \in Thread, w[t] = "getwait", a # 0
    PROVE  ReadSound(v, a - 1, c, kb, tk, [w EXCEPT ![t] = "get"])
  <1> DEFINE x == [w EXCEPT ![t] = "get"]
  <1>1. v = 0 /\ \A u \in Thread : w[u] \in {"getwait", "get"} <=> u = t
    BY DEF ReadSound, OneInside
  <1>2. a = 1 /\ c # FLAG_EOF
    BY DEF ReadSound
  <1>3. \A u \in Thread : x[u] = IF u = t THEN "get" ELSE w[u]
    OBVIOUS
  <1> HIDE DEF x
  <1>4. OneInside(v, x, {"getwait", "get"})
    BY <1>1, <1>3 DEF OneInside
  <1>5. x[t] = "get"
    BY <1>3
  <1> QED BY <1>2, <1>4, <1>5 DEF ReadSound, x

\* GetChar by t, which then needs another character or leaves.
LEMMA ReadTake ==
    ASSUME NEW v, NEW a, NEW c \in Typed \cup {FLAG_EOF}, NEW kb \in Seq(Typed),
           NEW tk \in Seq(Typed), NEW w \in [Thread -> Where],
           ReadSound(v, a, c, kb, tk, w), NEW t \in Thread, w[t] = "get"
    PROVE  /\ c \in Typed
           /\ ReadSound(v, a, FLAG_EOF, kb, Append(tk, c), [w EXCEPT ![t] = "getwait"])
  <1> DEFINE x == [w EXCEPT ![t] = "getwait"]
             z == Append(tk, c)
             n == Len(tk)
  <1>1. v = 0 /\ \A u \in Thread : w[u] \in {"getwait", "get"} <=> u = t
    BY DEF ReadSound, OneInside
  <1>2. a = 0 /\ c # FLAG_EOF /\ c \in Typed /\ c \in {n + 1, EOF}
    BY DEF ReadSound
  <1>3. \A u \in Thread : x[u] = IF u = t THEN "getwait" ELSE w[u]
    OBVIOUS
  <1>4. /\ n \in Nat /\ Len(z) = n + 1 /\ z[n + 1] = c
        /\ \A i \in 1 .. n : z[i] = tk[i]
    BY <1>2, AppendProperties
  <1>5. \A i \in 1 .. Len(kb) : kb[i] \in {n + 1 + i, EOF}
    BY <1>2 DEF ReadSound
  <1>6. \A i \in 1 .. n : tk[i] \in {i, EOF}
    BY DEF ReadSound
  <1> HIDE DEF x, z, n
  <1>7. OneInside(v, x, {"getwait", "get"})
    BY <1>1, <1>3 DEF OneInside
  <1>8. \A u \in Thread : x[u] # "get"
    BY <1>1, <1>3
  <1>9. \A i \in 1 .. Len(z) : z[i] \in {i, EOF}
    BY <1>2, <1>4, <1>6
  <1>10. \A i \in 1 .. Len(kb) : kb[i] \in {Len(z) + 0 + i, EOF}
    BY <1>4, <1>5
  <1>11. ReadSound(v, a, FLAG_EOF, kb, z, x)
    BY <1>2, <1>7, <1>8, <1>9, <1>10 DEF ReadSound
  <1> QED BY <1>2, <1>11 DEF x, z

\* V (consoleRead), after the last character.
LEMMA ReadLeave ==
    ASSUME NEW v, NEW a, NEW c, NEW kb, NEW tk, NEW w \in [Thread -> Where],
           ReadSound(v, a, c, kb, tk, w), NEW t \in Thread, w[t] = "getwait"
    PROVE  ReadSound(v + 1, a, c, kb, tk, [w EXCEPT ![t] = "user"])
  <1> DEFINE x == [w EXCEPT ![t] = "user"]
  <1>1. v = 0 /\ \A u \in Thread : w[u] \in {"getwait", "get"} <=> u = t
    BY DEF ReadSound, OneInside
  <1>2. \A u \in Thread : x[u] = IF u = t THEN "user" ELSE w[u]
    OBVIOUS
  <1> HIDE DEF x
  <1>3. \A u \in Thread : x[u] \notin {"getwait", "get"} /\ w[u] # "get"
    BY <1>1, <1>2
  <1>4. OneInside(v + 1, x, {"getwait", "get"})
    BY <1>1, <1>3 DEF OneInside
  <1> QED BY <1>3, <1>4 DEF ReadSound, x

\* A key is typed, the next in order or the end of input.
LEMMA ReadType ==
    ASSUME NEW v, NEW a, NEW c, NEW kb \in Seq(Typed), NEW tk \in Seq(Typed), NEW w,
           NEW key \in Typed, ReadSound(v, a, c, kb, tk, w),
           key \in {Len(tk) + Len(kb) + (IF c = FLAG_EOF THEN 0 ELSE 1) + 1, EOF}
    PROVE  ReadSound(v, a, c, Append(kb, key), tk, w)
  <1> DEFINE z == Append(kb, key)
             n == IF c = FLAG_EOF THEN 0 ELSE 1
  <1>1. /\ Len(kb) \in Nat /\ Len(tk) \in Nat /\ Len(z) = Len(kb) + 1
        /\ z[Len(kb) + 1] = key /\ \A i \in 1 .. Len(kb) : z[i] = kb[i]
    BY AppendProperties
  <1>2. \A i \in 1 .. Len(kb) : kb[i] \in {Len(tk) + n + i, EOF}
    BY DEF ReadSound
  <1>3. n \in {0, 1} /\ key \in {Len(tk) + Len(kb) + n + 1, EOF}
    OBVIOUS
  <1> HIDE DEF z, n
  <1>4. ASSUME NEW i \in 1 .. Len(z) PROVE z[i] \in {Len(tk) + n + i, EOF}
    <2>1. CASE i \in 1 .. Len(kb)
      BY <1>1, <1>2, <2>1
    <2>2. CASE i = Len(kb) + 1
      <3>1. Len(tk) + n + i = Len(tk) + Len(kb) + n + 1
        BY <1>1, <1>3, <2>2
      <3> QED BY <1>1, <1>3, <2>2, <3>1
    <2> QED BY <1>1, <2>1, <2>2
  <1> QED BY <1>4 DEF ReadSound, n, z

-----------------------------------------------------------------------------
(* What each step does to the disk *)

LEMMA DiskFrame ==
    ASSUME NEW d, NEW b, NEW o, NEW r, NEW w, NEW x, DiskSound(d, b, o, r, w),
           Agree(w, x, {"request", "diskwait", "release"})
    PROVE  DiskSound(d, b, o, r, x)
  <1>0. \A u \in Thread : /\ x[u] \in {"request", "diskwait", "release"}
                              <=> w[u] \in {"request", "diskwait", "release"}
                          /\ x[u] = "diskwait" <=> w[u] = "diskwait"
    BY DEF Agree
  <1>1. Answered(d, r, x, "diskwait")
    BY <1>0 DEF DiskSound, Answered
  <1> QED BY <1>0, <1>1 DEF DiskSound

\* Acquire returns to t.
LEMMA DiskEnter ==
    ASSUME NEW d, NEW b, NEW r, NEW w \in [Thread -> Where],
           DiskSound(d, b, NoThread, r, w), NEW t \in Thread
    PROVE  DiskSound(d, b, t, r, [w EXCEPT ![t] = "request"])
  <1> DEFINE x == [w EXCEPT ![t] = "request"]
  <1>1. \A u \in Thread : w[u] \notin {"request", "diskwait", "release"}
    BY ThreadAssumption DEF DiskSound
  <1>2. \A u \in Thread : x[u] = IF u = t THEN "request" ELSE w[u]
    OBVIOUS
  <1> HIDE DEF x
  <1>3. Answered(d, r, x, "diskwait")
    BY <1>1, <1>2 DEF DiskSound, Answered
  <1> QED BY <1>1, <1>2, <1>3 DEF DiskSound, x

\* ReadRequest or WriteRequest: the disk is not active, and becomes so.
LEMMA DiskAsk ==
    ASSUME NEW d, NEW b \in BOOLEAN, NEW o, NEW r, NEW w \in [Thread -> Where],
           DiskSound(d, b, o, r, w), NEW t \in Thread, w[t] = "request", NEW a
    PROVE  /\ r = {} /\ b = FALSE
           /\ DiskSound(d, TRUE, o, {a}, [w EXCEPT ![t] = "diskwait"])
  <1> DEFINE x == [w EXCEPT ![t] = "diskwait"]
  <1>1. \A u \in Thread : w[u] \in {"request", "diskwait", "release"} => u = t
    BY DEF DiskSound
  <1>2. d = 0 /\ r = {}
    BY <1>1 DEF DiskSound, Answered
  <1>3. b = FALSE
    BY <1>2 DEF DiskSound
  <1>4. \A u \in Thread : x[u] = IF u = t THEN "diskwait" ELSE w[u]
    OBVIOUS
  <1> HIDE DEF x
  <1>5. Answered(d, {a}, x, "diskwait")
    BY <1>2, <1>4 DEF Answered
  <1>6. DiskSound(d, TRUE, o, {a}, x)
    BY <1>1, <1>4, <1>5 DEF DiskSound
  <1> QED BY <1>2, <1>3, <1>6 DEF x

\* The interrupt: V on the semaphore of SynchDisk.
LEMMA DiskAnswer ==
    ASSUME NEW d, NEW b, NEW o, NEW w, NEW a, DiskSound(d, b, o, {a}, w)
    PROVE  DiskSound(d + 1, FALSE, o, {}, w)
  <1>1. d = 0 /\ \E t \in Thread : w[t] = "diskwait"
    BY DEF DiskSound, Answered
  <1>2. Answered(d + 1, {}, w, "diskwait")
    BY <1>1 DEF Answered
  <1> QED BY <1>2 DEF DiskSound

\* P returns to t.
LEMMA DiskThrough ==
    ASSUME NEW d, NEW b, NEW o, NEW r, NEW w \in [Thread -> Where],
           DiskSound(d, b, o, r, w), NEW t \in Thread, w[t] = "diskwait", d # 0
    PROVE  DiskSound(d - 1, b, o, r, [w EXCEPT ![t] = "release"])
  <1> DEFINE x == [w EXCEPT ![t] = "release"]
  <1>1. \A u \in Thread : w[u] \in {"request", "diskwait", "release"} => u = t
    BY DEF DiskSound
  <1>2. d = 1 /\ r = {}
    BY DEF DiskSound, Answered
  <1>3. \A u \in Thread : x[u] = IF u = t THEN "release" ELSE w[u]
    OBVIOUS
  <1> HIDE DEF x
  <1>4. \A u \in Thread : x[u] # "diskwait"
    BY <1>1, <1>3
  <1>5. Answered(d - 1, r, x, "diskwait")
    BY <1>2, <1>4 DEF Answered
  <1> QED BY <1>1, <1>3, <1>5 DEF DiskSound, x

\* Release, whoever becomes the owner.
LEMMA DiskLeave ==
    ASSUME NEW d, NEW b, NEW o, NEW p, NEW r, NEW w \in [Thread -> Where],
           DiskSound(d, b, o, r, w), NEW t \in Thread, w[t] = "release"
    PROVE  DiskSound(d, b, p, r, [w EXCEPT ![t] = "user"])
  <1> DEFINE x == [w EXCEPT ![t] = "user"]
  <1>1. \A u \in Thread : w[u] \in {"request", "diskwait", "release"} => u = t
    BY DEF DiskSound
  <1>2. \A u \in Thread : x[u] = IF u = t THEN "user" ELSE w[u]
    OBVIOUS
  <1> HIDE DEF x
  <1>3. \A u \in Thread : /\ x[u] \notin {"request", "diskwait", "release"}
                          /\ w[u] # "diskwait"
    BY <1>1, <1>2
  <1>4. Answered(d, r, x, "diskwait")
    BY <1>3 DEF DiskSound, Answered
  <1> QED BY <1>3, <1>4 DEF DiskSound, x

-----------------------------------------------------------------------------
(* Steps of the machine *)

OutputLabels == {"put", "putwait"}
InputLabels == {"getwait", "get"}
DiskLabels == {"request", "diskwait", "release"}

\* The parts of the state that each device and its routines use.
SameOutput(s, u) ==
    /\ u.sem["write"].value = s.sem["write"].value
    /\ u.sem["writeDone"].value = s.sem["writeDone"].value
    /\ u.putBusy = s.putBusy /\ u.screen = s.screen
    /\ Requests(u.pending, "ConsoleWriteInt") = Requests(s.pending, "ConsoleWriteInt")

SameInput(s, u) ==
    /\ u.sem["read"].value = s.sem["read"].value
    /\ u.sem["readAvail"].value = s.sem["readAvail"].value
    /\ u.incoming = s.incoming /\ u.keyboard = s.keyboard /\ u.taken = s.taken

SameDisk(s, u) ==
    /\ u.sem["disk"].value = s.sem["disk"].value
    /\ u.active = s.active /\ u.lock.owner = s.lock.owner
    /\ Requests(u.pending, "DiskInt") = Requests(s.pending, "DiskInt")

\* What the other threads have left does not change.
SameLeft(w, l, y) == \A u \in Thread : w[u] \in OutputLabels => y[u] = l[u]

LEMMA OutputKept ==
    ASSUME NEW s, NEW u, NEW w, NEW l, NEW x, NEW y, OutputSound(s, w, l),
           SameOutput(s, u), Agree(w, x, OutputLabels), SameLeft(w, l, y)
    PROVE  OutputSound(u, x, y)
  <1>1. OutputSound(u, w, l)
    BY DEF OutputSound, SameOutput
  <1>2. /\ Agree(w, x, {"put", "putwait"})
        /\ \A v \in Thread : w[v] \in {"put", "putwait"} => y[v] = l[v]
    BY DEF SameLeft, OutputLabels
  <1> QED BY <1>1, <1>2, WriteFrame DEF OutputSound

LEMMA InputKept ==
    ASSUME NEW s, NEW u, NEW w, NEW x, InputSound(s, w),
           SameInput(s, u), Agree(w, x, InputLabels)
    PROVE  InputSound(u, x)
  <1>1. InputSound(u, w)
    BY DEF InputSound, SameInput
  <1>2. Agree(w, x, {"getwait", "get"})
    BY DEF InputLabels
  <1> QED BY <1>1, <1>2, ReadFrame DEF InputSound

LEMMA SectorsKept ==
    ASSUME NEW s, NEW u, NEW w, NEW x, SectorsSound(s, w),
           SameDisk(s, u), Agree(w, x, DiskLabels)
    PROVE  SectorsSound(u, x)
  <1>1. SectorsSound(u, w)
    BY DEF SectorsSound, SameDisk
  <1>2. Agree(w, x, {"request", "diskwait", "release"})
    BY DEF DiskLabels
  <1> QED BY <1>1, <1>2, DiskFrame DEF SectorsSound

LEMMA MachineFields ==
    ASSUME NEW s \in Machine
    PROVE  /\ s.k \in QuietKernel /\ s.inYield \in SUBSET Thread
           /\ s.sem \in [SemName -> KernelSemaphore]
           /\ s.pending \in Seq(Event) /\ s.yieldOnReturn \in BOOLEAN
           /\ s.loop \in {"none", "tick", "idle"} /\ s.putBusy \in BOOLEAN
           /\ s.incoming \in Typed \cup {FLAG_EOF} /\ s.keyboard \in Seq(Typed)
           /\ s.screen \in Seq(Char) /\ s.taken \in Seq(Typed)
           /\ s.active \in BOOLEAN /\ s.lock \in Lock /\ s.failed \in BOOLEAN
  BY DEF Machine

\* Only the semaphore called name, and the kernel, are different in u.
Semaphored(s, u, name, value) ==
    /\ u \in Machine
    /\ u.sem[name].value = value
    /\ \A x \in SemName : x # name => u.sem[x] = s.sem[x]
    /\ u.inYield = s.inYield /\ u.pending = s.pending
    /\ u.yieldOnReturn = s.yieldOnReturn /\ u.loop = s.loop
    /\ u.putBusy = s.putBusy /\ u.incoming = s.incoming /\ u.keyboard = s.keyboard
    /\ u.screen = s.screen /\ u.taken = s.taken /\ u.active = s.active
    /\ u.lock = s.lock /\ u.failed = s.failed

LEMMA SemaphoredUpdate ==
    ASSUME NEW s \in Machine, NEW name \in SemName, NEW q \in KernelSemaphore,
           NEW kk \in QuietKernel
    PROVE  Semaphored(s, [s EXCEPT !.k = kk, !.sem[name] = q], name, q.value)
  <1> DEFINE f == [s.sem EXCEPT ![name] = q]
             u == [s EXCEPT !.k = kk, !.sem = f]
  <1>1. s.sem \in [SemName -> KernelSemaphore]
    BY MachineFields
  <1>2. /\ f \in [SemName -> KernelSemaphore] /\ f[name] = q
        /\ \A x \in SemName : x # name => f[x] = s.sem[x]
    BY <1>1
  <1>3. [s EXCEPT !.k = kk, !.sem[name] = q] = u
    BY DEF Machine
  <1> HIDE DEF f
  <1>4. /\ u \in Machine /\ u.sem = f
        /\ u.inYield = s.inYield /\ u.pending = s.pending
        /\ u.yieldOnReturn = s.yieldOnReturn /\ u.loop = s.loop
        /\ u.putBusy = s.putBusy /\ u.incoming = s.incoming /\ u.keyboard = s.keyboard
        /\ u.screen = s.screen /\ u.taken = s.taken /\ u.active = s.active
        /\ u.lock = s.lock /\ u.failed = s.failed
    BY <1>2 DEF Machine
  <1> HIDE DEF u
  <1> QED BY <1>2, <1>3, <1>4 DEF Semaphored

LEMMA VsemEffect ==
    ASSUME NEW s \in Machine, NEW name \in SemName
    PROVE  /\ s.sem[name].value \in Nat
           /\ Semaphored(s, Vsem(s, name), name, s.sem[name].value + 1)
  <1> DEFINE sm == s.sem[name]
             r == V(s.k, sm)
  <1>1. s.k \in QuietKernel /\ sm \in KernelSemaphore
    BY MachineFields
  <1>2. /\ sm.value \in Nat /\ sm.queue \in Seq(Thread)
        /\ sm = [value |-> sm.value, queue |-> sm.queue]
    BY <1>1 DEF KernelSemaphore
  <1>3. Vsem(s, name) = [s EXCEPT !.k = r.k, !.sem[name] = r.sem]
    BY DEF Vsem
  <1> HIDE DEF sm
  <1>4. r.k \in QuietKernel /\ r.sem \in KernelSemaphore /\ r.sem.value = sm.value + 1
    <2>1. CASE sm.queue = <<>>
      <3>1. r.k = s.k /\ r.sem = [value |-> sm.value + 1, queue |-> <<>>]
        BY <1>2, <2>1 DEF V
      <3> QED BY <1>1, <1>2, <3>1 DEF KernelSemaphore
    <2>2. CASE sm.queue # <<>>
      <3>1. Head(sm.queue) \in Thread /\ Tail(sm.queue) \in Seq(Thread)
        BY <1>2, <2>2, HeadTailProperties
      <3>2. /\ r.k = ReadyToRun(s.k, Head(sm.queue))
            /\ r.sem = [value |-> sm.value + 1, queue |-> Tail(sm.queue)]
        BY <1>2, <2>2 DEF V
      <3>3. r.k \in QuietKernel
        BY <1>1, <3>1, <3>2, ReadyQuiet
      <3> QED BY <1>2, <3>1, <3>2, <3>3 DEF KernelSemaphore
    <2> QED BY <2>1, <2>2
  <1> HIDE DEF r
  <1>5. Semaphored(s, [s EXCEPT !.k = r.k, !.sem[name] = r.sem], name, r.sem.value)
    BY <1>4, SemaphoredUpdate
  <1>6. Semaphored(s, Vsem(s, name), name, sm.value + 1)
    BY <1>3, <1>4, <1>5, Zenon
  <1> QED BY <1>2, <1>6 DEF sm

\* Once round the loop of P.
AfterP(s, name) ==
    LET r == TryP(s.k, s.sem[name])
    IN  [s EXCEPT !.k = r.k, !.sem[name] = r.sem]

LEMMA TryPEffect ==
    ASSUME NEW s \in Machine, NEW name \in SemName
    PROVE  /\ s.sem[name].value \in Nat
           /\ TryP(s.k, s.sem[name]).through <=> s.sem[name].value # 0
           /\ Semaphored(s, AfterP(s, name), name,
                         IF s.sem[name].value = 0 THEN 0 ELSE s.sem[name].value - 1)
  <1> DEFINE sm == s.sem[name]
             r == TryP(s.k, sm)
  <1>1. s.k \in QuietKernel /\ sm \in KernelSemaphore /\ s.k.currentThread \in Thread
    BY MachineFields DEF QuietKernel, Kernel
  <1>2. /\ sm.value \in Nat /\ sm.queue \in Seq(Thread)
        /\ sm = [value |-> sm.value, queue |-> sm.queue]
    BY <1>1 DEF KernelSemaphore
  <1>3. AfterP(s, name) = [s EXCEPT !.k = r.k, !.sem[name] = r.sem]
    BY DEF AfterP
  <1> HIDE DEF sm
  <1>4. /\ r.k \in QuietKernel /\ r.sem \in KernelSemaphore
        /\ r.sem.value = IF sm.value = 0 THEN 0 ELSE sm.value - 1
        /\ r.through <=> sm.value # 0
    <2>1. CASE sm.value = 0
      <3>1. /\ r.k = Sleep(s.k, "BLOCKED") /\ r.through = FALSE
            /\ r.sem = [value |-> 0, queue |-> Append(sm.queue, s.k.currentThread)]
        BY <1>2, <2>1 DEF TryP
      <3>2. Append(sm.queue, s.k.currentThread) \in Seq(Thread)
        BY <1>1, <1>2
      <3>3. r.k \in QuietKernel
        BY <1>1, <3>1, SleepQuiet
      <3> QED BY <2>1, <3>1, <3>2, <3>3 DEF KernelSemaphore
    <2>2. CASE sm.value # 0
      <3>1. /\ r.k = s.k /\ r.through = TRUE
            /\ r.sem = [value |-> sm.value - 1, queue |-> sm.queue]
        BY <1>2, <2>2 DEF TryP
      <3> QED BY <1>1, <1>2, <2>2, <3>1 DEF KernelSemaphore
    <2> QED BY <2>1, <2>2
  <1> HIDE DEF r
  <1>5. Semaphored(s, [s EXCEPT !.k = r.k, !.sem[name] = r.sem], name, r.sem.value)
    BY <1>4, SemaphoredUpdate
  <1>6. Semaphored(s, AfterP(s, name), name, IF sm.value = 0 THEN 0 ELSE sm.value - 1)
    BY <1>3, <1>4, <1>5, Zenon
  <1> QED BY <1>2, <1>4, <1>6 DEF sm, r

LEMMA SemaphoredSame ==
    ASSUME NEW s \in Machine, NEW u, NEW name \in SemName, NEW value,
           Semaphored(s, u, name, value)
    PROVE  /\ name \notin {"write", "writeDone"} => SameOutput(s, u)
           /\ name \notin {"read", "readAvail"} => SameInput(s, u)
           /\ name # "disk" => SameDisk(s, u)
           /\ value = s.sem[name].value
                 => SameOutput(s, u) /\ SameInput(s, u) /\ SameDisk(s, u)
  <1>1. \A x \in SemName : /\ x # name => u.sem[x].value = s.sem[x].value
                           /\ value = s.sem[name].value => u.sem[x].value = s.sem[x].value
    BY DEF Semaphored
  <1>2. /\ "write" \in SemName /\ "writeDone" \in SemName /\ "read" \in SemName
        /\ "readAvail" \in SemName /\ "disk" \in SemName
    BY DEF SemName
  <1> QED BY <1>1, <1>2 DEF Semaphored, SameOutput, SameInput, SameDisk

LEMMA SameSound ==
    ASSUME NEW s, NEW u \in Machine, NEW w, NEW l, Sound(s, w, l), ~u.failed,
           PendingSound(u.pending), SameOutput(s, u), SameInput(s, u), SameDisk(s, u)
    PROVE  Sound(u, w, l)
  <1>1. OutputSound(u, w, l)
    BY DEF Sound, OutputSound, SameOutput
  <1>2. InputSound(u, w)
    BY DEF Sound, InputSound, SameInput
  <1>3. SectorsSound(u, w)
    BY DEF Sound, SectorsSound, SameDisk
  <1> QED BY <1>1, <1>2, <1>3 DEF Sound

\* Time passes and a loop that runs handlers begins.
Ticked(s, ticks, loop) == [Advance(s, ticks) EXCEPT !.loop = loop]

LEMMA TickedEffect ==
    ASSUME NEW s, NEW w, NEW l, Sound(s, w, l), NEW ticks \in Int,
           NEW loop \in {"none", "tick", "idle"}
    PROVE  /\ Sound(Ticked(s, ticks, loop), w, l)
           /\ Ticked(s, ticks, loop).pending = Aged(s.pending, ticks)
           /\ Ticked(s, ticks, loop).loop = loop
  <1> DEFINE p == Aged(s.pending, ticks)
             u == [s EXCEPT !.pending = p, !.loop = loop]
  <1>1. s \in Machine /\ s.pending \in Seq(Event) /\ PendingSound(s.pending)
    BY MachineFields DEF Sound
  <1>2. Ticked(s, ticks, loop) = u
    BY <1>1 DEF Ticked, Advance, Aged, Machine
  <1>3. /\ p \in Seq(Event) /\ OneEach(p) /\ InOrder(p)
        /\ \A x : Requests(p, x) = Requests(s.pending, x)
    BY <1>1, AgedEffect DEF PendingSound
  <1> HIDE DEF p
  <1>4. /\ u \in Machine /\ u.pending = p /\ u.loop = loop /\ u.failed = s.failed
        /\ u.sem = s.sem /\ u.putBusy = s.putBusy /\ u.incoming = s.incoming
        /\ u.keyboard = s.keyboard /\ u.screen = s.screen /\ u.taken = s.taken
        /\ u.active = s.active /\ u.lock = s.lock
    BY <1>1, <1>3 DEF Machine
  <1> HIDE DEF u
  <1>5. PendingSound(u.pending)
    BY <1>1, <1>3, <1>4 DEF PendingSound
  <1>6. SameOutput(s, u) /\ SameInput(s, u) /\ SameDisk(s, u)
    BY <1>3, <1>4 DEF SameOutput, SameInput, SameDisk
  <1>7. Sound(u, w, l)
    BY <1>4, <1>5, <1>6, SameSound DEF Sound
  <1> QED BY <1>2, <1>4, <1>7 DEF p

\* A thread has come to s, and falls asleep or begins a tick.
Proceeds(s) ==
    \/ m' = s /\ s.loop = "none"
    \/ \E ticks \in {SystemTick, UserTick} : m' = Ticked(s, ticks, "tick")

LEMMA ProceedSound ==
    ASSUME NEW s, Sound(s, pc', left'), OnTime(s.pending, Sources), Proceeds(s)
    PROVE  IInv'
  <1>1. CASE m' = s /\ s.loop = "none"
    BY <1>1 DEF IInv, InTime
  <1>2. ASSUME NEW ticks \in {SystemTick, UserTick}, m' = Ticked(s, ticks, "tick")
        PROVE  IInv'
    <2>1. ticks \in Int /\ ticks <= SystemTick
      BY TimeAssumption
    <2>2. /\ Sound(m', pc', left') /\ m'.pending = Aged(s.pending, ticks)
          /\ m'.loop = "tick"
      BY <1>2, <2>1, TickedEffect
    <2>3. s.pending \in Seq(Event) /\ OneEach(s.pending) /\ InOrder(s.pending)
      BY MachineFields DEF Sound, PendingSound
    <2>4. OnTime(m'.pending, Sources + 1)
      BY <2>1, <2>2, <2>3, AgedOnTime
    <2> QED BY <2>2, <2>4 DEF IInv, InTime
  <1> QED BY <1>1, <1>2 DEF Proceeds

\* The outcomes of P for a thread that has come to s.
LEMMA PsemCases ==
    ASSUME NEW s \in Machine, s.loop = "none", NEW t, NEW name \in SemName,
           NEW during, NEW after, Psem(t, s, name, during, after)
    PROVE  /\ s.sem[name].value \in Nat /\ Proceeds(AfterP(s, name))
           /\ s.sem[name].value = 0 =>
                 /\ Semaphored(s, AfterP(s, name), name, 0)
                 /\ pc' = [pc EXCEPT ![t] = during]
           /\ s.sem[name].value # 0 =>
                 /\ Semaphored(s, AfterP(s, name), name, s.sem[name].value - 1)
                 /\ pc' = [pc EXCEPT ![t] = after]
  <1> DEFINE u == AfterP(s, name)
             v == s.sem[name].value
  <1>1. /\ v \in Nat /\ TryP(s.k, s.sem[name]).through <=> v # 0
        /\ Semaphored(s, u, name, IF v = 0 THEN 0 ELSE v - 1)
    BY TryPEffect
  <1>2. IF TryP(s.k, s.sem[name]).through THEN TickTo(t, u, SystemTick, after)
        ELSE m' = u /\ pc' = [pc EXCEPT ![t] = during]
    BY DEF Psem, AfterP
  <1> HIDE DEF u, v
  <1>3. CASE v = 0
    <2>1. Semaphored(s, u, name, 0) /\ m' = u /\ pc' = [pc EXCEPT ![t] = during]
      BY <1>1, <1>2, <1>3
    <2> QED BY <1>1, <1>3, <2>1 DEF Semaphored, Proceeds, u, v
  <1>4. CASE v # 0
    <2>1. Semaphored(s, u, name, v - 1) /\ TickTo(t, u, SystemTick, after)
      BY <1>1, <1>2, <1>4
    <2> QED BY <1>1, <1>4, <2>1 DEF TickTo, Ticked, Proceeds, u, v
  <1> QED BY <1>3, <1>4

LEMMA MoveAgrees ==
    ASSUME NEW w \in [Thread -> Where], NEW t \in Thread, NEW label, NEW labels,
           w[t] \notin labels, label \notin labels
    PROVE  Agree(w, [w EXCEPT ![t] = label], labels)
  BY DEF Agree

LEMMA LeftMoves ==
    ASSUME NEW w, NEW l, LeftSound(w, l), NEW t \in Thread, NEW label \in Where,
           NEW n \in 0 .. 2,
           label \in {"write", "putwait", "read", "getwait", "get"} => n > 0
    PROVE  /\ LeftSound([w EXCEPT ![t] = label], [l EXCEPT ![t] = n])
           /\ w[t] \notin OutputLabels => SameLeft(w, l, [l EXCEPT ![t] = n])
  <1> DEFINE x == [w EXCEPT ![t] = label]
             y == [l EXCEPT ![t] = n]
  <1>1. w \in [Thread -> Where] /\ l \in [Thread -> 0 .. 2]
    BY DEF LeftSound
  <1>2. x \in [Thread -> Where] /\ \A u \in Thread : x[u] = IF u = t THEN label ELSE w[u]
    BY <1>1
  <1>3. y \in [Thread -> 0 .. 2] /\ \A u \in Thread : y[u] = IF u = t THEN n ELSE l[u]
    BY <1>1
  <1> HIDE DEF x, y
  <1>4. LeftSound(x, y)
    BY <1>2, <1>3 DEF LeftSound
  <1>5. w[t] \notin OutputLabels => SameLeft(w, l, y)
    BY <1>3 DEF SameLeft
  <1> QED BY <1>4, <1>5 DEF x, y

\* A thread that does not have a device goes to where it does not either.
LEMMA AsideSound ==
    ASSUME NEW s, NEW w, NEW l, Sound(s, w, l), NEW t \in Thread, NEW label \in Where,
           NEW n \in 0 .. 2,
           label \in {"write", "putwait", "read", "getwait", "get"} => n > 0,
           w[t] \notin OutputLabels \cup InputLabels \cup DiskLabels,
           label \notin OutputLabels \cup InputLabels \cup DiskLabels
    PROVE  Sound(s, [w EXCEPT ![t] = label], [l EXCEPT ![t] = n])
  <1> DEFINE x == [w EXCEPT ![t] = label]
             y == [l EXCEPT ![t] = n]
  <1>1. w \in [Thread -> Where]
    BY DEF Sound, LeftSound
  <1>2. Agree(w, x, OutputLabels) /\ Agree(w, x, InputLabels) /\ Agree(w, x, DiskLabels)
    BY <1>1, MoveAgrees
  <1>3. LeftSound(x, y) /\ SameLeft(w, l, y)
    BY LeftMoves DEF Sound
  <1>4. SameOutput(s, s) /\ SameInput(s, s) /\ SameDisk(s, s)
    BY DEF SameOutput, SameInput, SameDisk
  <1> HIDE DEF x, y
  <1>5. OutputSound(s, x, y)
    BY <1>2, <1>3, <1>4, OutputKept DEF Sound
  <1>6. InputSound(s, x)
    BY <1>2, <1>4, InputKept DEF Sound
  <1>7. SectorsSound(s, x)
    BY <1>2, <1>4, SectorsKept DEF Sound
  <1>8. Sound(s, x, y)
    BY <1>3, <1>5, <1>6, <1>7 DEF Sound
  <1> QED BY <1>8 DEF x, y

\* A thread in ConsoleWrite moves on, and nothing but the output changes.
LEMMA OutputMoves ==
    ASSUME NEW s, NEW w, NEW l, Sound(s, w, l), NEW u \in Machine, ~u.failed,
           PendingSound(u.pending), NEW t \in Thread, NEW label \in Where, NEW n \in 0 .. 2,
           label \in {"write", "putwait", "read", "getwait", "get"} => n > 0,
           w[t] \notin InputLabels \cup DiskLabels, label \notin InputLabels \cup DiskLabels,
           OutputSound(u, [w EXCEPT ![t] = label], [l EXCEPT ![t] = n]),
           SameInput(s, u), SameDisk(s, u)
    PROVE  Sound(u, [w EXCEPT ![t] = label], [l EXCEPT ![t] = n])
  <1> DEFINE x == [w EXCEPT ![t] = label]
             y == [l EXCEPT ![t] = n]
  <1>1. w \in [Thread -> Where]
    BY DEF Sound, LeftSound
  <1>2. Agree(w, x, InputLabels) /\ Agree(w, x, DiskLabels)
    BY <1>1, MoveAgrees
  <1>3. LeftSound(x, y)
    BY LeftMoves DEF Sound
  <1> HIDE DEF x, y
  <1>4. OutputSound(u, x, y)
    BY DEF x, y
  <1>5. InputSound(u, x)
    BY <1>2, InputKept DEF Sound
  <1>6. SectorsSound(u, x)
    BY <1>2, SectorsKept DEF Sound
  <1>7. Sound(u, x, y)
    BY <1>3, <1>4, <1>5, <1>6 DEF Sound
  <1> QED BY <1>7 DEF x, y

\* The same for ConsoleRead and the input.
LEMMA InputMoves ==
    ASSUME NEW s, NEW w, NEW l, Sound(s, w, l), NEW u \in Machine, ~u.failed,
           PendingSound(u.pending), NEW t \in Thread, NEW label \in Where, NEW n \in 0 .. 2,
           label \in {"write", "putwait", "read", "getwait", "get"} => n > 0,
           w[t] \notin OutputLabels \cup DiskLabels, label \notin OutputLabels \cup DiskLabels,
           InputSound(u, [w EXCEPT ![t] = label]),
           SameOutput(s, u), SameDisk(s, u)
    PROVE  Sound(u, [w EXCEPT ![t] = label], [l EXCEPT ![t] = n])
  <1> DEFINE x == [w EXCEPT ![t] = label]
             y == [l EXCEPT ![t] = n]
  <1>1. w \in [Thread -> Where]
    BY DEF Sound, LeftSound
  <1>2. Agree(w, x, OutputLabels) /\ Agree(w, x, DiskLabels)
    BY <1>1, MoveAgrees
  <1>3. LeftSound(x, y) /\ SameLeft(w, l, y)
    BY LeftMoves DEF Sound
  <1> HIDE DEF x, y
  <1>4. InputSound(u, x)
    BY DEF x
  <1>5. OutputSound(u, x, y)
    BY <1>2, <1>3, OutputKept DEF Sound
  <1>6. SectorsSound(u, x)
    BY <1>2, SectorsKept DEF Sound
  <1>7. Sound(u, x, y)
    BY <1>3, <1>4, <1>5, <1>6 DEF Sound
  <1> QED BY <1>7 DEF x, y

\* The same for SynchDisk and the disk.
LEMMA DiskMoves ==
    ASSUME NEW s, NEW w, NEW l, Sound(s, w, l), NEW u \in Machine, ~u.failed,
           PendingSound(u.pending), NEW t \in Thread, NEW label \in Where, NEW n \in 0 .. 2,
           label \in {"write", "putwait", "read", "getwait", "get"} => n > 0,
           w[t] \notin OutputLabels \cup InputLabels,
           label \notin OutputLabels \cup InputLabels,
           SectorsSound(u, [w EXCEPT ![t] = label]),
           SameOutput(s, u), SameInput(s, u)
    PROVE  Sound(u, [w EXCEPT ![t] = label], [l EXCEPT ![t] = n])
  <1> DEFINE x == [w EXCEPT ![t] = label]
             y == [l EXCEPT ![t] = n]
  <1>1. w \in [Thread -> Where]
    BY DEF Sound, LeftSound
  <1>2. Agree(w, x, OutputLabels) /\ Agree(w, x, InputLabels)
    BY <1>1, MoveAgrees
  <1>3. LeftSound(x, y) /\ SameLeft(w, l, y)
    BY LeftMoves DEF Sound
  <1> HIDE DEF x, y
  <1>4. SectorsSound(u, x)
    BY DEF x
  <1>5. OutputSound(u, x, y)
    BY <1>2, <1>3, OutputKept DEF Sound
  <1>6. InputSound(u, x)
    BY <1>2, InputKept DEF Sound
  <1>7. Sound(u, x, y)
    BY <1>3, <1>4, <1>5, <1>6 DEF Sound
  <1> QED BY <1>7 DEF x, y

-----------------------------------------------------------------------------
(* The actions of threads *)

\* What holds when a thread runs.
LEMMA RunningFacts ==
    ASSUME IInv, NEW t \in Thread, Running(t)
    PROVE  /\ Sound(m, pc, left) /\ m \in Machine /\ ~m.failed /\ m.loop = "none"
           /\ OnTime(m.pending, Sources) /\ PendingSound(m.pending)
           /\ pc \in [Thread -> Where] /\ left \in [Thread -> 0 .. 2]
  <1>1. Sound(m, pc, left) /\ InTime(m) /\ m.loop = "none"
    BY DEF IInv, Running
  <1> QED BY <1>1 DEF Sound, LeftSound, InTime

LEMMA ResumeYieldStep ==
    ASSUME IInv, NEW t \in Thread, ResumeYield(t)
    PROVE  IInv'
  <1>1. /\ Sound(m, pc, left) /\ OnTime(m.pending, Sources) /\ pc \in [Thread -> Where]
    BY RunningFacts DEF ResumeYield
  <1>2. pc' = pc /\ left' = left
    BY <1>1 DEF ResumeYield, TickTo
  <1>3. Proceeds(m)
    BY DEF Proceeds, ResumeYield, TickTo, Ticked
  <1>4. Sound(m, pc', left')
    BY <1>1, <1>2
  <1> QED BY <1>1, <1>3, <1>4, ProceedSound

LEMMA UserInstructionStep ==
    ASSUME IInv, NEW t \in Thread, UserInstruction(t)
    PROVE  IInv'
  <1>1. /\ Sound(m, pc, left) /\ OnTime(m.pending, Sources) /\ pc \in [Thread -> Where]
    BY RunningFacts DEF UserInstruction, At
  <1>2. pc' = pc /\ left' = left
    BY <1>1 DEF UserInstruction, At, TickTo
  <1>3. Proceeds(m)
    BY DEF Proceeds, UserInstruction, TickTo, Ticked
  <1>4. Sound(m, pc', left')
    BY <1>1, <1>2
  <1> QED BY <1>1, <1>3, <1>4, ProceedSound

\* The state after P by a thread that did not get through.
LEMMA BlockedSound ==
    ASSUME NEW s, NEW w, NEW l, Sound(s, w, l), NEW name \in SemName,
           s.sem[name].value = 0, Semaphored(s, AfterP(s, name), name, 0)
    PROVE  Sound(AfterP(s, name), w, l)
  <1> DEFINE u == AfterP(s, name)
  <1>1. s \in Machine /\ ~s.failed /\ PendingSound(s.pending)
    BY DEF Sound
  <1>2. u \in Machine /\ ~u.failed /\ PendingSound(u.pending)
    BY <1>1 DEF Semaphored
  <1>3. SameOutput(s, u) /\ SameInput(s, u) /\ SameDisk(s, u)
    BY <1>1, SemaphoredSame
  <1> HIDE DEF u
  <1>4. Sound(u, w, l)
    BY <1>2, <1>3, SameSound
  <1> QED BY <1>4 DEF u

\* A thread calls ConsoleRead or ConsoleWrite, or is in P inside it.
LEMMA EntryFacts ==
    ASSUME IInv, NEW t \in Thread, NEW label \in {"write", "read"},
           \/ \E n \in 1 .. 2 : BeginCall(t, n)
           \/ At(t, label) /\ UNCHANGED <<left, calls>>
    PROVE  /\ Running(t) /\ pc[t] \in {"user", label}
           /\ \E n \in 1 .. 2 : left' = [left EXCEPT ![t] = n]
  <1>1. ASSUME NEW n \in 1 .. 2, BeginCall(t, n)
        PROVE  /\ Running(t) /\ pc[t] \in {"user", label}
               /\ left' = [left EXCEPT ![t] = n]
    BY <1>1 DEF BeginCall, At
  <1>2. CASE At(t, label) /\ UNCHANGED <<left, calls>>
    <2>1. Running(t) /\ pc[t] = label /\ left' = left
      BY <1>2 DEF At
    <2>2. left \in [Thread -> 0 .. 2] /\ left[t] > 0
      BY <2>1 DEF IInv, Sound, LeftSound
    <2>3. left[t] \in 1 .. 2 /\ left' = [left EXCEPT ![t] = left[t]]
      BY <2>1, <2>2
    <2> QED BY <2>1, <2>3
  <1> QED BY <1>1, <1>2

LEMMA ConsoleWriteStep ==
    ASSUME IInv, NEW t \in Thread, ConsoleWrite(t)
    PROVE  IInv'
  <1> DEFINE u == AfterP(m, "write")
             v == m.sem["write"].value
  <1>1. Running(t) /\ pc[t] \in {"user", "write"}
    BY EntryFacts DEF ConsoleWrite
  <1>2. PICK n \in 1 .. 2 : left' = [left EXCEPT ![t] = n]
    BY EntryFacts DEF ConsoleWrite
  <1>3. /\ Sound(m, pc, left) /\ m \in Machine /\ ~m.failed /\ m.loop = "none"
        /\ OnTime(m.pending, Sources) /\ PendingSound(m.pending)
        /\ pc \in [Thread -> Where] /\ left \in [Thread -> 0 .. 2]
    BY <1>1, RunningFacts
  <1>4. "write" \in SemName /\ Psem(t, m, "write", "write", "put")
    BY DEF SemName, ConsoleWrite
  <1>5. /\ v \in Nat /\ Proceeds(u)
        /\ v = 0 => Semaphored(m, u, "write", 0) /\ pc' = [pc EXCEPT ![t] = "write"]
        /\ v # 0 => Semaphored(m, u, "write", v - 1) /\ pc' = [pc EXCEPT ![t] = "put"]
    BY <1>3, <1>4, PsemCases
  <1>6. /\ pc[t] \notin OutputLabels \cup InputLabels \cup DiskLabels
        /\ "write" \notin OutputLabels \cup InputLabels \cup DiskLabels
        /\ "put" \notin InputLabels \cup DiskLabels
        /\ "write" \in Where /\ "put" \in Where /\ n \in 0 .. 2 /\ n > 0
    BY <1>1 DEF OutputLabels, InputLabels, DiskLabels, Where
  <1>7. CASE v = 0
    <2>1. Sound(u, pc, left)
      BY <1>3, <1>4, <1>5, <1>7, BlockedSound
    <2> HIDE DEF u
    <2>2. Sound(u, [pc EXCEPT ![t] = "write"], [left EXCEPT ![t] = n])
      BY <1>6, <2>1, AsideSound
    <2>4. Sound(u, pc', left')
      BY <1>2, <1>5, <1>7, <2>2, Zenon
    <2>3. OnTime(u.pending, Sources)
      BY <1>3, <1>5, <1>7 DEF Semaphored
    <2> QED BY <1>5, <2>3, <2>4, ProceedSound
  <1>8. CASE v # 0
    <2>1. Semaphored(m, u, "write", v - 1) /\ pc' = [pc EXCEPT ![t] = "put"]
      BY <1>5, <1>8
    <2> HIDE DEF u
    <2>2. /\ u \in Machine /\ ~u.failed /\ PendingSound(u.pending)
          /\ OnTime(u.pending, Sources)
      BY <1>3, <2>1 DEF Semaphored
    <2>3. SameInput(m, u) /\ SameDisk(m, u)
      BY <1>3, <1>4, <2>1, SemaphoredSame
    <2>4. OutputSound(u, pc', left')
      <3>1. WriteSound(v, m.sem["writeDone"].value, m.putBusy, m.screen,
                       Requests(m.pending, "ConsoleWriteInt"), pc, left)
        BY <1>3 DEF Sound, OutputSound
      <3>2. WriteSound(v - 1, m.sem["writeDone"].value, m.putBusy, m.screen,
                       Requests(m.pending, "ConsoleWriteInt"), pc', left')
        <4> HIDE DEF v
        <4> QED BY <1>3, <1>8, <2>1, <3>1, WriteEnter
      <3>3. /\ u.sem["write"].value = v - 1 /\ u.sem["writeDone"] = m.sem["writeDone"]
            /\ u.putBusy = m.putBusy /\ u.screen = m.screen /\ u.pending = m.pending
        BY <2>1 DEF Semaphored, SemName
      <3> QED BY <3>2, <3>3 DEF OutputSound
    <2>5. Sound(u, pc', left')
      BY <1>2, <1>3, <1>6, <2>1, <2>2, <2>3, <2>4, OutputMoves
    <2> QED BY <1>5, <2>2, <2>5, ProceedSound
  <1> QED BY <1>7, <1>8

LEMMA PutWaitStep ==
    ASSUME IInv, NEW t \in Thread, PutWait(t)
    PROVE  IInv'
  <1> DEFINE u == AfterP(m, "writeDone")
             v == m.sem["writeDone"].value
  <1>1. Running(t) /\ pc[t] = "putwait"
    BY DEF PutWait, At
  <1>2. /\ Sound(m, pc, left) /\ m \in Machine /\ ~m.failed /\ m.loop = "none"
        /\ OnTime(m.pending, Sources) /\ PendingSound(m.pending)
        /\ pc \in [Thread -> Where] /\ left \in [Thread -> 0 .. 2]
    BY <1>1, RunningFacts
  <1>3. "writeDone" \in SemName /\ Psem(t, m, "writeDone", "putwait", "put")
    BY DEF SemName, PutWait
  <1>4. /\ v \in Nat /\ Proceeds(u)
        /\ v = 0 =>
              Semaphored(m, u, "writeDone", 0) /\ pc' = [pc EXCEPT ![t] = "putwait"]
        /\ v # 0 =>
              Semaphored(m, u, "writeDone", v - 1) /\ pc' = [pc EXCEPT ![t] = "put"]
    BY <1>2, <1>3, PsemCases
  <1>5. left[t] > 0 /\ left[t] \in 0 .. 2
    BY <1>1, <1>2 DEF Sound, LeftSound
  <1>6. left' = [left EXCEPT ![t] = IF pc'[t] = "put" THEN left[t] - 1 ELSE left[t]]
    BY <1>2 DEF PutWait
  <1>7. CASE v = 0
    <2>1. pc' = pc /\ left' = left
      <3>1. pc' = pc
        BY <1>1, <1>2, <1>4, <1>7
      <3> QED BY <1>1, <1>2, <1>6, <3>1
    <2>2. Sound(u, pc, left)
      BY <1>2, <1>3, <1>4, <1>7, BlockedSound
    <2> HIDE DEF u
    <2>3. Sound(u, pc', left')
      BY <2>1, <2>2
    <2>4. OnTime(u.pending, Sources)
      BY <1>2, <1>4, <1>7 DEF Semaphored
    <2> QED BY <1>4, <2>3, <2>4, ProceedSound
  <1>8. CASE v # 0
    <2>1. Semaphored(m, u, "writeDone", v - 1) /\ pc' = [pc EXCEPT ![t] = "put"]
      BY <1>4, <1>8
    <2> HIDE DEF u
    <2>2. left' = [left EXCEPT ![t] = left[t] - 1] /\ left[t] - 1 \in 0 .. 2
      BY <1>2, <1>5, <1>6, <2>1
    <2>3. /\ u \in Machine /\ ~u.failed /\ PendingSound(u.pending)
          /\ OnTime(u.pending, Sources)
      BY <1>2, <2>1 DEF Semaphored
    <2>4. SameInput(m, u) /\ SameDisk(m, u)
      BY <1>2, <1>3, <2>1, SemaphoredSame
    <2>5. OutputSound(u, pc', left')
      <3>1. WriteSound(m.sem["write"].value, v, m.putBusy, m.screen,
                       Requests(m.pending, "ConsoleWriteInt"), pc, left)
        BY <1>2 DEF Sound, OutputSound
      <3>2. left' = [left EXCEPT ![t] = @ - 1]
        BY <2>2
      <3>3. WriteSound(m.sem["write"].value, v - 1, m.putBusy, m.screen,
                       Requests(m.pending, "ConsoleWriteInt"), pc', left')
        <4> HIDE DEF v
        <4> QED BY <1>1, <1>2, <1>8, <2>1, <3>1, <3>2, WriteNext
      <3>4. /\ u.sem["writeDone"].value = v - 1 /\ u.sem["write"] = m.sem["write"]
            /\ u.putBusy = m.putBusy /\ u.screen = m.screen /\ u.pending = m.pending
        BY <2>1 DEF Semaphored, SemName
      <3> QED BY <3>3, <3>4 DEF OutputSound
    <2>6. /\ pc[t] \notin InputLabels \cup DiskLabels
          /\ "put" \notin InputLabels \cup DiskLabels /\ "put" \in Where
      BY <1>1 DEF InputLabels, DiskLabels, Where
    <2>7. Sound(u, pc', left')
      BY <1>2, <2>1, <2>2, <2>3, <2>4, <2>5, <2>6, OutputMoves
    <2> QED BY <1>4, <2>3, <2>7, ProceedSound
  <1> QED BY <1>7, <1>8

\* u is s with an interrupt of that type, about arg, scheduled.
Rescheduled(s, u, type, arg) ==
    /\ u \in Machine
    /\ Scheduled(s.pending, u.pending, type, arg)
    /\ u.k = s.k /\ u.inYield = s.inYield /\ u.sem = s.sem
    /\ u.yieldOnReturn = s.yieldOnReturn /\ u.loop = s.loop
    /\ u.putBusy = s.putBusy /\ u.incoming = s.incoming /\ u.keyboard = s.keyboard
    /\ u.screen = s.screen /\ u.taken = s.taken /\ u.active = s.active
    /\ u.lock = s.lock /\ u.failed = s.failed

LEMMA MachineScheduled ==
    ASSUME NEW s \in Machine, OneEach(s.pending), InOrder(s.pending),
           NEW type \in IntType, NEW arg \in {0} \cup Char,
           type = "ConsoleWriteInt" => arg \in Char,
           NEW when \in Int, when > 0, Requests(s.pending, type) = {}
    PROVE  Rescheduled(s, Schedule(s, type, arg, when), type, arg)
  <1> DEFINE e == [type |-> type, arg |-> arg, when |-> when]
             q == InsertAt(s.pending, InterruptPosition(s.pending, when), e)
             u == [s EXCEPT !.pending = q]
  <1>1. e \in Event /\ e.type = type /\ e.arg = arg /\ e.when = when
    BY DEF Event
  <1>2. s.pending \in Seq(Event)
    BY MachineFields
  <1>3. Schedule(s, type, arg, when) = u
    BY DEF Schedule
  <1> HIDE DEF e
  <1>4. Scheduled(s.pending, InsertAt(s.pending, InterruptPosition(s.pending, e.when), e),
                  e.type, e.arg)
    BY <1>1, <1>2, ScheduleEffect
  <1>5. Scheduled(s.pending, q, type, arg)
    BY <1>1, <1>4, Zenon
  <1> HIDE DEF q
  <1>6. q \in Seq(Event)
    BY <1>5 DEF Scheduled
  <1>7. /\ u \in Machine /\ u.pending = q
        /\ u.k = s.k /\ u.inYield = s.inYield /\ u.sem = s.sem
        /\ u.yieldOnReturn = s.yieldOnReturn /\ u.loop = s.loop
        /\ u.putBusy = s.putBusy /\ u.incoming = s.incoming /\ u.keyboard = s.keyboard
        /\ u.screen = s.screen /\ u.taken = s.taken /\ u.active = s.active
        /\ u.lock = s.lock /\ u.failed = s.failed
    BY <1>6 DEF Machine
  <1> HIDE DEF u
  <1> QED BY <1>3, <1>5, <1>7 DEF Rescheduled

\* Another type of interrupt is not disturbed.
LEMMA ScheduledPending ==
    ASSUME NEW p, NEW q, NEW type, NEW arg, Scheduled(p, q, type, arg),
           \/ PendingSound(p)
           \/ /\ type = "TimerInt" /\ Requests(p, "ConsoleReadInt") # {}
           \/ /\ type = "ConsoleReadInt" /\ Requests(p, "TimerInt") # {}
    PROVE  PendingSound(q)
  <1>1. Requests(q, type) # {}
    BY DEF Scheduled
  <1>2. /\ Requests(p, "TimerInt") # {} => Requests(q, "TimerInt") # {}
        /\ Requests(p, "ConsoleReadInt") # {} => Requests(q, "ConsoleReadInt") # {}
    BY <1>1 DEF Scheduled
  <1> QED BY <1>1, <1>2 DEF Scheduled, PendingSound

\* PutChar's request to the device.
PutRequest(t) ==
    Schedule([m EXCEPT !.failed = @ \/ m.putBusy, !.putBusy = TRUE],
             "ConsoleWriteInt", <<t, left[t]>>, ConsoleTime)

LEMMA PutRequestSound ==
    ASSUME Sound(m, pc, left), OnTime(m.pending, Sources), NEW t \in Thread,
           pc[t] = "put", left[t] > 0
    PROVE  /\ Sound(PutRequest(t), [pc EXCEPT ![t] = "putwait"], left)
           /\ OnTime(PutRequest(t).pending, Sources)
  <1> DEFINE s == [m EXCEPT !.failed = @ \/ m.putBusy, !.putBusy = TRUE]
             u == PutRequest(t)
             x == [pc EXCEPT ![t] = "putwait"]
             a == <<t, left[t]>>
  <1>1. /\ m \in Machine /\ ~m.failed /\ PendingSound(m.pending)
        /\ pc \in [Thread -> Where] /\ left \in [Thread -> 0 .. 2]
        /\ m.putBusy \in BOOLEAN
    BY MachineFields DEF Sound, LeftSound
  <1>2. /\ Requests(m.pending, "ConsoleWriteInt") = {} /\ m.putBusy = FALSE
        /\ WriteSound(m.sem["write"].value, m.sem["writeDone"].value, TRUE, m.screen,
                      {a}, x, left)
    <2>1. WriteSound(m.sem["write"].value, m.sem["writeDone"].value, m.putBusy, m.screen,
                     Requests(m.pending, "ConsoleWriteInt"), pc, left)
      BY DEF Sound, OutputSound
    <2> DEFINE b == m.putBusy
               scr == m.screen
               r == Requests(m.pending, "ConsoleWriteInt")
               v == m.sem["write"].value
               d == m.sem["writeDone"].value
    <2>2. b \in BOOLEAN /\ WriteSound(v, d, b, scr, r, pc, left)
      BY <1>1, <2>1
    <2> HIDE DEF b, scr, r, v, d, x, a
    <2>3. r = {} /\ b = FALSE /\ WriteSound(v, d, TRUE, scr, {<<t, left[t]>>},
                                             [pc EXCEPT ![t] = "putwait"], left)
      BY <1>1, <2>2, WritePut, Zenon
    <2> QED BY <2>3, Zenon DEF b, scr, r, v, d, x, a
  <1>3. a \in Char
    BY <1>1 DEF Char
  <1> HIDE DEF a, x
  <1>4. /\ s \in Machine /\ s.failed = FALSE /\ s.putBusy = TRUE /\ s.sem = m.sem
        /\ s.pending = m.pending /\ s.incoming = m.incoming /\ s.keyboard = m.keyboard
        /\ s.screen = m.screen /\ s.taken = m.taken /\ s.active = m.active
        /\ s.lock = m.lock
    BY <1>1, <1>2 DEF Machine
  <1> HIDE DEF s
  <1>5. ConsoleTime \in Int /\ ConsoleTime > 0
    BY TimeAssumption
  <1>6. OneEach(s.pending) /\ InOrder(s.pending) /\ Requests(s.pending, "ConsoleWriteInt") = {}
    BY <1>1, <1>2, <1>4 DEF PendingSound
  <1>7. "ConsoleWriteInt" \in IntType
    BY DEF IntType
  <1>8. Rescheduled(s, Schedule(s, "ConsoleWriteInt", a, ConsoleTime), "ConsoleWriteInt", a)
    BY <1>3, <1>4, <1>5, <1>6, <1>7, MachineScheduled
  <1>9. Rescheduled(s, u, "ConsoleWriteInt", a)
    BY <1>8 DEF PutRequest, s, a
  <1> HIDE DEF u
  <1>10. /\ u \in Machine /\ ~u.failed /\ u.putBusy = TRUE /\ u.sem = m.sem
         /\ u.incoming = m.incoming /\ u.keyboard = m.keyboard
         /\ u.screen = m.screen /\ u.taken = m.taken /\ u.active = m.active
         /\ u.lock = m.lock /\ Scheduled(m.pending, u.pending, "ConsoleWriteInt", a)
    BY <1>4, <1>9 DEF Rescheduled
  <1>11. PendingSound(u.pending)
    BY <1>1, <1>10, ScheduledPending
  <1>12. /\ Requests(u.pending, "ConsoleWriteInt") = {a}
         /\ Requests(u.pending, "DiskInt") = Requests(m.pending, "DiskInt")
         /\ OnTime(u.pending, Sources)
    BY <1>10 DEF Scheduled
  <1>13. SameInput(m, u) /\ SameDisk(m, u)
    BY <1>10, <1>12 DEF SameInput, SameDisk
  <1>14. OutputSound(u, x, left)
    BY <1>2, <1>10, <1>12 DEF OutputSound
  <1>15. left = [left EXCEPT ![t] = left[t]] /\ left[t] \in 0 .. 2
    BY <1>1
  <1>16. OutputSound(u, [pc EXCEPT ![t] = "putwait"], [left EXCEPT ![t] = left[t]])
    BY <1>14, <1>15 DEF x
  <1>17. /\ pc[t] \notin InputLabels \cup DiskLabels
         /\ "putwait" \notin InputLabels \cup DiskLabels /\ "putwait" \in Where
    BY DEF InputLabels, DiskLabels, Where
  <1>18. Sound(u, [pc EXCEPT ![t] = "putwait"], [left EXCEPT ![t] = left[t]])
    BY <1>10, <1>11, <1>13, <1>15, <1>16, <1>17, OutputMoves
  <1> QED BY <1>12, <1>15, <1>18 DEF u

LEMMA PutCharStep ==
    ASSUME IInv, NEW t \in Thread, PutChar(t)
    PROVE  IInv'
  <1>1. Running(t) /\ pc[t] = "put" /\ left' = left
    BY DEF PutChar, At
  <1>2. /\ Sound(m, pc, left) /\ m \in Machine /\ ~m.failed /\ m.loop = "none"
        /\ OnTime(m.pending, Sources) /\ PendingSound(m.pending)
        /\ pc \in [Thread -> Where] /\ left \in [Thread -> 0 .. 2]
    BY <1>1, RunningFacts
  <1>3. left = [left EXCEPT ![t] = left[t]] /\ left[t] \in 0 .. 2
    BY <1>2
  <1>4. CASE left[t] = 0
    <2> DEFINE u == Vsem(m, "write")
               v == m.sem["write"].value
    <2>1. TickTo(t, u, SystemTick, "user")
      BY <1>4 DEF PutChar, EndCall
    <2>2. Proceeds(u) /\ pc' = [pc EXCEPT ![t] = "user"]
      BY <2>1 DEF TickTo, Ticked, Proceeds
    <2>3. "write" \in SemName
      BY DEF SemName
    <2>4. Semaphored(m, u, "write", v + 1)
      BY <1>2, <2>3, VsemEffect
    <2> HIDE DEF u
    <2>5. /\ u \in Machine /\ ~u.failed /\ PendingSound(u.pending)
          /\ OnTime(u.pending, Sources)
      BY <1>2, <2>4 DEF Semaphored
    <2>6. SameInput(m, u) /\ SameDisk(m, u)
      BY <1>2, <2>3, <2>4, SemaphoredSame
    <2>7. OutputSound(u, [pc EXCEPT ![t] = "user"], left)
      <3>1. WriteSound(v, m.sem["writeDone"].value, m.putBusy, m.screen,
                       Requests(m.pending, "ConsoleWriteInt"), pc, left)
        BY <1>2 DEF Sound, OutputSound
      <3>2. m.screen \in Seq(Char)
        BY <1>2, MachineFields
      <3>3. WriteSound(v + 1, m.sem["writeDone"].value, m.putBusy, m.screen,
                       Requests(m.pending, "ConsoleWriteInt"), [pc EXCEPT ![t] = "user"], left)
        <4> HIDE DEF v
        <4> QED BY <1>1, <1>2, <1>4, <3>1, <3>2, WriteLeave
      <3>4. /\ u.sem["write"].value = v + 1 /\ u.sem["writeDone"] = m.sem["writeDone"]
            /\ u.putBusy = m.putBusy /\ u.screen = m.screen /\ u.pending = m.pending
        BY <2>4 DEF Semaphored, SemName
      <3> QED BY <3>3, <3>4 DEF OutputSound
    <2>8. OutputSound(u, [pc EXCEPT ![t] = "user"], [left EXCEPT ![t] = left[t]])
      BY <1>3, <2>7
    <2>9. /\ pc[t] \notin InputLabels \cup DiskLabels
          /\ "user" \notin InputLabels \cup DiskLabels /\ "user" \in Where
      BY <1>1 DEF InputLabels, DiskLabels, Where
    <2>10. Sound(u, [pc EXCEPT ![t] = "user"], [left EXCEPT ![t] = left[t]])
      BY <1>2, <1>3, <2>5, <2>6, <2>8, <2>9, OutputMoves
    <2>11. Sound(u, pc', left')
      BY <1>1, <1>3, <2>2, <2>10
    <2> QED BY <2>2, <2>5, <2>11, ProceedSound
  <1>5. CASE left[t] # 0
    <2> DEFINE u == PutRequest(t)
    <2>1. TickTo(t, u, SystemTick, "putwait")
      BY <1>5 DEF PutChar, PutRequest
    <2>2. Proceeds(u) /\ pc' = [pc EXCEPT ![t] = "putwait"]
      BY <2>1 DEF TickTo, Ticked, Proceeds
    <2>3. /\ Sound(u, [pc EXCEPT ![t] = "putwait"], left) /\ OnTime(u.pending, Sources)
      <3>1. left[t] > 0
        BY <1>3, <1>5
      <3> QED BY <1>1, <1>2, <3>1, PutRequestSound
    <2> HIDE DEF u
    <2>4. Sound(u, pc', left')
      BY <1>1, <2>2, <2>3
    <2> QED BY <2>2, <2>3, <2>4, ProceedSound
  <1> QED BY <1>4, <1>5

LEMMA ConsoleReadStep ==
    ASSUME IInv, NEW t \in Thread, ConsoleRead(t)
    PROVE  IInv'
  <1> DEFINE u == AfterP(m, "read")
             v == m.sem["read"].value
  <1>1. Running(t) /\ pc[t] \in {"user", "read"}
    BY EntryFacts DEF ConsoleRead
  <1>2. PICK n \in 1 .. 2 : left' = [left EXCEPT ![t] = n]
    BY EntryFacts DEF ConsoleRead
  <1>3. /\ Sound(m, pc, left) /\ m \in Machine /\ ~m.failed /\ m.loop = "none"
        /\ OnTime(m.pending, Sources) /\ PendingSound(m.pending)
        /\ pc \in [Thread -> Where] /\ left \in [Thread -> 0 .. 2]
    BY <1>1, RunningFacts
  <1>4. "read" \in SemName /\ Psem(t, m, "read", "read", "getwait")
    BY DEF SemName, ConsoleRead
  <1>5. /\ v \in Nat /\ Proceeds(u)
        /\ v = 0 => Semaphored(m, u, "read", 0) /\ pc' = [pc EXCEPT ![t] = "read"]
        /\ v # 0 => Semaphored(m, u, "read", v - 1) /\ pc' = [pc EXCEPT ![t] = "getwait"]
    BY <1>3, <1>4, PsemCases
  <1>6. /\ pc[t] \notin OutputLabels \cup InputLabels \cup DiskLabels
        /\ "read" \notin OutputLabels \cup InputLabels \cup DiskLabels
        /\ "getwait" \notin OutputLabels \cup DiskLabels
        /\ "read" \in Where /\ "getwait" \in Where /\ n \in 0 .. 2 /\ n > 0
    BY <1>1 DEF OutputLabels, InputLabels, DiskLabels, Where
  <1>7. CASE v = 0
    <2>1. Sound(u, pc, left)
      BY <1>3, <1>4, <1>5, <1>7, BlockedSound
    <2> HIDE DEF u
    <2>2. Sound(u, [pc EXCEPT ![t] = "read"], [left EXCEPT ![t] = n])
      BY <1>6, <2>1, AsideSound
    <2>3. Sound(u, pc', left')
      BY <1>2, <1>5, <1>7, <2>2, Zenon
    <2>4. OnTime(u.pending, Sources)
      BY <1>3, <1>5, <1>7 DEF Semaphored
    <2> QED BY <1>5, <2>3, <2>4, ProceedSound
  <1>8. CASE v # 0
    <2>1. Semaphored(m, u, "read", v - 1) /\ pc' = [pc EXCEPT ![t] = "getwait"]
      BY <1>5, <1>8
    <2> HIDE DEF u
    <2>2. /\ u \in Machine /\ ~u.failed /\ PendingSound(u.pending)
          /\ OnTime(u.pending, Sources)
      BY <1>3, <2>1 DEF Semaphored
    <2>3. SameOutput(m, u) /\ SameDisk(m, u)
      BY <1>3, <1>4, <2>1, SemaphoredSame
    <2>4. InputSound(u, pc')
      <3>1. ReadSound(v, m.sem["readAvail"].value, m.incoming, m.keyboard, m.taken, pc)
        BY <1>3 DEF Sound, InputSound
      <3>2. ReadSound(v - 1, m.sem["readAvail"].value, m.incoming, m.keyboard, m.taken, pc')
        <4> HIDE DEF v
        <4> QED BY <1>3, <1>8, <2>1, <3>1, ReadEnter
      <3>3. /\ u.sem["read"].value = v - 1 /\ u.sem["readAvail"] = m.sem["readAvail"]
            /\ u.incoming = m.incoming /\ u.keyboard = m.keyboard /\ u.taken = m.taken
        BY <2>1 DEF Semaphored, SemName
      <3> QED BY <3>2, <3>3 DEF InputSound
    <2>5. Sound(u, pc', left')
      BY <1>2, <1>3, <1>6, <2>1, <2>2, <2>3, <2>4, InputMoves
    <2> QED BY <1>5, <2>2, <2>5, ProceedSound
  <1> QED BY <1>7, <1>8

LEMMA GetWaitStep ==
    ASSUME IInv, NEW t \in Thread, GetWait(t)
    PROVE  IInv'
  <1> DEFINE u == AfterP(m, "readAvail")
             v == m.sem["readAvail"].value
  <1>1. Running(t) /\ pc[t] = "getwait" /\ left' = left
    BY DEF GetWait, At
  <1>2. /\ Sound(m, pc, left) /\ m \in Machine /\ ~m.failed /\ m.loop = "none"
        /\ OnTime(m.pending, Sources) /\ PendingSound(m.pending)
        /\ pc \in [Thread -> Where] /\ left \in [Thread -> 0 .. 2]
    BY <1>1, RunningFacts
  <1>3. "readAvail" \in SemName /\ Psem(t, m, "readAvail", "getwait", "get")
    BY DEF SemName, GetWait
  <1>4. /\ v \in Nat /\ Proceeds(u)
        /\ v = 0 =>
              Semaphored(m, u, "readAvail", 0) /\ pc' = [pc EXCEPT ![t] = "getwait"]
        /\ v # 0 =>
              Semaphored(m, u, "readAvail", v - 1) /\ pc' = [pc EXCEPT ![t] = "get"]
    BY <1>2, <1>3, PsemCases
  <1>5. left[t] > 0 /\ left[t] \in 0 .. 2 /\ left' = [left EXCEPT ![t] = left[t]]
    BY <1>1, <1>2 DEF Sound, LeftSound
  <1>6. CASE v = 0
    <2>1. pc' = pc
      BY <1>1, <1>2, <1>4, <1>6
    <2>2. Sound(u, pc, left)
      BY <1>2, <1>3, <1>4, <1>6, BlockedSound
    <2> HIDE DEF u
    <2>3. Sound(u, pc', left')
      BY <1>1, <2>1, <2>2
    <2>4. OnTime(u.pending, Sources)
      BY <1>2, <1>4, <1>6 DEF Semaphored
    <2> QED BY <1>4, <2>3, <2>4, ProceedSound
  <1>7. CASE v # 0
    <2>1. Semaphored(m, u, "readAvail", v - 1) /\ pc' = [pc EXCEPT ![t] = "get"]
      BY <1>4, <1>7
    <2> HIDE DEF u
    <2>2. /\ u \in Machine /\ ~u.failed /\ PendingSound(u.pending)
          /\ OnTime(u.pending, Sources)
      BY <1>2, <2>1 DEF Semaphored
    <2>3. SameOutput(m, u) /\ SameDisk(m, u)
      BY <1>2, <1>3, <2>1, SemaphoredSame
    <2>4. InputSound(u, pc')
      <3>1. ReadSound(m.sem["read"].value, v, m.incoming, m.keyboard, m.taken, pc)
        BY <1>2 DEF Sound, InputSound
      <3>2. ReadSound(m.sem["read"].value, v - 1, m.incoming, m.keyboard, m.taken, pc')
        <4> HIDE DEF v
        <4> QED BY <1>1, <1>2, <1>7, <2>1, <3>1, ReadThrough
      <3>3. /\ u.sem["readAvail"].value = v - 1 /\ u.sem["read"] = m.sem["read"]
            /\ u.incoming = m.incoming /\ u.keyboard = m.keyboard /\ u.taken = m.taken
        BY <2>1 DEF Semaphored, SemName
      <3> QED BY <3>2, <3>3 DEF InputSound
    <2>5. /\ pc[t] \notin OutputLabels \cup DiskLabels
          /\ "get" \notin OutputLabels \cup DiskLabels /\ "get" \in Where
      BY <1>1 DEF OutputLabels, DiskLabels, Where
    <2>6. Sound(u, pc', left')
      BY <1>2, <1>5, <2>1, <2>2, <2>3, <2>4, <2>5, InputMoves
    <2> QED BY <1>4, <2>2, <2>6, ProceedSound
  <1> QED BY <1>6, <1>7

\* GetChar leaves the thread as if it were waiting for another character.
LEMMA GetCharSound ==
    ASSUME Sound(m, pc, left), NEW t \in Thread, pc[t] = "get"
    PROVE  /\ Sound(GetChar(m), [pc EXCEPT ![t] = "getwait"], left)
           /\ GetChar(m).loop = m.loop /\ GetChar(m).pending = m.pending
           /\ GetChar(m).sem["readAvail"].value = 0
  <1> DEFINE s == GetChar(m)
             x == [pc EXCEPT ![t] = "getwait"]
             tk == Append(m.taken, m.incoming)
  <1>1. /\ m \in Machine /\ ~m.failed /\ PendingSound(m.pending)
        /\ pc \in [Thread -> Where] /\ left \in [Thread -> 0 .. 2] /\ left[t] > 0
        /\ m.incoming \in Typed \cup {FLAG_EOF} /\ m.keyboard \in Seq(Typed)
        /\ m.taken \in Seq(Typed)
    BY MachineFields DEF Sound, LeftSound
  <1>2. ReadSound(m.sem["read"].value, m.sem["readAvail"].value, m.incoming,
                  m.keyboard, m.taken, pc)
    BY DEF Sound, InputSound
  <1>3. /\ m.incoming \in Typed
        /\ ReadSound(m.sem["read"].value, m.sem["readAvail"].value, FLAG_EOF,
                     m.keyboard, tk, x)
    BY <1>1, <1>2, ReadTake
  <1>4. m.sem["readAvail"].value = 0
    BY <1>3 DEF ReadSound
  <1>5. tk \in Seq(Typed)
    BY <1>1, <1>3
  <1>6. s = [m EXCEPT !.taken = tk, !.incoming = FLAG_EOF]
    BY DEF GetChar
  <1> HIDE DEF tk, x
  <1>7. /\ s \in Machine /\ ~s.failed /\ s.loop = m.loop /\ s.pending = m.pending
        /\ s.sem = m.sem /\ s.keyboard = m.keyboard /\ s.taken = tk
        /\ s.incoming = FLAG_EOF /\ s.putBusy = m.putBusy /\ s.screen = m.screen
        /\ s.active = m.active /\ s.lock = m.lock
    BY <1>1, <1>5, <1>6 DEF Machine
  <1> HIDE DEF s
  <1>8. SameOutput(m, s) /\ SameDisk(m, s)
    BY <1>7 DEF SameOutput, SameDisk
  <1>9. InputSound(s, x)
    BY <1>3, <1>7 DEF InputSound
  <1>10. left = [left EXCEPT ![t] = left[t]] /\ left[t] \in 0 .. 2
    BY <1>1
  <1>11. /\ pc[t] \notin OutputLabels \cup DiskLabels
         /\ "getwait" \notin OutputLabels \cup DiskLabels /\ "getwait" \in Where
    BY DEF OutputLabels, DiskLabels, Where
  <1>12. PendingSound(s.pending) /\ InputSound(s, [pc EXCEPT ![t] = "getwait"])
    BY <1>1, <1>7, <1>9 DEF x
  <1>13. Sound(s, [pc EXCEPT ![t] = "getwait"], [left EXCEPT ![t] = left[t]])
    BY <1>1, <1>7, <1>8, <1>10, <1>11, <1>12, InputMoves
  <1> QED BY <1>4, <1>7, <1>10, <1>13 DEF s

LEMMA GetStep ==
    ASSUME IInv, NEW t \in Thread, Get(t)
    PROVE  IInv'
  <1> DEFINE w == [pc EXCEPT ![t] = "getwait"]
             n == left'[t]
  <1>0. PICK s : s = GetChar(m)
    OBVIOUS
  <1>1. Running(t) /\ pc[t] = "get"
    BY DEF Get, At
  <1>2. /\ Sound(m, pc, left) /\ m.loop = "none" /\ OnTime(m.pending, Sources)
        /\ pc \in [Thread -> Where] /\ left \in [Thread -> 0 .. 2] /\ left[t] > 0
    <2>1. left[t] > 0
      BY <1>1 DEF IInv, Sound, LeftSound
    <2> QED BY <1>1, <2>1, RunningFacts
  <1>3. n \in 0 .. 2 /\ left' = [left EXCEPT ![t] = n]
    BY <1>2 DEF Get
  <1>4. /\ Sound(s, w, left) /\ s.loop = "none" /\ s.pending = m.pending
        /\ s.sem["readAvail"].value = 0
    BY <1>0, <1>1, <1>2, GetCharSound
  <1>5. IF n = 0 THEN EndCall(t, s, "read")
        ELSE Psem(t, s, "readAvail", "getwait", "get")
    BY <1>0 DEF Get
  <1>6. /\ w \in [Thread -> Where] /\ w[t] = "getwait"
        /\ [w EXCEPT ![t] = "user"] = [pc EXCEPT ![t] = "user"]
        /\ [w EXCEPT ![t] = "getwait"] = w
    BY <1>2 DEF Where
  <1> HIDE DEF n
  <1>7. /\ s \in Machine /\ ~s.failed /\ PendingSound(s.pending)
        /\ OnTime(s.pending, Sources)
    BY <1>2, <1>4 DEF Sound
  <1>8. /\ "getwait" \notin OutputLabels \cup DiskLabels /\ "getwait" \in Where
        /\ "user" \notin OutputLabels \cup DiskLabels /\ "user" \in Where
    BY DEF OutputLabels, DiskLabels, Where
  <1>9. CASE n = 0
    <2> DEFINE u == Vsem(s, "read")
               v == s.sem["read"].value
    <2>1. TickTo(t, u, SystemTick, "user")
      BY <1>5, <1>9 DEF EndCall
    <2>2. Proceeds(u) /\ pc' = [pc EXCEPT ![t] = "user"]
      BY <2>1 DEF TickTo, Ticked, Proceeds
    <2>3. "read" \in SemName
      BY DEF SemName
    <2>4. Semaphored(s, u, "read", v + 1)
      BY <1>7, <2>3, VsemEffect
    <2> HIDE DEF u, w
    <2>5. /\ u \in Machine /\ ~u.failed /\ PendingSound(u.pending)
          /\ OnTime(u.pending, Sources)
      BY <1>7, <2>4 DEF Semaphored
    <2>6. SameOutput(s, u) /\ SameDisk(s, u)
      BY <1>7, <2>3, <2>4, SemaphoredSame
    <2>7. InputSound(u, [w EXCEPT ![t] = "user"])
      <3>1. ReadSound(v, s.sem["readAvail"].value, s.incoming, s.keyboard, s.taken, w)
        BY <1>4 DEF Sound, InputSound
      <3>2. ReadSound(v + 1, s.sem["readAvail"].value, s.incoming, s.keyboard, s.taken,
                      [w EXCEPT ![t] = "user"])
        <4> HIDE DEF v
        <4> QED BY <1>6, <3>1, ReadLeave
      <3>3. /\ u.sem["read"].value = v + 1 /\ u.sem["readAvail"] = s.sem["readAvail"]
            /\ u.incoming = s.incoming /\ u.keyboard = s.keyboard /\ u.taken = s.taken
        BY <2>4 DEF Semaphored, SemName
      <3> QED BY <3>2, <3>3 DEF InputSound
    <2>8. Sound(u, [w EXCEPT ![t] = "user"], [left EXCEPT ![t] = n])
      <3>1. /\ "user" \notin {"write", "putwait", "read", "getwait", "get"}
            /\ w[t] \notin OutputLabels \cup DiskLabels /\ n \in 0 .. 2
        BY <1>3, <1>6, <1>8
      <3> QED BY <1>4, <1>8, <2>5, <2>6, <2>7, <3>1, InputMoves
    <2>9. Sound(u, pc', left')
      BY <1>3, <1>6, <2>2, <2>8, Zenon
    <2> QED BY <2>2, <2>5, <2>9, ProceedSound
  <1>10. CASE n # 0
    <2> DEFINE u == AfterP(s, "readAvail")
    <2>1. "readAvail" \in SemName /\ n > 0
      BY <1>3, <1>10 DEF SemName
    <2>2. Proceeds(u) /\ Semaphored(s, u, "readAvail", 0) /\ pc' = w
      <3>1. Psem(t, s, "readAvail", "getwait", "get")
        BY <1>5, <1>10
      <3>2. Semaphored(s, u, "readAvail", 0) /\ ~TryP(s.k, s.sem["readAvail"]).through
        BY <1>4, <1>7, <2>1, TryPEffect
      <3>3. m' = u /\ pc' = w
        BY <3>1, <3>2 DEF Psem, AfterP
      <3>4. u.loop = "none"
        BY <1>4, <3>2 DEF Semaphored
      <3> QED BY <3>2, <3>3, <3>4 DEF Proceeds
    <2>3. Sound(u, w, left)
      BY <1>4, <2>1, <2>2, BlockedSound
    <2> HIDE DEF u, w
    <2>4. /\ u \in Machine /\ ~u.failed /\ PendingSound(u.pending)
          /\ OnTime(u.pending, Sources) /\ InputSound(u, w)
      BY <1>7, <2>2, <2>3 DEF Semaphored, Sound
    <2>5. SameOutput(u, u) /\ SameDisk(u, u) /\ InputSound(u, [w EXCEPT ![t] = "getwait"])
      BY <1>6, <2>4 DEF SameOutput, SameDisk
    <2>6. Sound(u, [w EXCEPT ![t] = "getwait"], [left EXCEPT ![t] = n])
      <3>1. w[t] \notin OutputLabels \cup DiskLabels /\ n \in 0 .. 2
        BY <1>3, <1>6, <1>8
      <3> QED BY <1>8, <2>1, <2>3, <2>4, <2>5, <3>1, InputMoves
    <2>7. Sound(u, pc', left')
      BY <1>3, <1>6, <2>2, <2>6, Zenon
    <2> QED BY <2>2, <2>4, <2>7, ProceedSound
  <1> QED BY <1>9, <1>10

\* Only the kernel and the lock of SynchDisk are different in u.
Locked(s, u, lk) ==
    /\ u \in Machine /\ u.lock = lk /\ u.pending = s.pending /\ u.loop = s.loop
    /\ u.failed = s.failed /\ u.sem = s.sem /\ u.active = s.active
    /\ SameOutput(s, u) /\ SameInput(s, u)
    /\ lk.owner = s.lock.owner => SameDisk(s, u)

LEMMA LockUpdate ==
    ASSUME NEW s \in Machine, NEW kk \in QuietKernel, NEW lk \in Lock
    PROVE  Locked(s, [s EXCEPT !.k = kk, !.lock = lk], lk)
  <1> DEFINE u == [s EXCEPT !.k = kk, !.lock = lk]
  <1>1. /\ u \in Machine /\ u.pending = s.pending /\ u.loop = s.loop
        /\ u.failed = s.failed /\ u.sem = s.sem /\ u.putBusy = s.putBusy
        /\ u.incoming = s.incoming /\ u.keyboard = s.keyboard /\ u.screen = s.screen
        /\ u.taken = s.taken /\ u.active = s.active /\ u.lock = lk
    BY DEF Machine
  <1> HIDE DEF u
  <1>2. Locked(s, u, lk)
    BY <1>1 DEF Locked, SameOutput, SameInput, SameDisk
  <1> QED BY <1>2 DEF u

LEMMA AcquireEffect ==
    ASSUME NEW k \in QuietKernel, NEW lock \in Lock
    PROVE  LET r == TryAcquire(k, lock)
           IN  /\ r.k \in QuietKernel /\ r.lock \in Lock
               /\ r.through <=> lock.owner = NoThread
               /\ r.lock.owner = IF r.through THEN k.currentThread ELSE lock.owner
  <1> DEFINE r == TryAcquire(k, lock)
  <1>1. /\ lock.owner \in Thread \cup {NoThread} /\ lock.queue \in Seq(Thread)
        /\ lock = [owner |-> lock.owner, queue |-> lock.queue]
        /\ k.currentThread \in Thread
    BY DEF Lock, QuietKernel, Kernel
  <1>2. CASE lock.owner = NoThread
    <2>1. /\ r.through = TRUE /\ r.k = k
          /\ r.lock = [owner |-> k.currentThread, queue |-> lock.queue]
      BY <1>1, <1>2 DEF TryAcquire
    <2> HIDE DEF r
    <2>2. r.k \in QuietKernel /\ r.lock \in Lock /\ r.lock.owner = k.currentThread
      BY <1>1, <2>1 DEF Lock
    <2> QED BY <1>2, <2>1, <2>2 DEF r
  <1>3. CASE lock.owner # NoThread
    <2>1. /\ r.through = FALSE /\ r.k = Sleep(k, "BLOCKED")
          /\ r.lock = [owner |-> lock.owner, queue |-> Append(lock.queue, k.currentThread)]
      BY <1>1, <1>3 DEF TryAcquire
    <2> HIDE DEF r
    <2>2. Append(lock.queue, k.currentThread) \in Seq(Thread)
      BY <1>1
    <2>3. r.lock \in Lock /\ r.lock.owner = lock.owner
      BY <1>1, <2>1, <2>2 DEF Lock
    <2>4. r.k \in QuietKernel
      BY <2>1, SleepQuiet
    <2> QED BY <1>3, <2>1, <2>3, <2>4 DEF r
  <1> QED BY <1>2, <1>3

LEMMA ReleaseEffect ==
    ASSUME NEW k \in QuietKernel, NEW lock \in Lock
    PROVE  Release(k, lock).k \in QuietKernel /\ Release(k, lock).lock \in Lock
  <1> DEFINE r == Release(k, lock)
  <1>1. /\ lock.owner \in Thread \cup {NoThread} /\ lock.queue \in Seq(Thread)
        /\ lock = [owner |-> lock.owner, queue |-> lock.queue]
    BY DEF Lock
  <1>2. CASE lock.queue = <<>>
    <2>1. r.k = k /\ r.lock = [owner |-> NoThread, queue |-> lock.queue]
      BY <1>1, <1>2 DEF Release
    <2> QED BY <1>1, <2>1 DEF Lock
  <1>3. CASE lock.queue # <<>>
    <2>1. Head(lock.queue) \in Thread /\ Tail(lock.queue) \in Seq(Thread)
      BY <1>1, <1>3, HeadTailProperties
    <2>2. /\ r.k = ReadyToRun(k, Head(lock.queue))
          /\ r.lock = [owner |-> Head(lock.queue), queue |-> Tail(lock.queue)]
      BY <1>1, <1>3 DEF Release
    <2>3. r.k \in QuietKernel
      BY <2>1, <2>2, ReadyQuiet
    <2> QED BY <2>1, <2>2, <2>3 DEF Lock
  <1> QED BY <1>2, <1>3

LEMMA SectorCallStep ==
    ASSUME IInv, NEW t \in Thread, SectorCall(t)
    PROVE  IInv'
  <1>0. PICK r : r = TryAcquire(m.k, m.lock)
    OBVIOUS
  <1>1. PICK u : u = [m EXCEPT !.k = r.k, !.lock = r.lock]
    OBVIOUS
  <1>2. /\ Running(t) /\ pc[t] \in {"user", "acquire"} /\ m.k.currentThread = t
        /\ left' = left \/ left' = [left EXCEPT ![t] = 0]
        /\ IF r.through THEN TickTo(t, u, SystemTick, "request")
           ELSE m' = u /\ pc' = [pc EXCEPT ![t] = "acquire"]
    BY <1>0, <1>1 DEF SectorCall, BeginCall, At, Running, Executing
  <1>3. /\ Sound(m, pc, left) /\ m \in Machine /\ ~m.failed /\ m.loop = "none"
        /\ OnTime(m.pending, Sources) /\ PendingSound(m.pending)
        /\ pc \in [Thread -> Where] /\ left \in [Thread -> 0 .. 2]
        /\ m.k \in QuietKernel /\ m.lock \in Lock
    BY <1>2, RunningFacts, MachineFields
  <1>4. /\ r.k \in QuietKernel /\ r.lock \in Lock
        /\ r.through <=> m.lock.owner = NoThread
        /\ r.lock.owner = IF r.through THEN t ELSE m.lock.owner
    BY <1>0, <1>2, <1>3, AcquireEffect
  <1>5. /\ u \in Machine /\ u.lock = r.lock /\ u.pending = m.pending /\ u.loop = m.loop
        /\ u.failed = m.failed /\ u.sem = m.sem /\ u.active = m.active
        /\ SameOutput(m, u) /\ SameInput(m, u)
        /\ r.lock.owner = m.lock.owner => SameDisk(m, u)
    <2>1. Locked(m, [m EXCEPT !.k = r.k, !.lock = r.lock], r.lock)
      BY <1>3, <1>4, LockUpdate
    <2>2. Locked(m, u, r.lock)
      BY <1>1, <2>1
    <2> QED BY <2>2 DEF Locked
  <1>6. PICK n \in 0 .. 2 : left' = [left EXCEPT ![t] = n]
    <2>1. left = [left EXCEPT ![t] = left[t]] /\ left[t] \in 0 .. 2 /\ 0 \in 0 .. 2
      BY <1>3
    <2> QED BY <1>2, <2>1
  <1>7. /\ pc[t] \notin OutputLabels \cup InputLabels \cup DiskLabels
        /\ "acquire" \notin OutputLabels \cup InputLabels \cup DiskLabels
        /\ "request" \notin OutputLabels \cup InputLabels
        /\ "acquire" \in Where /\ "request" \in Where
        /\ "acquire" \notin {"write", "putwait", "read", "getwait", "get"}
        /\ "request" \notin {"write", "putwait", "read", "getwait", "get"}
    BY <1>2 DEF OutputLabels, InputLabels, DiskLabels, Where
  <1>8. ~u.failed /\ PendingSound(u.pending) /\ OnTime(u.pending, Sources) /\ u.loop = "none"
    BY <1>3, <1>5
  <1>9. CASE ~r.through
    <2>1. m' = u /\ pc' = [pc EXCEPT ![t] = "acquire"]
      BY <1>2, <1>9
    <2>2. Proceeds(u)
      BY <1>8, <2>1 DEF Proceeds
    <2>3. SameDisk(m, u)
      BY <1>4, <1>5, <1>9
    <2>4. Sound(u, pc, left)
      BY <1>3, <1>5, <1>8, <2>3, SameSound
    <2>5. Sound(u, [pc EXCEPT ![t] = "acquire"], [left EXCEPT ![t] = n])
      BY <1>7, <2>4, AsideSound
    <2>6. Sound(u, pc', left')
      BY <1>6, <2>1, <2>5, Zenon
    <2> QED BY <1>8, <2>2, <2>6, ProceedSound
  <1>10. CASE r.through
    <2>1. TickTo(t, u, SystemTick, "request")
      BY <1>2, <1>10
    <2>2. Proceeds(u) /\ pc' = [pc EXCEPT ![t] = "request"]
      BY <2>1 DEF TickTo, Ticked, Proceeds
    <2>3. m.lock.owner = NoThread /\ u.lock.owner = t
      BY <1>4, <1>5, <1>10
    <2>4. SectorsSound(u, [pc EXCEPT ![t] = "request"])
      <3>1. DiskSound(m.sem["disk"].value, m.active, NoThread,
                      Requests(m.pending, "DiskInt"), pc)
        BY <1>3, <2>3 DEF Sound, SectorsSound
      <3>2. DiskSound(m.sem["disk"].value, m.active, t, Requests(m.pending, "DiskInt"),
                      [pc EXCEPT ![t] = "request"])
        BY <1>3, <3>1, DiskEnter
      <3> QED BY <1>5, <2>3, <3>2 DEF SectorsSound
    <2>5. Sound(u, [pc EXCEPT ![t] = "request"], [left EXCEPT ![t] = n])
      BY <1>3, <1>5, <1>7, <1>8, <2>4, DiskMoves
    <2>6. Sound(u, pc', left')
      BY <1>6, <2>2, <2>5, Zenon
    <2> QED BY <1>8, <2>2, <2>6, ProceedSound
  <1> QED BY <1>9, <1>10

LEMMA DiskReleaseStep ==
    ASSUME IInv, NEW t \in Thread, DiskRelease(t)
    PROVE  IInv'
  <1>0. PICK r : r = Release(m.k, m.lock)
    OBVIOUS
  <1>1. PICK u : u = [m EXCEPT !.k = r.k, !.lock = r.lock]
    OBVIOUS
  <1>2. /\ Running(t) /\ pc[t] = "release" /\ left' = left
        /\ TickTo(t, u, SystemTick, "user")
    BY <1>0, <1>1 DEF DiskRelease, At
  <1>3. /\ Sound(m, pc, left) /\ m \in Machine /\ ~m.failed /\ m.loop = "none"
        /\ OnTime(m.pending, Sources) /\ PendingSound(m.pending)
        /\ pc \in [Thread -> Where] /\ left \in [Thread -> 0 .. 2]
        /\ m.k \in QuietKernel /\ m.lock \in Lock
    BY <1>2, RunningFacts, MachineFields
  <1>4. r.k \in QuietKernel /\ r.lock \in Lock
    BY <1>0, <1>3, ReleaseEffect
  <1>5. /\ u \in Machine /\ u.lock = r.lock /\ u.pending = m.pending /\ u.loop = m.loop
        /\ u.failed = m.failed /\ u.sem = m.sem /\ u.active = m.active
        /\ SameOutput(m, u) /\ SameInput(m, u)
    <2>1. Locked(m, [m EXCEPT !.k = r.k, !.lock = r.lock], r.lock)
      BY <1>3, <1>4, LockUpdate
    <2>2. Locked(m, u, r.lock)
      BY <1>1, <2>1
    <2> QED BY <2>2 DEF Locked
  <1>6. Proceeds(u) /\ pc' = [pc EXCEPT ![t] = "user"]
    BY <1>2 DEF TickTo, Ticked, Proceeds
  <1>7. /\ pc[t] \notin OutputLabels \cup InputLabels
        /\ "user" \notin OutputLabels \cup InputLabels /\ "user" \in Where
        /\ "user" \notin {"write", "putwait", "read", "getwait", "get"}
    BY <1>2 DEF OutputLabels, InputLabels, Where
  <1>8. ~u.failed /\ PendingSound(u.pending) /\ OnTime(u.pending, Sources)
    BY <1>3, <1>5
  <1>9. SectorsSound(u, [pc EXCEPT ![t] = "user"])
    <2>1. DiskSound(m.sem["disk"].value, m.active, m.lock.owner,
                    Requests(m.pending, "DiskInt"), pc)
      BY <1>3 DEF Sound, SectorsSound
    <2>2. DiskSound(m.sem["disk"].value, m.active, u.lock.owner,
                    Requests(m.pending, "DiskInt"), [pc EXCEPT ![t] = "user"])
      BY <1>2, <1>3, <2>1, DiskLeave
    <2> QED BY <1>5, <2>2 DEF SectorsSound
  <1>10. left = [left EXCEPT ![t] = left[t]] /\ left[t] \in 0 .. 2
    BY <1>3
  <1>11. Sound(u, [pc EXCEPT ![t] = "user"], [left EXCEPT ![t] = left[t]])
    BY <1>3, <1>5, <1>7, <1>8, <1>9, <1>10, DiskMoves
  <1>12. Sound(u, pc', left')
    BY <1>2, <1>6, <1>10, <1>11, Zenon
  <1> QED BY <1>6, <1>8, <1>12, ProceedSound

LEMMA DiskWaitStep ==
    ASSUME IInv, NEW t \in Thread, DiskWait(t)
    PROVE  IInv'
  <1> DEFINE u == AfterP(m, "disk")
             v == m.sem["disk"].value
  <1>1. Running(t) /\ pc[t] = "diskwait" /\ left' = left
    BY DEF DiskWait, At
  <1>2. /\ Sound(m, pc, left) /\ m \in Machine /\ ~m.failed /\ m.loop = "none"
        /\ OnTime(m.pending, Sources) /\ PendingSound(m.pending)
        /\ pc \in [Thread -> Where] /\ left \in [Thread -> 0 .. 2]
    BY <1>1, RunningFacts
  <1>3. "disk" \in SemName /\ Psem(t, m, "disk", "diskwait", "release")
    BY DEF SemName, DiskWait
  <1>4. /\ v \in Nat /\ Proceeds(u)
        /\ v = 0 =>
              Semaphored(m, u, "disk", 0) /\ pc' = [pc EXCEPT ![t] = "diskwait"]
        /\ v # 0 =>
              Semaphored(m, u, "disk", v - 1) /\ pc' = [pc EXCEPT ![t] = "release"]
    BY <1>2, <1>3, PsemCases
  <1>5. left[t] \in 0 .. 2 /\ left' = [left EXCEPT ![t] = left[t]]
    BY <1>1, <1>2
  <1>6. CASE v = 0
    <2>1. pc' = pc
      BY <1>1, <1>2, <1>4, <1>6
    <2>2. Sound(u, pc, left)
      BY <1>2, <1>3, <1>4, <1>6, BlockedSound
    <2> HIDE DEF u
    <2>3. Sound(u, pc', left')
      BY <1>1, <2>1, <2>2
    <2>4. OnTime(u.pending, Sources)
      BY <1>2, <1>4, <1>6 DEF Semaphored
    <2> QED BY <1>4, <2>3, <2>4, ProceedSound
  <1>7. CASE v # 0
    <2>1. Semaphored(m, u, "disk", v - 1) /\ pc' = [pc EXCEPT ![t] = "release"]
      BY <1>4, <1>7
    <2> HIDE DEF u
    <2>2. /\ u \in Machine /\ ~u.failed /\ PendingSound(u.pending)
          /\ OnTime(u.pending, Sources)
      BY <1>2, <2>1 DEF Semaphored
    <2>3. SameOutput(m, u) /\ SameInput(m, u)
      BY <1>2, <1>3, <2>1, SemaphoredSame
    <2>4. SectorsSound(u, pc')
      <3>1. DiskSound(v, m.active, m.lock.owner, Requests(m.pending, "DiskInt"), pc)
        BY <1>2 DEF Sound, SectorsSound
      <3>2. DiskSound(v - 1, m.active, m.lock.owner, Requests(m.pending, "DiskInt"), pc')
        <4> HIDE DEF v
        <4> QED BY <1>1, <1>2, <1>7, <2>1, <3>1, DiskThrough
      <3>3. /\ u.sem["disk"].value = v - 1 /\ u.active = m.active /\ u.lock = m.lock
            /\ u.pending = m.pending
        BY <2>1 DEF Semaphored
      <3> QED BY <3>2, <3>3 DEF SectorsSound
    <2>5. /\ pc[t] \notin OutputLabels \cup InputLabels
          /\ "release" \notin OutputLabels \cup InputLabels /\ "release" \in Where
          /\ "release" \notin {"write", "putwait", "read", "getwait", "get"}
      BY <1>1 DEF OutputLabels, InputLabels, Where
    <2>6. Sound(u, pc', left')
      BY <1>2, <1>5, <2>1, <2>2, <2>3, <2>4, <2>5, DiskMoves
    <2> QED BY <1>4, <2>2, <2>6, ProceedSound
  <1> QED BY <1>6, <1>7

\* The request to the disk.
SectorRequest(latency) ==
    Schedule([m EXCEPT !.failed = @ \/ m.active, !.active = TRUE], "DiskInt", 0, latency)

LEMMA SectorRequestSound ==
    ASSUME Sound(m, pc, left), OnTime(m.pending, Sources), NEW t \in Thread,
           pc[t] = "request", NEW latency \in DiskLatencies
    PROVE  /\ Sound(SectorRequest(latency), [pc EXCEPT ![t] = "diskwait"], left)
           /\ OnTime(SectorRequest(latency).pending, Sources)
  <1> DEFINE s == [m EXCEPT !.failed = @ \/ m.active, !.active = TRUE]
             u == SectorRequest(latency)
             x == [pc EXCEPT ![t] = "diskwait"]
  <1>1. /\ m \in Machine /\ ~m.failed /\ PendingSound(m.pending)
        /\ pc \in [Thread -> Where] /\ left \in [Thread -> 0 .. 2]
        /\ m.active \in BOOLEAN
    BY MachineFields DEF Sound, LeftSound
  <1>2. /\ Requests(m.pending, "DiskInt") = {} /\ m.active = FALSE
        /\ DiskSound(m.sem["disk"].value, TRUE, m.lock.owner, {0}, x)
    <2>1. DiskSound(m.sem["disk"].value, m.active, m.lock.owner,
                    Requests(m.pending, "DiskInt"), pc)
      BY DEF Sound, SectorsSound
    <2> DEFINE b == m.active
               o == m.lock.owner
               r == Requests(m.pending, "DiskInt")
               d == m.sem["disk"].value
    <2>2. b \in BOOLEAN /\ DiskSound(d, b, o, r, pc)
      BY <1>1, <2>1
    <2> HIDE DEF b, o, r, d, x
    <2>3. r = {} /\ b = FALSE /\ DiskSound(d, TRUE, o, {0}, [pc EXCEPT ![t] = "diskwait"])
      BY <1>1, <2>2, DiskAsk, Zenon
    <2> QED BY <2>3, Zenon DEF b, o, r, d, x
  <1> HIDE DEF x
  <1>4. /\ s \in Machine /\ s.failed = FALSE /\ s.active = TRUE /\ s.sem = m.sem
        /\ s.pending = m.pending /\ s.incoming = m.incoming /\ s.keyboard = m.keyboard
        /\ s.screen = m.screen /\ s.taken = m.taken /\ s.putBusy = m.putBusy
        /\ s.lock = m.lock
    BY <1>1, <1>2 DEF Machine
  <1> HIDE DEF s
  <1>5. latency \in Int /\ latency > 0
    BY TimeAssumption
  <1>6. OneEach(s.pending) /\ InOrder(s.pending) /\ Requests(s.pending, "DiskInt") = {}
    BY <1>1, <1>2, <1>4 DEF PendingSound
  <1>7. "DiskInt" \in IntType
    BY DEF IntType
  <1>8. Rescheduled(s, Schedule(s, "DiskInt", 0, latency), "DiskInt", 0)
    BY <1>4, <1>5, <1>6, <1>7, MachineScheduled
  <1>9. Rescheduled(s, u, "DiskInt", 0)
    BY <1>8 DEF SectorRequest, s
  <1> HIDE DEF u
  <1>10. /\ u \in Machine /\ ~u.failed /\ u.putBusy = m.putBusy /\ u.sem = m.sem
         /\ u.incoming = m.incoming /\ u.keyboard = m.keyboard
         /\ u.screen = m.screen /\ u.taken = m.taken /\ u.active = TRUE
         /\ u.lock = m.lock /\ Scheduled(m.pending, u.pending, "DiskInt", 0)
    BY <1>4, <1>9 DEF Rescheduled
  <1>11. PendingSound(u.pending)
    BY <1>1, <1>10, ScheduledPending
  <1>12. /\ Requests(u.pending, "DiskInt") = {0}
         /\ Requests(u.pending, "ConsoleWriteInt") = Requests(m.pending, "ConsoleWriteInt")
         /\ OnTime(u.pending, Sources)
    BY <1>10 DEF Scheduled
  <1>13. SameOutput(m, u) /\ SameInput(m, u)
    BY <1>10, <1>12 DEF SameOutput, SameInput
  <1>14. SectorsSound(u, [pc EXCEPT ![t] = "diskwait"])
    BY <1>2, <1>10, <1>12 DEF SectorsSound, x
  <1>15. left = [left EXCEPT ![t] = left[t]] /\ left[t] \in 0 .. 2
    BY <1>1
  <1>16. /\ pc[t] \notin OutputLabels \cup InputLabels
         /\ "diskwait" \notin OutputLabels \cup InputLabels /\ "diskwait" \in Where
         /\ "diskwait" \notin {"write", "putwait", "read", "getwait", "get"}
    BY DEF OutputLabels, InputLabels, Where
  <1>17. Sound(u, [pc EXCEPT ![t] = "diskwait"], [left EXCEPT ![t] = left[t]])
    BY <1>10, <1>11, <1>13, <1>14, <1>15, <1>16, DiskMoves
  <1> QED BY <1>12, <1>15, <1>17 DEF u

LEMMA DiskRequestStep ==
    ASSUME IInv, NEW t \in Thread, DiskRequest(t)
    PROVE  IInv'
  <1>1. Running(t) /\ pc[t] = "request" /\ left' = left
    BY DEF DiskRequest, At
  <1>2. PICK latency \in DiskLatencies :
           TickTo(t, SectorRequest(latency), SystemTick, "diskwait")
    BY DEF DiskRequest, SectorRequest
  <1> DEFINE u == SectorRequest(latency)
  <1>3. Sound(m, pc, left) /\ OnTime(m.pending, Sources)
    BY <1>1, RunningFacts
  <1>4. Proceeds(u) /\ pc' = [pc EXCEPT ![t] = "diskwait"]
    BY <1>2 DEF TickTo, Ticked, Proceeds
  <1>5. Sound(u, [pc EXCEPT ![t] = "diskwait"], left) /\ OnTime(u.pending, Sources)
    BY <1>1, <1>3, SectorRequestSound
  <1> HIDE DEF u
  <1>6. Sound(u, pc', left')
    BY <1>1, <1>4, <1>5
  <1> QED BY <1>4, <1>5, <1>6, ProceedSound

-----------------------------------------------------------------------------
(* The handlers of interrupts *)

\* u is s once the interrupt at the head has been taken off the list.
Popped(s, u) ==
    /\ u \in Machine /\ Taken(s.pending, u.pending)
    /\ u.k = s.k /\ u.inYield = s.inYield /\ u.sem = s.sem
    /\ u.yieldOnReturn = s.yieldOnReturn /\ u.loop = s.loop
    /\ u.putBusy = s.putBusy /\ u.incoming = s.incoming /\ u.keyboard = s.keyboard
    /\ u.screen = s.screen /\ u.taken = s.taken /\ u.active = s.active
    /\ u.lock = s.lock /\ u.failed = s.failed

LEMMA PopEffect ==
    ASSUME NEW s, NEW w, NEW l, Sound(s, w, l)
    PROVE  s.pending # <<>> /\ Popped(s, [s EXCEPT !.pending = Tail(@)])
  <1> DEFINE q == Tail(s.pending)
             u == [s EXCEPT !.pending = q]
  <1>1. /\ s \in Machine /\ s.pending \in Seq(Event)
        /\ OneEach(s.pending) /\ InOrder(s.pending) /\ Requests(s.pending, "TimerInt") # {}
    BY MachineFields DEF Sound, PendingSound
  <1>2. s.pending # <<>>
    BY <1>1 DEF Requests
  <1>3. Taken(s.pending, q)
    BY <1>1, <1>2, TailEffect
  <1>4. q \in Seq(Event)
    BY <1>3 DEF Taken
  <1> HIDE DEF q
  <1>5. /\ u \in Machine /\ u.pending = q
        /\ u.k = s.k /\ u.inYield = s.inYield /\ u.sem = s.sem
        /\ u.yieldOnReturn = s.yieldOnReturn /\ u.loop = s.loop
        /\ u.putBusy = s.putBusy /\ u.incoming = s.incoming /\ u.keyboard = s.keyboard
        /\ u.screen = s.screen /\ u.taken = s.taken /\ u.active = s.active
        /\ u.lock = s.lock /\ u.failed = s.failed
    BY <1>1, <1>4 DEF Machine
  <1> HIDE DEF u
  <1>6. Popped(s, u)
    BY <1>3, <1>5 DEF Popped
  <1> QED BY <1>2, <1>6 DEF u, q

\* What a handler has to achieve, from a state s with its interrupt still pending.
Handled(s, u, w, l) ==
    /\ Sound(u, w, l) /\ u.loop = s.loop
    /\ OnTime(s.pending, Sources + 1) => OnTime(u.pending, Sources)

\* A handler that only schedules the next interrupt of its type.
LEMMA PollSound ==
    ASSUME NEW s, NEW rest, NEW w, NEW l, Sound(s, w, l), Popped(s, rest),
           NEW type \in {"TimerInt", "ConsoleReadInt"}, Head(s.pending).type = type,
           NEW delay \in Int, delay > 0
    PROVE  Handled(s, Schedule(rest, type, 0, delay), w, l)
  <1> DEFINE u == Schedule(rest, type, 0, delay)
             p == s.pending
             q == rest.pending
  <1>1. /\ s \in Machine /\ ~s.failed /\ OneEach(p) /\ InOrder(p)
        /\ Requests(p, "TimerInt") # {} /\ Requests(p, "ConsoleReadInt") # {}
    BY DEF Sound, PendingSound
  <1>2. /\ rest \in Machine /\ OneEach(q) /\ InOrder(q) /\ Requests(q, type) = {}
        /\ \A x : x # type => Requests(q, x) = Requests(p, x)
        /\ OnTime(p, Sources + 1) => OnTime(q, Sources)
    BY DEF Popped, Taken
  <1>3. type \in IntType /\ type # "ConsoleWriteInt"
    BY DEF IntType
  <1>4. Rescheduled(rest, u, type, 0)
    BY <1>2, <1>3, MachineScheduled
  <1> HIDE DEF u
  <1>5. /\ u \in Machine /\ u.failed = s.failed /\ u.loop = s.loop /\ u.sem = s.sem
        /\ u.putBusy = s.putBusy /\ u.incoming = s.incoming /\ u.keyboard = s.keyboard
        /\ u.screen = s.screen /\ u.taken = s.taken /\ u.active = s.active
        /\ u.lock = s.lock /\ Scheduled(q, u.pending, type, 0)
    BY <1>4 DEF Rescheduled, Popped
  <1>6. PendingSound(u.pending)
    <2>1. CASE type = "TimerInt"
      <3>1. Requests(q, "ConsoleReadInt") # {}
        BY <1>1, <1>2, <2>1
      <3> QED BY <1>5, <2>1, <3>1, ScheduledPending
    <2>2. CASE type = "ConsoleReadInt"
      <3>1. Requests(q, "TimerInt") # {}
        BY <1>1, <1>2, <2>2
      <3> QED BY <1>5, <2>2, <3>1, ScheduledPending
    <2> QED BY <2>1, <2>2
  <1>7. /\ Requests(u.pending, "ConsoleWriteInt") = Requests(p, "ConsoleWriteInt")
        /\ Requests(u.pending, "DiskInt") = Requests(p, "DiskInt")
    BY <1>2, <1>5 DEF Scheduled
  <1>8. SameOutput(s, u) /\ SameInput(s, u) /\ SameDisk(s, u)
    BY <1>5, <1>7 DEF SameOutput, SameInput, SameDisk
  <1>9. Sound(u, w, l)
    BY <1>1, <1>5, <1>6, <1>8, SameSound
  <1>10. OnTime(p, Sources + 1) => OnTime(u.pending, Sources)
    BY <1>2, <1>5 DEF Scheduled
  <1> QED BY <1>5, <1>9, <1>10 DEF Handled, u

LEMMA TimerSound ==
    ASSUME NEW s, NEW rest, NEW w, NEW l, Sound(s, w, l), Popped(s, rest),
           Head(s.pending).type = "TimerInt", NEW delay \in TimerDelays
    PROVE  Handled(s, TimerExpired(rest, delay), w, l)
  <1> DEFINE v == Schedule(rest, "TimerInt", 0, delay)
             u == TimerExpired(rest, delay)
  <1>1. delay \in Int /\ delay > 0
    BY TimeAssumption
  <1>2. Handled(s, v, w, l)
    BY <1>1, PollSound
  <1>3. u = [v EXCEPT !.yieldOnReturn = TRUE]
    BY DEF TimerExpired, SchedTimerInterruptHandler
  <1> HIDE DEF u, v
  <1>4. v \in Machine /\ Sound(v, w, l) /\ v.loop = s.loop
    BY <1>2 DEF Handled, Sound
  <1>5. /\ u \in Machine /\ u.failed = v.failed /\ u.loop = v.loop /\ u.sem = v.sem
        /\ u.putBusy = v.putBusy /\ u.incoming = v.incoming /\ u.keyboard = v.keyboard
        /\ u.screen = v.screen /\ u.taken = v.taken /\ u.active = v.active
        /\ u.lock = v.lock /\ u.pending = v.pending
    BY <1>3, <1>4 DEF Machine
  <1>6. SameOutput(v, u) /\ SameInput(v, u) /\ SameDisk(v, u)
    BY <1>5 DEF SameOutput, SameInput, SameDisk
  <1>7. ~u.failed /\ PendingSound(u.pending)
    BY <1>4, <1>5 DEF Sound
  <1>8. Sound(u, w, l)
    BY <1>4, <1>5, <1>6, <1>7, SameSound
  <1> QED BY <1>2, <1>5, <1>8 DEF Handled, u

LEMMA CheckCharSound ==
    ASSUME NEW s, NEW rest, NEW w, NEW l, Sound(s, w, l), Popped(s, rest),
           Head(s.pending).type = "ConsoleReadInt"
    PROVE  Handled(s, CheckCharAvail(rest), w, l)
  <1> DEFINE v == Schedule(rest, "ConsoleReadInt", 0, ConsoleTime)
             u == CheckCharAvail(rest)
             a == [v EXCEPT !.incoming = Head(rest.keyboard), !.keyboard = Tail(@)]
  <1>1. ConsoleTime \in Int /\ ConsoleTime > 0
    BY TimeAssumption
  <1>2. Handled(s, v, w, l)
    BY <1>1, PollSound
  <1>3. CASE rest.incoming # FLAG_EOF \/ rest.keyboard = <<>>
    BY <1>2, <1>3 DEF CheckCharAvail
  <1>4. CASE rest.incoming = FLAG_EOF /\ rest.keyboard # <<>>
    <2>1. u = Vsem(a, "readAvail")
      BY <1>4 DEF CheckCharAvail
    <2>2. v.incoming = rest.incoming /\ v.keyboard = rest.keyboard
      BY DEF Schedule, Popped, Machine
    <2> HIDE DEF u, v
    <2>3. /\ v \in Machine /\ Sound(v, w, l) /\ v.loop = s.loop /\ ~v.failed
          /\ PendingSound(v.pending) /\ LeftSound(w, l)
      BY <1>2 DEF Handled, Sound
    <2>4. /\ v.incoming = FLAG_EOF /\ v.keyboard \in Seq(Typed) /\ v.keyboard # <<>>
          /\ v.taken \in Seq(Typed)
      BY <1>4, <2>2, <2>3, MachineFields
    <2>5. Head(v.keyboard) \in Typed \cup {FLAG_EOF} /\ Tail(v.keyboard) \in Seq(Typed)
      BY <2>4, HeadTailProperties
    <2>6. a = [v EXCEPT !.incoming = Head(v.keyboard), !.keyboard = Tail(v.keyboard)]
      BY <2>2, <2>3 DEF Machine
    <2>7. /\ a \in Machine /\ a.incoming = Head(v.keyboard) /\ a.keyboard = Tail(v.keyboard)
          /\ a.failed = v.failed /\ a.loop = v.loop /\ a.sem = v.sem
          /\ a.putBusy = v.putBusy /\ a.screen = v.screen /\ a.taken = v.taken
          /\ a.active = v.active /\ a.lock = v.lock /\ a.pending = v.pending
      BY <2>3, <2>5, <2>6 DEF Machine
    <2> HIDE DEF a
    <2>8. "readAvail" \in SemName
      BY DEF SemName
    <2>9. Semaphored(a, u, "readAvail", v.sem["readAvail"].value + 1)
      BY <2>1, <2>7, <2>8, VsemEffect
    <2>10. SameOutput(a, u) /\ SameDisk(a, u)
      BY <2>7, <2>8, <2>9, SemaphoredSame
    <2>11. OutputSound(u, w, l) /\ SectorsSound(u, w)
      <3>1. OutputSound(v, w, l) /\ SectorsSound(v, w)
        BY <2>3 DEF Sound
      <3>2. SameOutput(v, u) /\ SameDisk(v, u)
        BY <2>7, <2>10 DEF SameOutput, SameDisk
      <3> QED BY <3>1, <3>2 DEF OutputSound, SameOutput, SectorsSound, SameDisk
    <2>12. InputSound(u, w)
      <3>1. ReadSound(v.sem["read"].value, v.sem["readAvail"].value, FLAG_EOF,
                      v.keyboard, v.taken, w)
        BY <2>3, <2>4 DEF Sound, InputSound
      <3>2. ReadSound(v.sem["read"].value, v.sem["readAvail"].value + 1, Head(v.keyboard),
                      Tail(v.keyboard), v.taken, w)
        BY <2>4, <3>1, ReadArrive
      <3>3. /\ u.sem["readAvail"].value = v.sem["readAvail"].value + 1
            /\ u.sem["read"] = v.sem["read"] /\ u.incoming = Head(v.keyboard)
            /\ u.keyboard = Tail(v.keyboard) /\ u.taken = v.taken
        BY <2>7, <2>9 DEF Semaphored, SemName
      <3> QED BY <3>2, <3>3 DEF InputSound
    <2>13. /\ u \in Machine /\ ~u.failed /\ u.pending = v.pending /\ u.loop = s.loop
      BY <2>3, <2>7, <2>9 DEF Semaphored
    <2>14. Sound(u, w, l)
      BY <2>3, <2>11, <2>12, <2>13 DEF Sound
    <2> QED BY <1>2, <2>13, <2>14 DEF Handled, u
  <1> QED BY <1>3, <1>4

\* An interrupt of a device is taken off the list: the timer and the poll stay.
LEMMA PoppedPending ==
    ASSUME NEW p, NEW q, PendingSound(p), Taken(p, q),
           Head(p).type \notin {"TimerInt", "ConsoleReadInt"}
    PROVE  PendingSound(q)
  <1>1. /\ Requests(q, "TimerInt") = Requests(p, "TimerInt")
        /\ Requests(q, "ConsoleReadInt") = Requests(p, "ConsoleReadInt")
    BY DEF Taken
  <1> QED BY <1>1 DEF Taken, PendingSound

LEMMA FinishWriteSound ==
    ASSUME NEW s, NEW rest, NEW w, NEW l, Sound(s, w, l), Popped(s, rest),
           Head(s.pending).type = "ConsoleWriteInt"
    PROVE  Handled(s, ConsoleFinishWrite(rest, Head(s.pending).arg), w, l)
  <1> DEFINE c == Head(s.pending).arg
             p == s.pending
             q == rest.pending
             z == Append(s.screen, c)
             a == [rest EXCEPT !.screen = z, !.putBusy = FALSE]
             u == ConsoleFinishWrite(rest, c)
  <1>1. /\ s \in Machine /\ ~s.failed /\ PendingSound(p) /\ LeftSound(w, l)
        /\ s.screen \in Seq(Char)
    BY MachineFields DEF Sound
  <1>2. /\ rest \in Machine /\ Taken(p, q) /\ Head(p) \in Event
        /\ Requests(p, "ConsoleWriteInt") = {c} /\ Requests(q, "ConsoleWriteInt") = {}
        /\ Requests(q, "DiskInt") = Requests(p, "DiskInt")
        /\ OnTime(p, Sources + 1) => OnTime(q, Sources)
    BY DEF Popped, Taken
  <1>3. c \in Char /\ z \in Seq(Char)
    BY <1>1, <1>2 DEF Event
  <1>4. PendingSound(q)
    BY <1>1, <1>2, PoppedPending
  <1>5. u = Vsem(a, "writeDone")
    BY <1>2 DEF ConsoleFinishWrite, WriteDone, Popped, Machine
  <1> HIDE DEF u, c, z, q, p
  <1>6. /\ a \in Machine /\ a.screen = z /\ a.putBusy = FALSE /\ a.failed = s.failed
        /\ a.loop = s.loop /\ a.sem = s.sem /\ a.incoming = s.incoming
        /\ a.keyboard = s.keyboard /\ a.taken = s.taken /\ a.active = s.active
        /\ a.lock = s.lock /\ a.pending = q
    BY <1>2, <1>3 DEF Machine, Popped, q
  <1> HIDE DEF a
  <1>7. "writeDone" \in SemName
    BY DEF SemName
  <1>8. Semaphored(a, u, "writeDone", s.sem["writeDone"].value + 1)
    BY <1>5, <1>6, <1>7, VsemEffect
  <1>9. SameInput(a, u) /\ SameDisk(a, u)
    BY <1>6, <1>7, <1>8, SemaphoredSame
  <1>10. InputSound(u, w) /\ SectorsSound(u, w)
    <2>1. InputSound(s, w) /\ SectorsSound(s, w)
      BY DEF Sound
    <2>2. SameInput(s, u)
      BY <1>6, <1>9 DEF SameInput
    <2>3. SameDisk(s, u)
      BY <1>2, <1>6, <1>9 DEF SameDisk, p
    <2> QED BY <2>1, <2>2, <2>3 DEF InputSound, SameInput, SectorsSound, SameDisk
  <1>11. OutputSound(u, w, l)
    <2>1. WriteSound(s.sem["write"].value, s.sem["writeDone"].value, s.putBusy, s.screen,
                     {c}, w, l)
      BY <1>2 DEF Sound, OutputSound, p
    <2>2. WriteSound(s.sem["write"].value, s.sem["writeDone"].value + 1, FALSE, z, {}, w, l)
      <3> DEFINE v == s.sem["write"].value
                 d == s.sem["writeDone"].value
                 b == s.putBusy
                 scr == s.screen
      <3>1. WriteSound(v, d, b, scr, {c}, w, l) /\ scr \in Seq(Char) /\ c \in Char
        BY <1>1, <1>3, <2>1
      <3> HIDE DEF v, d, b, scr
      <3>2. WriteSound(v, d + 1, FALSE, Append(scr, c), {}, w, l)
        BY <3>1, WriteDoneSound, Zenon
      <3> QED BY <3>2, Zenon DEF v, d, scr, z
    <2>3. /\ u.sem["writeDone"].value = s.sem["writeDone"].value + 1
          /\ u.sem["write"] = s.sem["write"] /\ u.screen = z /\ u.putBusy = FALSE
          /\ u.pending = q
      BY <1>6, <1>8 DEF Semaphored, SemName
    <2> QED BY <1>2, <2>2, <2>3 DEF OutputSound
  <1>12. u \in Machine /\ ~u.failed /\ u.pending = q /\ u.loop = s.loop
    BY <1>1, <1>6, <1>8 DEF Semaphored
  <1>13. Sound(u, w, l)
    BY <1>1, <1>4, <1>10, <1>11, <1>12 DEF Sound
  <1> QED BY <1>2, <1>12, <1>13 DEF Handled, u, p, c

LEMMA DiskDoneSound ==
    ASSUME NEW s, NEW rest, NEW w, NEW l, Sound(s, w, l), Popped(s, rest),
           Head(s.pending).type = "DiskInt"
    PROVE  Handled(s, DiskDone(rest), w, l)
  <1> DEFINE p == s.pending
             q == rest.pending
             c == Head(s.pending).arg
             a == [rest EXCEPT !.active = FALSE]
             u == DiskDone(rest)
  <1>1. s \in Machine /\ ~s.failed /\ PendingSound(p) /\ LeftSound(w, l)
    BY DEF Sound
  <1>2. /\ rest \in Machine /\ Taken(p, q)
        /\ Requests(p, "DiskInt") = {c} /\ Requests(q, "DiskInt") = {}
        /\ Requests(q, "ConsoleWriteInt") = Requests(p, "ConsoleWriteInt")
        /\ OnTime(p, Sources + 1) => OnTime(q, Sources)
    BY DEF Popped, Taken
  <1>3. PendingSound(q)
    BY <1>1, <1>2, PoppedPending
  <1>4. u = Vsem(a, "disk")
    BY DEF DiskDone, RequestDone
  <1> HIDE DEF u, q, p, c
  <1>5. /\ a \in Machine /\ a.active = FALSE /\ a.failed = s.failed
        /\ a.loop = s.loop /\ a.sem = s.sem /\ a.incoming = s.incoming
        /\ a.keyboard = s.keyboard /\ a.taken = s.taken /\ a.putBusy = s.putBusy
        /\ a.screen = s.screen /\ a.lock = s.lock /\ a.pending = q
    BY <1>2 DEF Machine, Popped, q
  <1> HIDE DEF a
  <1>6. "disk" \in SemName
    BY DEF SemName
  <1>7. Semaphored(a, u, "disk", s.sem["disk"].value + 1)
    BY <1>4, <1>5, <1>6, VsemEffect
  <1>8. SameInput(a, u) /\ SameOutput(a, u)
    BY <1>5, <1>6, <1>7, SemaphoredSame
  <1>9. InputSound(u, w) /\ OutputSound(u, w, l)
    <2>1. InputSound(s, w) /\ OutputSound(s, w, l)
      BY DEF Sound
    <2>2. SameInput(s, u)
      BY <1>5, <1>8 DEF SameInput
    <2>3. SameOutput(s, u)
      BY <1>2, <1>5, <1>8 DEF SameOutput, p
    <2> QED BY <2>1, <2>2, <2>3 DEF InputSound, SameInput, OutputSound, SameOutput
  <1>10. SectorsSound(u, w)
    <2>1. DiskSound(s.sem["disk"].value, s.active, s.lock.owner, {c}, w)
      BY <1>2 DEF Sound, SectorsSound, p
    <2>2. DiskSound(s.sem["disk"].value + 1, FALSE, s.lock.owner, {}, w)
      <3> DEFINE d == s.sem["disk"].value
                 b == s.active
                 o == s.lock.owner
      <3>1. DiskSound(d, b, o, {c}, w)
        BY <2>1
      <3> HIDE DEF d, b, o
      <3>2. DiskSound(d + 1, FALSE, o, {}, w)
        BY <3>1, DiskAnswer, Zenon
      <3> QED BY <3>2, Zenon DEF d, o
    <2>3. /\ u.sem["disk"].value = s.sem["disk"].value + 1 /\ u.active = FALSE
          /\ u.lock = s.lock /\ u.pending = q
      BY <1>5, <1>7 DEF Semaphored
    <2> QED BY <1>2, <2>2, <2>3 DEF SectorsSound
  <1>11. u \in Machine /\ ~u.failed /\ u.pending = q /\ u.loop = s.loop
    BY <1>1, <1>5, <1>7 DEF Semaphored
  <1>12. Sound(u, w, l)
    BY <1>1, <1>3, <1>9, <1>10, <1>11 DEF Sound
  <1> QED BY <1>2, <1>11, <1>12 DEF Handled, u, p

\* What a call of HandleIfDue has to achieve.
Served(s, u, w, l) ==
    Sound(u, w, l) /\ u.loop = s.loop /\ OnTime(u.pending, Sources)

LEMMA HandleSound ==
    ASSUME NEW s, NEW w, NEW l, Sound(s, w, l), OnTime(s.pending, Sources + 1),
           NEW idle, NEW advanceClock, NEW delay \in TimerDelays
    PROVE  Served(s, HandleIfDue(s, idle, advanceClock, delay).s, w, l)
  <1> DEFINE r == HandleIfDue(s, idle, advanceClock, delay)
             e == Head(s.pending)
             rest == [s EXCEPT !.pending = Tail(@)]
             done == Handler(rest, e, delay)
  <1>1. s.pending # <<>> /\ Popped(s, rest)
    BY PopEffect
  <1>2. /\ s.pending \in Seq(Event) /\ PendingSound(s.pending)
        /\ OneEach(s.pending) /\ InOrder(s.pending)
    BY MachineFields DEF Sound, PendingSound
  <1>3. /\ Len(s.pending) \in Nat \ {0} /\ e = s.pending[1]
        /\ \A i \in 1 .. Len(s.pending) : s.pending[i] \in Event
    BY <1>1, <1>2, EmptySeq
  <1>4. e.when \in Int /\ e.type \in IntType
    BY <1>3 DEF Event
  <1>5. r = IF e.when > 0 THEN [s |-> s, again |-> advanceClock]
            ELSE IF idle /\ e.type = "TimerInt" /\ rest.pending = <<>>
            THEN [s |-> s, again |-> FALSE]
            ELSE [s |-> done,
                  again |-> done.pending # <<>> /\ Head(done.pending).when = e.when]
    BY DEF HandleIfDue
  <1> HIDE DEF r, rest, done
  <1>6. CASE e.when > 0
    <2>1. r.s = s
      BY <1>5, <1>6
    <2>2. \A i \in 1 .. Len(s.pending) : s.pending[i].when > 0
      <3> SUFFICES ASSUME NEW i \in 1 .. Len(s.pending) PROVE s.pending[i].when > 0
        OBVIOUS
      <3>1. s.pending[i].when \in Int
        BY <1>3 DEF Event
      <3>2. i = 1 \/ s.pending[1].when <= s.pending[i].when
        BY <1>2, <1>3 DEF InOrder
      <3> QED BY <1>3, <1>4, <1>6, <3>1, <3>2
    <2>3. OnTime(s.pending, Sources)
      BY <1>2, <2>2, SourcesNatural, PositiveOnTime
    <2> QED BY <2>1, <2>3 DEF Served, r
  <1>7. CASE ~(e.when > 0)
    <2>1. ~(e.type = "TimerInt" /\ rest.pending = <<>>)
      <3>1. CASE e.type = "TimerInt"
        <4>1. Requests(rest.pending, "ConsoleReadInt") # {}
          BY <1>1, <1>2, <3>1 DEF Popped, Taken, PendingSound
        <4> QED BY <4>1 DEF Requests
      <3> QED BY <3>1
    <2>2. r.s = done
      BY <1>5, <1>7, <2>1
    <2>3. Handled(s, done, w, l)
      <3>1. CASE e.type = "TimerInt"
        <4>1. done = TimerExpired(rest, delay)
          BY <3>1 DEF done, Handler
        <4> QED BY <1>1, <3>1, <4>1, TimerSound
      <3>2. CASE e.type = "ConsoleReadInt"
        <4>1. done = CheckCharAvail(rest)
          BY <3>2 DEF done, Handler
        <4> QED BY <1>1, <3>2, <4>1, CheckCharSound
      <3>3. CASE e.type = "ConsoleWriteInt"
        <4>1. done = ConsoleFinishWrite(rest, e.arg)
          BY <3>3 DEF done, Handler
        <4> QED BY <1>1, <3>3, <4>1, FinishWriteSound
      <3>4. CASE e.type = "DiskInt"
        <4>1. done = DiskDone(rest)
          BY <3>4 DEF done, Handler
        <4> QED BY <1>1, <3>4, <4>1, DiskDoneSound
      <3> QED BY <1>4, <3>1, <3>2, <3>3, <3>4 DEF IntType
    <2> QED BY <2>2, <2>3 DEF Handled, Served, r
  <1> QED BY <1>6, <1>7

\* What is on time when threads run is when handlers do.
LEMMA LaterOnTime ==
    ASSUME NEW p \in Seq(Event), OnTime(p, Sources)
    PROVE  OnTime(p, Sources + 1)
  <1>1. ASSUME NEW i \in 1 .. Len(p) PROVE p[i].when > Latest(Sources + 1, i)
    <2>1. i \in Int /\ p[i].when \in Int /\ p[i].when > Latest(Sources, i)
      BY DEF Event, OnTime
    <2>2. SystemTick \in Nat /\ Sources \in Int
      BY SourcesNatural, TimeAssumption
    <2>3. /\ Latest(Sources, i) \in Int
          /\ Latest(Sources + 1, i) = Latest(Sources, i) - SystemTick
      BY <2>1, <2>2, LatestSteps
    <2> QED BY <2>1, <2>2, <2>3
  <1> QED BY <1>1 DEF OnTime

\* Nothing changes but the scheduler's part of the state.
Switched(s, loop, b, kk, y) ==
    [s EXCEPT !.loop = loop, !.yieldOnReturn = b, !.k = kk, !.inYield = y]

\* The state u is as sound as s, in a loop or out of one.
Ends(s, u, w, l, loop) == Sound(u, w, l) /\ u.loop = loop /\ u.pending = s.pending

LEMMA KernelOnly ==
    ASSUME NEW s, NEW w, NEW l, Sound(s, w, l), NEW kk \in QuietKernel,
           NEW y \in SUBSET Thread, NEW b \in BOOLEAN, NEW loop \in {"none", "tick", "idle"}
    PROVE  Ends(s, Switched(s, loop, b, kk, y), w, l, loop)
  <1> DEFINE u == Switched(s, loop, b, kk, y)
  <1>1. s \in Machine /\ ~s.failed /\ PendingSound(s.pending)
    BY DEF Sound
  <1>2. /\ u \in Machine /\ u.failed = s.failed /\ u.loop = loop /\ u.sem = s.sem
        /\ u.putBusy = s.putBusy /\ u.incoming = s.incoming /\ u.keyboard = s.keyboard
        /\ u.screen = s.screen /\ u.taken = s.taken /\ u.active = s.active
        /\ u.lock = s.lock /\ u.pending = s.pending
    BY <1>1 DEF Machine, Switched
  <1> HIDE DEF u
  <1>3. SameOutput(s, u) /\ SameInput(s, u) /\ SameDisk(s, u)
    BY <1>2 DEF SameOutput, SameInput, SameDisk
  <1>4. ~u.failed /\ PendingSound(u.pending)
    BY <1>1, <1>2
  <1>5. Sound(u, w, l)
    BY <1>2, <1>3, <1>4, SameSound
  <1> QED BY <1>2, <1>5 DEF Ends, u

LEMMA EndTickSound ==
    ASSUME NEW s, NEW w, NEW l, Sound(s, w, l)
    PROVE  Ends(s, EndTick(s), w, l, "none")
  <1> DEFINE t == s.k.currentThread
  <1>1. /\ s \in Machine /\ s.k \in QuietKernel /\ s.inYield \in SUBSET Thread
        /\ s.yieldOnReturn \in BOOLEAN
    BY MachineFields DEF Sound
  <1>2. t \in Thread /\ Yield(s.k) \in QuietKernel
    BY <1>1, YieldQuiet DEF QuietKernel, Kernel
  <1>3. CASE s.yieldOnReturn \/ s.k.needResched
    <2> DEFINE kk == Yield(s.k)
               y == s.inYield \cup {t}
    <2>1. EndTick(s) = Switched(s, "none", FALSE, kk, y)
      BY <1>1, <1>3 DEF EndTick, Machine, Switched
    <2>2. kk \in QuietKernel /\ y \in SUBSET Thread /\ FALSE \in BOOLEAN
      BY <1>1, <1>2
    <2> HIDE DEF kk, y
    <2>3. Ends(s, Switched(s, "none", FALSE, kk, y), w, l, "none")
      BY <2>2, KernelOnly, Zenon
    <2> QED BY <2>1, <2>3, Zenon
  <1>4. CASE ~(s.yieldOnReturn \/ s.k.needResched)
    <2> DEFINE b == s.yieldOnReturn
               kk == s.k
               y == s.inYield \ {t}
    <2>1. EndTick(s) = Switched(s, "none", b, kk, y)
      BY <1>1, <1>4 DEF EndTick, Machine, Switched
    <2>2. kk \in QuietKernel /\ y \in SUBSET Thread /\ b \in BOOLEAN
      BY <1>1
    <2> HIDE DEF kk, y, b
    <2>3. Ends(s, Switched(s, "none", b, kk, y), w, l, "none")
      BY <2>2, KernelOnly, Zenon
    <2> QED BY <2>1, <2>3, Zenon
  <1> QED BY <1>3, <1>4

LEMMA EndIdleSound ==
    ASSUME NEW s, NEW w, NEW l, Sound(s, w, l)
    PROVE  Ends(s, EndIdle(s), w, l, "none")
  <1> DEFINE kk == Dispatch(s.k)
             y == s.inYield
  <1>1. s \in Machine /\ s.k \in QuietKernel /\ s.inYield \in SUBSET Thread
    BY MachineFields DEF Sound
  <1>2. kk \in QuietKernel /\ y \in SUBSET Thread /\ FALSE \in BOOLEAN
    BY <1>1, DispatchQuiet
  <1>3. EndIdle(s) = Switched(s, "none", FALSE, kk, y)
    BY <1>1 DEF EndIdle, Machine, Switched
  <1> HIDE DEF kk, y
  <1>4. Ends(s, Switched(s, "none", FALSE, kk, y), w, l, "none")
    BY <1>2, KernelOnly, Zenon
  <1> QED BY <1>3, <1>4, Zenon

LEMMA HandleInTickStep ==
    ASSUME IInv, HandleInTick
    PROVE  IInv'
  <1>1. PICK delay \in TimerDelays :
          LET r == HandleIfDue(m, FALSE, FALSE, delay)
          IN  m' = IF r.again THEN r.s ELSE EndTick(r.s)
    BY DEF HandleInTick
  <1>2. PICK r : r = HandleIfDue(m, FALSE, FALSE, delay)
    OBVIOUS
  <1>3. pc' = pc /\ left' = left /\ m.loop = "tick"
    BY DEF HandleInTick
  <1>4. Sound(m, pc, left) /\ OnTime(m.pending, Sources + 1)
    BY <1>3 DEF IInv, InTime
  <1>5. Sound(r.s, pc, left) /\ r.s.loop = "tick" /\ OnTime(r.s.pending, Sources)
    <2>1. Served(m, r.s, pc, left)
      BY <1>2, <1>4, HandleSound, Zenon
    <2> QED BY <1>3, <2>1 DEF Served
  <1>6. CASE r.again
    <2>1. m' = r.s
      BY <1>1, <1>2, <1>6
    <2>2. r.s.pending \in Seq(Event)
      BY <1>5, MachineFields DEF Sound
    <2>3. OnTime(r.s.pending, Sources + 1)
      BY <1>5, <2>2, LaterOnTime
    <2> QED BY <1>3, <1>5, <2>1, <2>3 DEF IInv, InTime
  <1>7. CASE ~r.again
    <2>1. m' = EndTick(r.s)
      BY <1>1, <1>2, <1>7
    <2>2. Sound(m', pc, left) /\ m'.loop = "none" /\ m'.pending = r.s.pending
      <3>1. Ends(r.s, EndTick(r.s), pc, left, "none")
        BY <1>5, EndTickSound
      <3> QED BY <2>1, <3>1 DEF Ends
    <2> QED BY <1>3, <1>5, <2>2 DEF IInv, InTime
  <1> QED BY <1>6, <1>7

LEMMA HandleInIdleStep ==
    ASSUME IInv, HandleInIdle
    PROVE  IInv'
  <1>1. PICK delay \in TimerDelays :
          LET r == HandleIfDue(m, TRUE, FALSE, delay)
          IN  m' = IF r.again THEN r.s ELSE EndIdle(r.s)
    BY DEF HandleInIdle
  <1>2. PICK r : r = HandleIfDue(m, TRUE, FALSE, delay)
    OBVIOUS
  <1>3. pc' = pc /\ left' = left /\ m.loop = "idle"
    BY DEF HandleInIdle
  <1>4. Sound(m, pc, left) /\ OnTime(m.pending, Sources + 1)
    BY <1>3 DEF IInv, InTime
  <1>5. Sound(r.s, pc, left) /\ r.s.loop = "idle" /\ OnTime(r.s.pending, Sources)
    <2>1. Served(m, r.s, pc, left)
      BY <1>2, <1>4, HandleSound, Zenon
    <2> QED BY <1>3, <2>1 DEF Served
  <1>6. CASE r.again
    <2>1. m' = r.s
      BY <1>1, <1>2, <1>6
    <2>2. r.s.pending \in Seq(Event)
      BY <1>5, MachineFields DEF Sound
    <2>3. OnTime(r.s.pending, Sources + 1)
      BY <1>5, <2>2, LaterOnTime
    <2> QED BY <1>3, <1>5, <2>1, <2>3 DEF IInv, InTime
  <1>7. CASE ~r.again
    <2>1. m' = EndIdle(r.s)
      BY <1>1, <1>2, <1>7
    <2>2. Sound(m', pc, left) /\ m'.loop = "none" /\ m'.pending = r.s.pending
      <3>1. Ends(r.s, EndIdle(r.s), pc, left, "none")
        BY <1>5, EndIdleSound
      <3> QED BY <2>1, <3>1 DEF Ends
    <2> QED BY <1>3, <1>5, <2>2 DEF IInv, InTime
  <1> QED BY <1>6, <1>7

LEMMA IdleStep ==
    ASSUME IInv, Idle
    PROVE  IInv'
  <1>1. PICK delay \in TimerDelays :
          LET r == HandleIfDue(m, TRUE, TRUE, delay)
          IN  m' = IF r.again
                   THEN [Advance(r.s, Head(r.s.pending).when) EXCEPT !.loop = "idle"]
                   ELSE [r.s EXCEPT !.k.halted = TRUE]
    BY DEF Idle
  <1>2. PICK r : r = HandleIfDue(m, TRUE, TRUE, delay)
    OBVIOUS
  <1>3. pc' = pc /\ left' = left /\ m.loop = "none"
    BY DEF Idle
  <1>4. Sound(m, pc, left) /\ OnTime(m.pending, Sources) /\ m.pending \in Seq(Event)
    BY <1>3, MachineFields DEF IInv, InTime, Sound
  <1>5. Sound(r.s, pc, left) /\ r.s.loop = "none" /\ OnTime(r.s.pending, Sources)
    <2>1. OnTime(m.pending, Sources + 1)
      BY <1>4, LaterOnTime
    <2>2. Served(m, r.s, pc, left)
      BY <1>2, <1>4, <2>1, HandleSound, Zenon
    <2> QED BY <1>3, <2>2 DEF Served
  <1>6. PICK s : s = r.s
    OBVIOUS
  <1>7. /\ s \in Machine /\ s.pending \in Seq(Event) /\ OneEach(s.pending)
        /\ InOrder(s.pending) /\ s.pending # <<>>
    BY <1>5, <1>6, MachineFields, PopEffect DEF Sound, PendingSound
  <1>8. CASE r.again
    <2> DEFINE p == s.pending
               ticks == Head(p).when
               q == Aged(p, ticks)
    <2>1. m' = Ticked(s, ticks, "idle")
      BY <1>1, <1>2, <1>6, <1>8 DEF Ticked
    <2>2. /\ Len(p) \in Nat \ {0} /\ Head(p) = p[1]
          /\ \A i \in 1 .. Len(p) : p[i] \in Event
      BY <1>7, EmptySeq
    <2>3. ticks \in Int
      BY <2>2 DEF Event
    <2>4. Sound(m', pc, left) /\ m'.pending = q /\ m'.loop = "idle"
      BY <1>5, <1>6, <2>1, <2>3, TickedEffect
    <2>5. /\ q \in Seq(Event) /\ Len(q) = Len(p) /\ OneEach(q) /\ InOrder(q)
          /\ \A i \in 1 .. Len(p) : q[i].when = p[i].when - ticks
      BY <1>7, <2>3, AgedEffect
    <2> HIDE DEF q
    <2>6. \A i \in 1 .. Len(q) : q[i].when >= 0
      <3> SUFFICES ASSUME NEW i \in 1 .. Len(p) PROVE p[i].when - ticks >= 0
        BY <2>5
      <3>1. p[i].when \in Int
        BY <2>2 DEF Event
      <3>2. i = 1 \/ p[1].when <= p[i].when
        BY <1>7, <2>2 DEF InOrder
      <3> QED BY <2>2, <2>3, <3>1, <3>2
    <2>7. OnTime(q, Sources + 1)
      BY <2>5, <2>6, SourcesNatural, PositiveOnTime
    <2> QED BY <1>3, <2>4, <2>7 DEF IInv, InTime
  <1>9. CASE ~r.again
    <2> DEFINE kk == [s.k EXCEPT !.halted = TRUE]
               y == s.inYield
               b == s.yieldOnReturn
    <2>1. m' = [s EXCEPT !.k.halted = TRUE]
      BY <1>1, <1>2, <1>6, <1>9
    <2>2. s.k \in QuietKernel /\ y \in SUBSET Thread /\ b \in BOOLEAN
      BY <1>7, MachineFields
    <2>3. kk \in QuietKernel
      BY <2>2 DEF QuietKernel, Kernel
    <2>4. m' = Switched(s, "none", b, kk, y)
      BY <1>5, <1>6, <1>7, <2>1 DEF Machine, Switched
    <2> HIDE DEF kk, y, b
    <2>5. Ends(s, Switched(s, "none", b, kk, y), pc, left, "none")
      BY <1>5, <1>6, <2>2, <2>3, KernelOnly, Zenon
    <2>6. Sound(m', pc, left) /\ m'.loop = "none" /\ m'.pending = s.pending
      BY <2>4, <2>5 DEF Ends
    <2> QED BY <1>3, <1>5, <1>6, <2>6 DEF IInv, InTime
  <1> QED BY <1>8, <1>9

LEMMA TypeStep ==
    ASSUME IInv, Type
    PROVE  IInv'
  <1> DEFINE n == Len(m.taken) + Len(m.keyboard) + (IF m.incoming = FLAG_EOF THEN 0 ELSE 1)
  <1>1. n < MaxKeys /\ pc' = pc /\ left' = left
    BY DEF Type
  <1>2. PICK c \in {n + 1} \cup (IF n + 1 = MaxKeys THEN {EOF} ELSE {}) :
           m' = [m EXCEPT !.keyboard = Append(@, c)]
    BY DEF Type
  <1>3. Sound(m, pc, left) /\ InTime(m) /\ m \in Machine
    BY DEF IInv, Sound
  <1>4. m.keyboard \in Seq(Typed) /\ m.taken \in Seq(Typed)
    BY <1>3, MachineFields
  <1>5. n \in Nat
    <2> DEFINE x == Len(m.taken)
               y == Len(m.keyboard)
               b == IF m.incoming = FLAG_EOF THEN 0 ELSE 1
    <2>1. x \in Nat /\ y \in Nat
      BY <1>4
    <2>2. b \in Nat
      OBVIOUS
    <2>3. n = x + y + b
      OBVIOUS
    <2> HIDE DEF x, y, b, n
    <2> QED BY <2>1, <2>2, <2>3
  <1>6. c \in Typed /\ c \in {n + 1, EOF}
    <2> HIDE DEF n
    <2>1. n + 1 \in Key
      BY <1>1, <1>5, TimeAssumption DEF Key
    <2> QED BY <1>2, <2>1 DEF Typed
  <1> DEFINE kb == Append(m.keyboard, c)
  <1>7. kb \in Seq(Typed)
    BY <1>4, <1>6
  <1>8. m' = [m EXCEPT !.keyboard = kb]
    BY <1>2
  <1>9. ReadSound(m.sem["read"].value, m.sem["readAvail"].value, m.incoming,
                  kb, m.taken, pc)
    <2>1. ReadSound(m.sem["read"].value, m.sem["readAvail"].value, m.incoming,
                    m.keyboard, m.taken, pc)
      BY <1>3 DEF Sound, InputSound
    <2> QED BY <1>4, <1>6, <2>1, ReadType
  <1> HIDE DEF kb, n
  <1>10. /\ m' \in Machine /\ m'.failed = m.failed /\ m'.loop = m.loop /\ m'.sem = m.sem
         /\ m'.putBusy = m.putBusy /\ m'.incoming = m.incoming /\ m'.keyboard = kb
         /\ m'.screen = m.screen /\ m'.taken = m.taken /\ m'.active = m.active
         /\ m'.lock = m.lock /\ m'.pending = m.pending
    BY <1>3, <1>7, <1>8 DEF Machine
  <1>11. InputSound(m', pc)
    BY <1>9, <1>10 DEF InputSound
  <1>12. OutputSound(m', pc, left) /\ SectorsSound(m', pc)
    BY <1>3, <1>10 DEF Sound, OutputSound, SectorsSound
  <1>13. Sound(m', pc, left)
    BY <1>3, <1>10, <1>11, <1>12 DEF Sound
  <1>14. InTime(m')
    BY <1>3, <1>10 DEF InTime
  <1> QED BY <1>1, <1>13, <1>14 DEF IInv

-----------------------------------------------------------------------------
(* The inductive invariant holds *)

LEMMA InitInvariant == Init => IInv
  <1> SUFFICES ASSUME Init PROVE IInv
    OBVIOUS
  <1> DEFINE k0(main, others) ==
               [Boot(main) EXCEPT
                  !.status = [t \in Thread |-> IF t = main THEN "RUNNING" ELSE "READY"],
                  !.allThreads = <<main>> \o others,
                  !.readyList = others,
                  !.started = Thread]
             sem0 == [name \in SemName |->
                         Semaphore(IF name \in {"read", "write"} THEN 1 ELSE 0)]
             s0(k, y) == [k |-> k, inYield |-> y, sem |-> sem0, pending |-> <<>>,
                          yieldOnReturn |-> FALSE, loop |-> "none", putBusy |-> FALSE,
                          incoming |-> FLAG_EOF, keyboard |-> <<>>, screen |-> <<>>,
                          taken |-> <<>>, active |-> FALSE, lock |-> FreeLock,
                          failed |-> FALSE]
  <1>1. PICK main \in Thread : \E others \in SetToSeqs(Thread \ {main}) :
          \E delay \in TimerDelays :
            m = Console(Timer(s0(k0(main, others), Thread \ {main}), delay))
    BY DEF Init, Interrupt, Disk, SynchDisk
  <1>2. PICK others \in SetToSeqs(Thread \ {main}), delay \in TimerDelays :
            m = Console(Timer(s0(k0(main, others), Thread \ {main}), delay))
    BY <1>1
  <1>3. pc = [t \in Thread |-> "user"] /\ left = [t \in Thread |-> 0]
    BY DEF Init
  <1>4. others \in Seq(Thread)
    <2> DEFINE rest == Thread \ {main}
               n == Cardinality(rest)
    <2>1. IsFiniteSet(rest) /\ n \in Nat
      BY ThreadsAssumption, FS_Subset, FS_CardinalityType
    <2>2. others \in [1 .. n -> rest]
      BY DEF SetToSeqs
    <2> HIDE DEF n
    <2>3. others \in [1 .. n -> Thread]
      BY <2>2
    <2> QED BY <2>1, <2>3
  <1>5. k0(main, others) \in QuietKernel
    <2>1. <<main>> \o others \in Seq(Thread)
      BY <1>4
    <2>2. [t \in Thread |-> IF t = main THEN "RUNNING" ELSE "READY"]
             \in [Thread -> ThreadStatus]
      BY DEF ThreadStatus
    <2>3. [t \in Thread |-> DefaultPriority] \in [Thread -> Priority]
      BY PriorityAssumption DEF Priority
    <2> QED BY <1>4, <2>1, <2>2, <2>3 DEF QuietKernel, Kernel, Boot
  <1> DEFINE k == k0(main, others)
             y == Thread \ {main}
             s == s0(k, y)
  <1>6. /\ sem0 \in [SemName -> KernelSemaphore]
        /\ sem0["write"].value = 1 /\ sem0["read"].value = 1
        /\ sem0["writeDone"].value = 0 /\ sem0["readAvail"].value = 0
        /\ sem0["disk"].value = 0
    <2>1. /\ "write" \in SemName /\ "read" \in SemName /\ "writeDone" \in SemName
          /\ "readAvail" \in SemName /\ "disk" \in SemName
      BY DEF SemName
    <2>2. \A v \in {0, 1} : Semaphore(v) \in KernelSemaphore /\ Semaphore(v).value = v
      <3>1. <<>> \in Seq(Thread)
        OBVIOUS
      <3> QED BY <3>1 DEF Semaphore, KernelSemaphore
    <2>3. \A name \in SemName :
             sem0[name] = Semaphore(IF name \in {"read", "write"} THEN 1 ELSE 0)
      OBVIOUS
    <2>4. \A name \in SemName : sem0[name] \in KernelSemaphore
      BY <2>2, <2>3
    <2>5. sem0 \in [SemName -> KernelSemaphore]
      BY <2>4
    <2> HIDE DEF sem0
    <2> QED BY <2>1, <2>2, <2>3, <2>5
  <1> HIDE DEF k0, sem0
  <1>7. FreeLock \in Lock
    <2>1. <<>> \in Seq(Thread)
      OBVIOUS
    <2> QED BY <2>1 DEF FreeLock, Lock
  <1>8. /\ s \in Machine /\ s.pending = <<>> /\ s.sem = sem0 /\ s.putBusy = FALSE
        /\ s.incoming = FLAG_EOF /\ s.keyboard = <<>> /\ s.screen = <<>>
        /\ s.taken = <<>> /\ s.active = FALSE /\ s.lock = FreeLock
        /\ s.failed = FALSE /\ s.loop = "none"
    <2>1. /\ <<>> \in Seq(Event) /\ <<>> \in Seq(Typed) /\ <<>> \in Seq(Char)
          /\ y \in SUBSET Thread
      OBVIOUS
    <2> QED BY <1>5, <1>6, <1>7, <2>1 DEF Machine
  <1> HIDE DEF s0, k, y
  <1>9. m = Console(Timer(s, delay))
    BY <1>2 DEF k, y
  <1> HIDE DEF s
  <1>10. /\ OneEach(s.pending) /\ InOrder(s.pending) /\ OnTime(s.pending, Sources)
         /\ \A x : Requests(s.pending, x) = {}
    BY <1>8 DEF OneEach, InOrder, OnTime, Requests
  <1>11. /\ delay \in Int /\ delay > 0 /\ ConsoleTime \in Int /\ ConsoleTime > 0
         /\ "TimerInt" \in IntType /\ "ConsoleReadInt" \in IntType
    BY TimeAssumption DEF IntType
  <1> DEFINE u == Timer(s, delay)
             v == [u EXCEPT !.putBusy = FALSE, !.incoming = FLAG_EOF]
  <1>12. Rescheduled(s, u, "TimerInt", 0)
    BY <1>8, <1>10, <1>11, MachineScheduled DEF Timer
  <1> HIDE DEF u
  <1>13. v = u
    BY <1>8, <1>12 DEF Rescheduled, Machine
  <1>14. /\ u \in Machine /\ OneEach(u.pending) /\ InOrder(u.pending)
         /\ OnTime(u.pending, Sources) /\ Requests(u.pending, "TimerInt") = {0}
         /\ \A x : x # "TimerInt" => Requests(u.pending, x) = {}
    BY <1>10, <1>12 DEF Rescheduled, Scheduled
  <1>15. m = Schedule(u, "ConsoleReadInt", 0, ConsoleTime)
    BY <1>9, <1>13 DEF Console, u
  <1>16. Rescheduled(u, m, "ConsoleReadInt", 0)
    BY <1>11, <1>14, <1>15, MachineScheduled
  <1>17. /\ m \in Machine /\ m.sem = sem0 /\ m.putBusy = FALSE /\ m.incoming = FLAG_EOF
         /\ m.keyboard = <<>> /\ m.screen = <<>> /\ m.taken = <<>> /\ m.active = FALSE
         /\ m.lock = FreeLock /\ m.failed = FALSE /\ m.loop = "none"
    BY <1>8, <1>12, <1>16 DEF Rescheduled
  <1>18. Scheduled(u.pending, m.pending, "ConsoleReadInt", 0)
    BY <1>16 DEF Rescheduled
  <1>19. /\ OnTime(m.pending, Sources) /\ Requests(m.pending, "ConsoleWriteInt") = {}
         /\ Requests(m.pending, "DiskInt") = {} /\ PendingSound(m.pending)
    <2>1. PendingSound(m.pending)
      BY <1>14, <1>18, ScheduledPending
    <2> QED BY <1>14, <1>18, <2>1 DEF Scheduled
  <1>20. /\ \A t \in Thread : pc[t] = "user" /\ left[t] = 0
         /\ pc \in [Thread -> Where] /\ left \in [Thread -> 0 .. 2]
    BY <1>3 DEF Where
  <1>21. LeftSound(pc, left)
    BY <1>20 DEF LeftSound
  <1>22. WriteSound(1, 0, FALSE, <<>>, {}, pc, left)
    BY <1>20 DEF WriteSound, OneInside, Answered, Unbroken, Ended
  <1>23. ReadSound(1, 0, FLAG_EOF, <<>>, <<>>, pc)
    BY <1>20 DEF ReadSound, OneInside
  <1>24. DiskSound(0, FALSE, NoThread, {}, pc)
    BY <1>20 DEF DiskSound, Answered
  <1>25. Sound(m, pc, left)
    <2>1. OutputSound(m, pc, left)
      BY <1>6, <1>17, <1>19, <1>22 DEF OutputSound
    <2>2. InputSound(m, pc)
      BY <1>6, <1>17, <1>23 DEF InputSound
    <2>3. SectorsSound(m, pc)
      <3>1. m.lock.owner = NoThread /\ m.sem["disk"].value = 0
        BY <1>6, <1>17 DEF FreeLock
      <3> QED BY <1>17, <1>19, <1>24, <3>1 DEF SectorsSound
    <2> QED BY <1>17, <1>19, <1>21, <2>1, <2>2, <2>3 DEF Sound
  <1> QED BY <1>17, <1>19, <1>25 DEF IInv, InTime

LEMMA StepInvariant == IInv /\ [Next]_vars => IInv'
  <1> SUFFICES ASSUME IInv, [Next]_vars PROVE IInv'
    OBVIOUS
  <1>1. CASE UNCHANGED vars
    BY <1>1 DEF vars, IInv
  <1>2. CASE ThreadStep
    BY <1>2, ResumeYieldStep, UserInstructionStep, ConsoleWriteStep, PutCharStep,
       PutWaitStep, ConsoleReadStep, GetWaitStep, GetStep, SectorCallStep,
       DiskRequestStep, DiskWaitStep, DiskReleaseStep DEF ThreadStep
  <1>3. CASE HandleInTick
    BY <1>3, HandleInTickStep
  <1>4. CASE Idle
    BY <1>4, IdleStep
  <1>5. CASE HandleInIdle
    BY <1>5, HandleInIdleStep
  <1>6. CASE Type
    BY <1>6, TypeStep
  <1> QED BY <1>1, <1>2, <1>3, <1>4, <1>5, <1>6 DEF Next, Processor

\* What every state of the machine satisfies, from which the theorems below follow.
THEOREM Invariance == Spec => []IInv
  <1> QED BY InitInvariant, StepInvariant, PTL DEF Spec

-----------------------------------------------------------------------------
(* What it implies *)

\* Every part of the machine's state keeps the shape the code declares, through
\* any sequence of ticks, handlers and calls; no semaphore is ever negative.
THEOREM TypeCorrect == Spec => []TypeOK
  <1>1. ASSUME IInv PROVE TypeOK
    <2>1. /\ m \in Machine /\ LeftSound(pc, left)
      BY <1>1 DEF IInv, Sound
    <2>2. /\ m.k \in Kernel /\ m.lock \in Lock /\ m.incoming \in Key \cup {EOF, FLAG_EOF}
      BY <2>1, MachineFields DEF QuietKernel, Typed
    <2>3. m.pending \in Seq(Event) /\ m.sem \in [SemName -> KernelSemaphore]
      BY <2>1, MachineFields
    <2>4. \A i \in DOMAIN m.pending : m.pending[i].type \in IntType /\ m.pending[i].when \in Int
      BY <2>3 DEF Event
    <2>5. \A n \in DOMAIN m.sem : m.sem[n] \in KernelSemaphore
      BY <2>3
    <2> QED BY <2>1, <2>2, <2>4, <2>5 DEF TypeOK, LeftSound
  <1> QED BY Invariance, <1>1, PTL

\* A set with at most one member.
LEMMA AtMostOne ==
    ASSUME NEW S, \A x, y \in S : x = y
    PROVE  /\ S = {} => Cardinality(S) = 0
           /\ S # {} => Cardinality(S) = 1
  <1>1. S = {} => Cardinality(S) = 0
    BY FS_EmptySet
  <1>2. ASSUME S # {} PROVE Cardinality(S) = 1
    <2>1. PICK x : S = {x}
      BY <1>2
    <2> QED BY <2>1, FS_Singleton
  <1> QED BY <1>1, <1>2

\* How many interrupts of a type are pending, by what they are about.
LEMMA PendingCount ==
    ASSUME m \in Machine, PendingSound(m.pending), NEW type
    PROVE  /\ Requests(m.pending, type) = {} =>
                 Pending(type) = {} /\ Cardinality(Pending(type)) = 0
           /\ Requests(m.pending, type) # {} =>
                 Pending(type) # {} /\ Cardinality(Pending(type)) = 1
  <1>1. DOMAIN m.pending = 1 .. Len(m.pending)
    BY MachineFields
  <1>2. \A x, y \in Pending(type) : x = y
    BY <1>1 DEF Pending, PendingSound, OneEach
  <1>3. Requests(m.pending, type) = {} <=> Pending(type) = {}
    BY <1>1 DEF Requests, Pending
  <1> QED BY <1>2, <1>3, AtMostOne

\* The timer and the poll of the keyboard never die out and never multiply,
\* whatever else is pending and however late their handlers run.
THEOREM PollersCorrect == Spec => []PollersPending
  <1>1. ASSUME IInv PROVE PollersPending
    <2>1. m \in Machine /\ PendingSound(m.pending)
      BY <1>1 DEF IInv, Sound
    <2>2. Requests(m.pending, "TimerInt") # {} /\ Requests(m.pending, "ConsoleReadInt") # {}
      BY <2>1 DEF PendingSound
    <2> QED BY <2>1, <2>2, PendingCount DEF PollersPending
  <1> QED BY Invariance, <1>1, PTL

\* The characters of one ConsoleWrite are never interleaved with another's.
THEOREM OutputCorrect == Spec => []OutputUnbroken
  <1>1. ASSUME IInv PROVE OutputUnbroken
    BY <1>1 DEF IInv, Sound, OutputSound, WriteSound, Unbroken, OutputUnbroken
  <1> QED BY Invariance, <1>1, PTL

\* The list of pending interrupts stays in order of time, and no interrupt is
\* late by more than a tick for each source of interrupts.
THEOREM LatenessCorrect == Spec => []LatenessBounded
  <1>1. ASSUME IInv PROVE LatenessBounded
    <2> DEFINE p == m.pending
               n == IF m.loop = "none" THEN Sources ELSE Sources + 1
    <2>1. p \in Seq(Event) /\ InOrder(p) /\ OnTime(p, n)
      BY <1>1, MachineFields DEF IInv, Sound, PendingSound, InTime
    <2>2. DOMAIN p = 1 .. Len(p) /\ \A i \in 1 .. Len(p) : p[i].when \in Int
      BY <2>1 DEF Event
    <2>3. Sources \in Nat /\ n \in Int /\ n <= Sources + 1
      BY SourcesNatural
    <2>4. ASSUME NEW i \in 1 .. Len(p) PROVE p[i].when > -(SystemTick * Sources)
      <3>1. p[i].when > -(SystemTick * (n - i)) /\ p[i].when \in Int
        BY <2>1, <2>2 DEF OnTime, Latest
      <3>2. Sources - (n - i) \in Int /\ Sources - (n - i) >= 0 /\ n - i \in Int
        <4> HIDE DEF n
        <4> QED BY <2>3
      <3>3. SystemTick * (Sources - (n - i)) >= 0
        BY <3>2, TickProduct
      <3>4. SystemTick * (Sources - (n - i)) = SystemTick * Sources - SystemTick * (n - i)
        <4> DEFINE z == n - i
        <4>1. z \in Int /\ SystemTick \in Int /\ Sources \in Int
          BY <2>3, <3>2, TimeAssumption
        <4> HIDE DEF z
        <4> QED BY <4>1
      <3>5. SystemTick * Sources \in Int /\ SystemTick * (n - i) \in Int
        <4> DEFINE z == n - i
        <4>1. z \in Int /\ SystemTick \in Int /\ Sources \in Int
          BY <2>3, <3>2, TimeAssumption
        <4> HIDE DEF z
        <4>2. SystemTick * Sources \in Int /\ SystemTick * z \in Int
          BY <4>1
        <4> QED BY <4>2 DEF z
      <3> DEFINE a == SystemTick * Sources
                 b == SystemTick * (n - i)
      <3>6. a \in Int /\ b \in Int /\ a - b >= 0 /\ p[i].when > -b
        BY <3>1, <3>3, <3>4, <3>5
      <3> HIDE DEF a, b
      <3>7. p[i].when > -a
        BY <3>1, <3>6
      <3> QED BY <3>7 DEF a
    <2> QED BY <2>1, <2>2, <2>4 DEF LatenessBounded, InOrder, Sources
  <1> QED BY Invariance, <1>1, PTL

\* How many threads are where only one may be.
LEMMA InCallCount ==
    ASSUME NEW label, \A t, u \in Thread : pc[t] = label /\ pc[u] = label => t = u
    PROVE  InCall(label) = IF \E t \in Thread : pc[t] = label THEN 1 ELSE 0
  <1> DEFINE S == {t \in Thread : pc[t] = label}
  <1>1. \A x, y \in S : x = y
    OBVIOUS
  <1>2. S # {} <=> \E t \in Thread : pc[t] = label
    OBVIOUS
  <1>3. InCall(label) = Cardinality(S)
    BY DEF InCall
  <1> HIDE DEF S
  <1>4. (S = {} => Cardinality(S) = 0) /\ (S # {} => Cardinality(S) = 1)
    BY <1>1, AtMostOne
  <1> QED BY <1>2, <1>3, <1>4

\* The threads that wait for a device are as many as its pending interrupts and
\* its V's.
LEMMA AnswersMatch ==
    ASSUME m \in Machine, PendingSound(m.pending), NEW value, NEW label, NEW type,
           \A t, u \in Thread : pc[t] = label /\ pc[u] = label => t = u,
           Answered(value, Requests(m.pending, type), pc, label)
    PROVE  InCall(label) = Cardinality(Pending(type)) + value
  <1> DEFINE r == Requests(m.pending, type)
             waits == \E t \in Thread : pc[t] = label
  <1>1. InCall(label) = IF waits THEN 1 ELSE 0
    BY InCallCount
  <1>2. /\ r = {} => Cardinality(Pending(type)) = 0
        /\ r # {} => Cardinality(Pending(type)) = 1
    BY PendingCount
  <1>3. /\ value \in {0, 1} /\ (value = 1 => r = {})
        /\ waits <=> value = 1 \/ r # {}
    BY DEF Answered
  <1> HIDE DEF r, waits
  <1> QED BY <1>1, <1>2, <1>3

\* Requests and completions match one to one, so the device ASSERTs of PutChar,
\* ReadRequest and WriteRequest never fail, whenever the interrupts come.
THEOREM CompletionsCorrect == Spec => []CompletionsExact
  <1>1. ASSUME IInv PROVE CompletionsExact
    <2>1. m \in Machine /\ PendingSound(m.pending) /\ ~m.failed
      BY <1>1 DEF IInv, Sound
    <2>2. /\ OneInside(m.sem["write"].value, pc, {"put", "putwait"})
          /\ Answered(m.sem["writeDone"].value, Requests(m.pending, "ConsoleWriteInt"),
                      pc, "putwait")
          /\ m.putBusy <=> Requests(m.pending, "ConsoleWriteInt") # {}
      BY <1>1 DEF IInv, Sound, OutputSound, WriteSound
    <2>3. /\ \A t \in Thread : pc[t] = "diskwait" => m.lock.owner = t
          /\ Answered(m.sem["disk"].value, Requests(m.pending, "DiskInt"), pc, "diskwait")
          /\ m.active <=> Requests(m.pending, "DiskInt") # {}
      BY <1>1 DEF IInv, Sound, SectorsSound, DiskSound
    <2>4. \A t, u \in Thread : pc[t] = "putwait" /\ pc[u] = "putwait" => t = u
      BY <2>2 DEF OneInside
    <2>5. InCall("putwait")
            = Cardinality(Pending("ConsoleWriteInt")) + m.sem["writeDone"].value
      BY <2>1, <2>2, <2>4, AnswersMatch
    <2>6. InCall("diskwait") = Cardinality(Pending("DiskInt")) + m.sem["disk"].value
      <3>1. \A t, u \in Thread : pc[t] = "diskwait" /\ pc[u] = "diskwait" => t = u
        BY <2>3
      <3> QED BY <2>1, <2>3, <3>1, AnswersMatch
    <2>7. /\ m.putBusy <=> Pending("ConsoleWriteInt") # {}
          /\ m.active <=> Pending("DiskInt") # {}
      <3>1. /\ Requests(m.pending, "ConsoleWriteInt") = {} <=> Pending("ConsoleWriteInt") = {}
            /\ Requests(m.pending, "DiskInt") = {} <=> Pending("DiskInt") = {}
        BY <2>1, PendingCount
      <3> QED BY <2>2, <2>3, <3>1
    <2> QED BY <2>1, <2>5, <2>6, <2>7 DEF CompletionsExact
  <1> QED BY Invariance, <1>1, PTL

\* Every key is read once and in the order typed, whatever the timing of the
\* poll, the reader and the semaphore between them.
THEOREM KeysCorrect == Spec => []KeysInOrder
  <1>1. ASSUME IInv PROVE KeysInOrder
    <2> DEFINE tk == m.taken
               kb == m.keyboard
               buffered == IF m.incoming = FLAG_EOF THEN <<>> ELSE <<m.incoming>>
               n == IF m.incoming = FLAG_EOF THEN 0 ELSE 1
               typed == tk \o buffered \o kb
    <2>1. /\ tk \in Seq(Typed) /\ kb \in Seq(Typed)
          /\ m.incoming \in Typed \cup {FLAG_EOF}
      BY <1>1, MachineFields DEF IInv, Sound
    <2>2. /\ OneInside(m.sem["read"].value, pc, {"getwait", "get"})
          /\ m.sem["readAvail"].value \in {0, 1}
          /\ m.sem["readAvail"].value = 1 => \A t \in Thread : pc[t] # "get"
          /\ n = 1 <=> m.sem["readAvail"].value = 1 \/ \E t \in Thread : pc[t] = "get"
          /\ \A i \in 1 .. Len(tk) : tk[i] \in {i, EOF}
          /\ n = 1 => m.incoming \in {Len(tk) + 1, EOF}
          /\ \A i \in 1 .. Len(kb) : kb[i] \in {Len(tk) + n + i, EOF}
      BY <1>1 DEF IInv, Sound, InputSound, ReadSound
    <2>3. /\ n \in {0, 1} /\ buffered \in Seq(Typed) /\ Len(buffered) = n
          /\ n = 1 => buffered[1] = m.incoming
      <3>1. CASE m.incoming = FLAG_EOF
        BY <3>1
      <3>2. CASE m.incoming # FLAG_EOF
        <4>1. m.incoming \in Typed
          BY <2>1, <3>2
        <4> QED BY <3>2, <4>1
      <3> QED BY <3>1, <3>2
    <2> HIDE DEF n, buffered
    <2>4. Len(buffered) = m.sem["readAvail"].value + InCall("get")
      <3>1. \A t, u \in Thread : pc[t] = "get" /\ pc[u] = "get" => t = u
        BY <2>2 DEF OneInside
      <3>2. InCall("get") = IF \E t \in Thread : pc[t] = "get" THEN 1 ELSE 0
        BY <3>1, InCallCount
      <3> QED BY <2>2, <2>3, <3>2
    <2> DEFINE a == tk \o buffered
    <2>5. /\ a \in Seq(Typed) /\ Len(a) = Len(tk) + n
          /\ \A i \in 1 .. Len(tk) + n :
                a[i] = IF i <= Len(tk) THEN tk[i] ELSE buffered[i - Len(tk)]
      BY <2>1, <2>3, ConcatProperties
    <2>6. Len(tk) \in Nat /\ Len(kb) \in Nat
      BY <2>1
    <2> HIDE DEF a, tk, kb
    <2>7. \A i \in 1 .. Len(a) : a[i] \in {i, EOF}
      <3> SUFFICES ASSUME NEW i \in 1 .. Len(a) PROVE a[i] \in {i, EOF}
        OBVIOUS
      <3>1. CASE i <= Len(tk)
        <4>1. i \in 1 .. Len(tk) /\ a[i] = tk[i]
          BY <2>3, <2>5, <2>6, <3>1
        <4> QED BY <2>2, <4>1
      <3>2. CASE ~(i <= Len(tk))
        <4>1. i = Len(tk) + 1 /\ n = 1 /\ a[i] = buffered[i - Len(tk)] /\ i - Len(tk) = 1
          BY <2>3, <2>5, <2>6, <3>2
        <4> QED BY <2>2, <2>3, <4>1
      <3> QED BY <3>1, <3>2
    <2>8. /\ a \o kb \in Seq(Typed) /\ Len(a \o kb) = Len(a) + Len(kb)
          /\ \A i \in 1 .. Len(a) + Len(kb) :
                (a \o kb)[i] = IF i <= Len(a) THEN a[i] ELSE kb[i - Len(a)]
      BY <2>1, <2>5, ConcatProperties
    <2>9. DOMAIN (a \o kb) = 1 .. Len(a) + Len(kb)
      BY <2>8
    <2>10. \A i \in 1 .. Len(a) + Len(kb) : (a \o kb)[i] \in {i, EOF}
      <3> SUFFICES ASSUME NEW i \in 1 .. Len(a) + Len(kb) PROVE (a \o kb)[i] \in {i, EOF}
        OBVIOUS
      <3>1. CASE i <= Len(a)
        <4>1. i \in 1 .. Len(a) /\ (a \o kb)[i] = a[i]
          BY <2>3, <2>5, <2>6, <2>8, <3>1
        <4> QED BY <2>7, <4>1
      <3>2. CASE ~(i <= Len(a))
        <4>1. /\ i - Len(a) \in 1 .. Len(kb) /\ (a \o kb)[i] = kb[i - Len(a)]
              /\ Len(tk) + n + (i - Len(a)) = i
          BY <2>3, <2>5, <2>6, <2>8, <3>2
        <4> QED BY <2>2, <4>1
      <3> QED BY <3>1, <3>2
    <2>11. typed = a \o kb
      BY DEF a
    <2> HIDE DEF typed
    <2>12. \A i \in DOMAIN typed : typed[i] \in {i, EOF}
      BY <2>9, <2>10, <2>11
    <2> QED BY <2>4, <2>12 DEF KeysInOrder, typed, buffered, tk, kb
  <1> QED BY Invariance, <1>1, PTL

=============================================================================
