-------------------------- MODULE ContentionProofs --------------------------
EXTENDS Contention, SchedulerProofs

(***************************************************************************)
(* The safety of semaphores and locks, for any number of threads: proofs   *)
(* about Contention.  An invariant of the kernel state (KernelSound) is    *)
(* kept by every call a thread or the interrupt handler makes of the       *)
(* scheduler, and each such call blocks or wakes exactly the thread it is  *)
(* meant to (the first part of this module).  With it, what the queues say *)
(* about their threads (QueuesSound) is inductive.                         *)
(***************************************************************************)

\* The kernel state while no thread ever finishes.
KernelSound(s) ==
    /\ s \in Kernel
    /\ ReadyListExact(s)
    /\ Distinct(s.allThreads)
    /\ s.threadToBeDestroyed = NoThread
    /\ \A t \in Thread : s.status[t] \in {"RUNNING", "READY", "BLOCKED"}

\* The threads blocked in s.
Blocked(s) == {t \in Thread : s.status[t] = "BLOCKED"}

\* A thread is in a queue at most once, and only inside the routine that put it
\* there.
QueuesSound ==
    /\ Distinct(sem.queue) /\ Distinct(lock.queue)
    /\ \A t \in Thread : /\ Contains(sem.queue, t) => pc[t] = "P"
                         /\ Contains(lock.queue, t) => pc[t] = "Acquire"

\* The inductive invariant.
IInv ==
    /\ TypeOK
    /\ KernelSound(k)
    /\ OnePlace
    /\ QueuesSound
    /\ MutualExclusion
    /\ NoLostWakeup

-----------------------------------------------------------------------------
(* The calls of the scheduler *)

\* Looking for a thread to run blocks nobody and wakes nobody.
LEMMA DispatchSound ==
    ASSUME NEW s, KernelSound(s), \A t \in Thread : s.status[t] # "RUNNING"
    PROVE  KernelSound(Dispatch(s)) /\ Blocked(Dispatch(s)) = Blocked(s)
  <1> DEFINE d == Dispatch(s)
  <1>1. s \in Kernel /\ ReadyListExact(s) /\ Distinct(s.allThreads) /\ NobodyRuns(s)
    BY DEF KernelSound, NobodyRuns
  <1>2. /\ d \in Kernel /\ ReadyListExact(d)
        /\ \/ d = [s EXCEPT !.halted = d.halted]
           \/ Dispatched(s, d)
    BY <1>1, DispatchExact
  <1> HIDE DEF d
  <1>3. CASE d = [s EXCEPT !.halted = d.halted]
    <2>1. /\ d.status = s.status /\ d.allThreads = s.allThreads
          /\ d.threadToBeDestroyed = s.threadToBeDestroyed
      BY <1>1, <1>3 DEF Kernel
    <2> QED BY <1>2, <2>1 DEF KernelSound, Blocked, d
  <1>4. CASE Dispatched(s, d)
    <2>1. PICK h \in Thread : /\ s.status[h] = "READY"
                              /\ d.status = [s.status EXCEPT ![h] = "RUNNING"]
      BY <1>4, ThreadAssumption DEF Dispatched, KernelSound
    <2>2. d.allThreads = s.allThreads /\ d.threadToBeDestroyed = NoThread
      BY <1>4, ThreadAssumption DEF Dispatched, KernelSound
    <2>3. s.status \in [Thread -> ThreadStatus]
      BY <1>1, KernelFields
    <2>4. \A t \in Thread : d.status[t] = IF t = h THEN "RUNNING" ELSE s.status[t]
      BY <2>1, <2>3
    <2>5. Blocked(d) = Blocked(s)
      BY <2>1, <2>4 DEF Blocked
    <2> QED BY <1>2, <2>2, <2>4, <2>5 DEF KernelSound, d
  <1> QED BY <1>2, <1>3, <1>4

\* Sleep(BLOCKED) blocks the current thread and nobody else.
LEMMA SleepSound ==
    ASSUME NEW s, KernelSound(s), s.status[s.currentThread] = "RUNNING"
    PROVE  /\ KernelSound(Sleep(s, "BLOCKED"))
           /\ Blocked(Sleep(s, "BLOCKED")) = Blocked(s) \cup {s.currentThread}
  <1> DEFINE c == s.currentThread
             f == [s.status EXCEPT ![c] = "BLOCKED"]
             e == [s EXCEPT !.status[s.currentThread] = "BLOCKED"]
  <1>1. /\ s \in Kernel /\ c \in Thread /\ s.status \in [Thread -> ThreadStatus]
    BY KernelFields DEF KernelSound
  <1>2. e \in Kernel /\ e = [s EXCEPT !.status = f]
    BY <1>1 DEF Kernel, ThreadStatus
  <1>3. /\ e.status = f /\ e.readyList = s.readyList /\ e.Priority = s.Priority
        /\ e.currentThread = c /\ e.allThreads = s.allThreads
        /\ e.threadToBeDestroyed = s.threadToBeDestroyed
    BY <1>1, <1>2 DEF Kernel
  <1>4. Sleep(s, "BLOCKED") = Dispatch(e)
    BY DEF Sleep
  <1> HIDE DEF e
  <1>5. \A t \in Thread : e.status[t] = IF t = c THEN "BLOCKED" ELSE s.status[t]
    BY <1>1, <1>3
  <1>6. /\ \A t \in Thread : e.status[t] = "READY" <=> s.status[t] = "READY"
        /\ \A t \in Thread : e.status[t] # "RUNNING"
    BY <1>5 DEF KernelSound, ReadyListExact
  <1>7. ReadyListExact(e)
    BY <1>3, <1>6 DEF KernelSound, ReadyListExact
  <1>8. KernelSound(e)
    BY <1>2, <1>3, <1>5, <1>7 DEF KernelSound
  <1>9. Blocked(e) = Blocked(s) \cup {c}
    BY <1>1, <1>5 DEF Blocked
  <1> QED BY <1>4, <1>6, <1>8, <1>9, DispatchSound

\* ReadyToRun of a blocked thread wakes that thread and nobody else.
LEMMA WakeSound ==
    ASSUME NEW s, KernelSound(s), NEW t \in Blocked(s)
    PROVE  /\ KernelSound(ReadyToRun(s, t))
           /\ Blocked(ReadyToRun(s, t)) = Blocked(s) \ {t}
           /\ \A u \in Thread : ReadyToRun(s, t).status[u] = "RUNNING"
                                <=> s.status[u] = "RUNNING"
  <1> DEFINE r == ReadyToRun(s, t)
  <1>1. s \in Kernel /\ ReadyListExact(s) /\ t \in Thread /\ s.status[t] = "BLOCKED"
    BY DEF KernelSound, Blocked
  <1>2. /\ r \in Kernel /\ ReadyListExact(r)
        /\ r = [s EXCEPT !.needResched = r.needResched,
                         !.status = [s.status EXCEPT ![t] = "READY"],
                         !.readyList = r.readyList]
    BY <1>1, ReadyToRunExact
  <1> HIDE DEF r
  <1>3. /\ r.status = [s.status EXCEPT ![t] = "READY"] /\ r.allThreads = s.allThreads
        /\ r.threadToBeDestroyed = s.threadToBeDestroyed
    BY <1>1, <1>2 DEF Kernel
  <1>4. \A u \in Thread : r.status[u] = IF u = t THEN "READY" ELSE s.status[u]
    BY <1>1, <1>3, KernelFields
  <1> QED BY <1>1, <1>2, <1>3, <1>4 DEF KernelSound, Blocked, r

\* Yield blocks nobody and wakes nobody.
LEMMA YieldSound ==
    ASSUME NEW s, KernelSound(s), s.status[s.currentThread] = "RUNNING"
    PROVE  KernelSound(Yield(s)) /\ Blocked(Yield(s)) = Blocked(s)
  <1> DEFINE c == s.currentThread
             e == [s EXCEPT !.needResched = FALSE]
             r == ReadyToRun(e, c)
  <1>1. s \in Kernel /\ c \in Thread /\ s.status \in [Thread -> ThreadStatus]
    BY KernelFields DEF KernelSound
  <1>2. /\ e \in Kernel /\ e.status = s.status /\ e.readyList = s.readyList
        /\ e.Priority = s.Priority /\ e.currentThread = c
        /\ e.allThreads = s.allThreads /\ e.threadToBeDestroyed = s.threadToBeDestroyed
    BY <1>1 DEF Kernel
  <1>3. Yield(s) = Dispatch(r)
    BY DEF Yield
  <1> HIDE DEF e
  <1>4. ReadyListExact(e) /\ e.status[c] # "READY"
    BY <1>2 DEF KernelSound, ReadyListExact
  <1>5. /\ r \in Kernel /\ ReadyListExact(r)
        /\ r = [e EXCEPT !.needResched = r.needResched,
                         !.status = [e.status EXCEPT ![c] = "READY"],
                         !.readyList = r.readyList]
    BY <1>1, <1>2, <1>4, ReadyToRunExact
  <1> HIDE DEF r
  <1>6. /\ r.status = [s.status EXCEPT ![c] = "READY"] /\ r.allThreads = s.allThreads
        /\ r.threadToBeDestroyed = s.threadToBeDestroyed
    BY <1>2, <1>5, ZenonT(60) DEF Kernel
  <1>7. \A u \in Thread : r.status[u] = IF u = c THEN "READY" ELSE s.status[u]
    BY <1>1, <1>6
  <1>8. \A u \in Thread : r.status[u] # "RUNNING"
    BY <1>7 DEF KernelSound, ReadyListExact
  <1>9. KernelSound(r) /\ Blocked(r) = Blocked(s)
    BY <1>5, <1>6, <1>7 DEF KernelSound, Blocked
  <1> QED BY <1>3, <1>8, <1>9, DispatchSound

-----------------------------------------------------------------------------
(* The semaphore and the lock *)

\* A thread is blocked when, and only when, it is in one of the two queues.
LEMMA BlockedAreQueued ==
    ASSUME TypeOK, KernelSound(k),
           \A t \in Thread : t \in Blocked(k)
                             <=> Contains(sem.queue, t) \/ Contains(lock.queue, t),
           QueuesSound
    PROVE  OnePlace
  BY DEF OnePlace, KernelSound, QueuesSound, Blocked

LEMMA WokenFinite ==
    IsFiniteSet(Woken) /\ Cardinality(Woken) \in Nat
  <1>1. Woken \in SUBSET Thread /\ IsFiniteSet(Thread)
    BY ValueAssumption DEF Woken
  <1> QED BY <1>1, FS_Subset, FS_CardinalityType

LEMMA InitInvariant == Init => IInv
  <1> SUFFICES ASSUME Init PROVE IInv
    OBVIOUS
  <1>0. PICK main \in Thread : \E others \in SetToSeqs(Thread \ {main}) :
          k = [Boot(main) EXCEPT
                 !.status = [t \in Thread |-> IF t = main THEN "RUNNING" ELSE "READY"],
                 !.allThreads = <<main>> \o others,
                 !.readyList = others]
    BY DEF Init
  <1>1. PICK others \in SetToSeqs(Thread \ {main}) :
          k = [Boot(main) EXCEPT
                 !.status = [t \in Thread |-> IF t = main THEN "RUNNING" ELSE "READY"],
                 !.allThreads = <<main>> \o others,
                 !.readyList = others]
    BY <1>0
  <1> DEFINE rest == Thread \ {main}
             n == Cardinality(rest)
  <1>2. IsFiniteSet(rest) /\ n \in Nat
    BY ValueAssumption, FS_Subset, FS_CardinalityType
  <1>3. others \in [1 .. n -> rest] /\ \A i, j \in 1 .. n : i # j => others[i] # others[j]
    BY DEF SetToSeqs
  <1>4. others \in Surjection(1 .. n, rest)
    <2>1. others \in Injection(1 .. n, rest)
      BY <1>3 DEF Injection, IsInjective
    <2>2. Cardinality(1 .. n) = n
      BY <1>2, FS_Interval
    <2> HIDE DEF n, rest
    <2> QED BY <1>2, <2>1, <2>2, FS_Injection DEF n
  <1>5. \A t \in rest : \E i \in 1 .. n : others[i] = t
    BY <1>4 DEF Surjection
  <1> HIDE DEF n, rest
  <1>6. others \in Seq(Thread) /\ Len(others) = n
    <2>1. others \in [1 .. n -> Thread]
      BY <1>3 DEF rest
    <2> QED BY <1>2, <2>1
  <1> DEFINE all == <<main>> \o others
  <1>7. all \in Seq(Thread) /\ Distinct(all)
    <2>1. /\ all \in Seq(Thread) /\ Len(all) = n + 1 /\ all[1] = main
          /\ \A i \in 2 .. n + 1 : all[i] = others[i - 1]
      BY <1>2, <1>6
    <2>2. \A i \in 2 .. n + 1 : i - 1 \in 1 .. n /\ others[i - 1] # main
      BY <1>2, <1>3 DEF rest
    <2> HIDE DEF all
    <2>3. ASSUME NEW i \in 1 .. n + 1, NEW j \in 1 .. n + 1, i < j PROVE all[i] # all[j]
      <3>1. CASE i = 1
        BY <1>2, <2>1, <2>2, <2>3, <3>1
      <3>2. CASE i # 1
        <4>1. i \in 2 .. n + 1 /\ j \in 2 .. n + 1 /\ i - 1 # j - 1
          BY <1>2, <2>3, <3>2
        <4> QED BY <4>1, <2>1, <2>2, <1>3
      <3> QED BY <3>1, <3>2
    <2>4. ASSUME NEW i \in 1 .. Len(all), NEW j \in 1 .. Len(all), i # j
          PROVE  all[i] # all[j]
      <3>1. i < j \/ j < i
        BY <2>4, <2>1, <1>2
      <3> QED BY <3>1, <2>1, <2>3
    <2> QED BY <2>1, <2>4 DEF Distinct
  <1> HIDE DEF all
  <1>8. k = [currentThread |-> main,
             status      |-> [t \in Thread |-> IF t = main THEN "RUNNING" ELSE "READY"],
             Priority    |-> [t \in Thread |-> DefaultPriority],
             readyList   |-> others,
             allThreads  |-> all,
             started     |-> {main},
             threadToBeDestroyed |-> NoThread,
             needResched |-> FALSE,
             halted      |-> FALSE]
    BY <1>1 DEF Boot, all
  <1>9. k \in Kernel
    BY <1>6, <1>7, <1>8, PriorityAssumption DEF Kernel, ThreadStatus, Priority
  <1>10. ReadyListExact(k)
    <2>1. \A t \in Thread : k.status[t] = "READY" <=> Contains(others, t)
      BY <1>3, <1>5, <1>6, <1>8 DEF Contains, rest
    <2>2. \A t \in Thread : k.Priority[t] <= k.Priority[t] /\ k.Priority[t] = DefaultPriority
      BY <1>8, PriorityAssumption
    <2>3. ASSUME NEW i \in 1 .. n, NEW j \in 1 .. n, i < j
          PROVE  others[i] # others[j]
                 /\ k.Priority[others[i]] <= k.Priority[others[j]]
      BY <1>2, <1>3, <2>2, <2>3 DEF rest
    <2> QED BY <1>6, <1>8, <2>1, <2>3 DEF ReadyListExact
  <1>11. KernelSound(k)
    BY <1>7, <1>8, <1>9, <1>10 DEF KernelSound
  <1>12. /\ sem = [value |-> InitialValue, queue |-> <<>>]
         /\ lock = [owner |-> NoThread, queue |-> <<>>]
         /\ pc = [t \in Thread |-> "out"]
    BY DEF Init, FreeLock
  <1>13. TypeOK
    BY <1>9, <1>12, ValueAssumption DEF TypeOK, KernelSemaphore, Lock, Where
  <1>14. QueuesSound /\ \A t : ~Contains(sem.queue, t) /\ ~Contains(lock.queue, t)
    BY <1>12 DEF QueuesSound, Distinct, Contains
  <1>15. Blocked(k) = {}
    BY <1>8 DEF Blocked
  <1>16. OnePlace
    BY <1>11, <1>13, <1>14, <1>15, BlockedAreQueued
  <1>17. MutualExclusion /\ NoLostWakeup
    BY <1>12 DEF MutualExclusion, NoLostWakeup
  <1> QED BY <1>11, <1>13, <1>14, <1>16, <1>17 DEF IInv

\* V adds one to the value and wakes the first sleeper, if there is one.  The
\* handler that called it may then find a thread to run.
LEMMA VStep ==
    ASSUME IInv, KernelSound(k'), Blocked(k') = Blocked(V(k, sem).k),
           sem' = V(k, sem).sem, UNCHANGED <<lock, pc>>
    PROVE  IInv'
  <1>1. /\ sem.value \in Nat /\ sem.queue \in Seq(Thread)
        /\ sem = [value |-> sem.value, queue |-> sem.queue]
        /\ lock' = lock /\ pc' = pc /\ pc \in [Thread -> Where]
        /\ lock \in Lock
    BY DEF IInv, TypeOK, KernelSemaphore
  <1>2. MutualExclusion'
    BY <1>1 DEF IInv, MutualExclusion
  <1>3. k' \in Kernel
    BY DEF KernelSound
  <1>4. CASE sem.queue = <<>>
    <2>1. sem' = [value |-> sem.value + 1, queue |-> <<>>] /\ Blocked(k') = Blocked(k)
      BY <1>1, <1>4 DEF V
    <2>2. TypeOK'
      BY <1>1, <1>3, <2>1 DEF TypeOK, KernelSemaphore
    <2>3. QueuesSound'
      BY <1>1, <1>4, <2>1 DEF IInv, QueuesSound
    <2>4. OnePlace'
      BY <1>1, <1>4, <2>1, <2>3 DEF IInv, OnePlace, KernelSound, Blocked
    <2>5. NoLostWakeup'
      BY <2>1 DEF NoLostWakeup
    <2> QED BY <1>2, <2>2, <2>3, <2>4, <2>5 DEF IInv
  <1>5. CASE sem.queue # <<>>
    <2> DEFINE h == Head(sem.queue)
               q == Tail(sem.queue)
    <2>1. h \in Thread /\ q \in Seq(Thread)
      BY <1>1, <1>5, HeadTailProperties
    <2>2. /\ Contains(sem.queue, h) /\ Distinct(q)
          /\ \A x : Contains(q, x) <=> Contains(sem.queue, x) /\ x # h
      BY <1>1, <1>5, TailContains DEF IInv, QueuesSound
    <2>3. /\ sem' = [value |-> sem.value + 1, queue |-> q]
          /\ Blocked(k') = Blocked(ReadyToRun(k, h))
      BY <1>1, <1>5 DEF V
    <2> HIDE DEF h, q
    <2>4. h \in Blocked(k) /\ pc[h] = "P"
      BY <2>1, <2>2 DEF IInv, OnePlace, QueuesSound, Blocked
    <2>5. Blocked(k') = Blocked(k) \ {h}
      BY <2>3, <2>4, WakeSound DEF IInv
    <2>6. TypeOK'
      BY <1>1, <1>3, <2>1, <2>3 DEF TypeOK, KernelSemaphore
    <2>7. QueuesSound'
      BY <1>1, <2>2, <2>3 DEF IInv, QueuesSound
    <2>8. OnePlace'
      BY <1>1, <2>2, <2>3, <2>4, <2>5, <2>7 DEF IInv, OnePlace, KernelSound, Blocked
    <2>9. NoLostWakeup'
      <3>1. h \notin Woken
        BY <2>2 DEF Woken
      <3>2. Woken' = Woken \cup {h}
        BY <1>1, <2>1, <2>2, <2>3, <2>4 DEF Woken
      <3>3. Cardinality(Woken') = Cardinality(Woken) + 1
        BY <3>1, <3>2, WokenFinite, FS_AddElement
      <3>4. sem.value <= Cardinality(Woken)
        BY <1>5 DEF IInv, NoLostWakeup
      <3> QED BY <1>1, <2>3, <3>3, <3>4, WokenFinite DEF NoLostWakeup
    <2> QED BY <1>2, <2>6, <2>7, <2>8, <2>9 DEF IInv
  <1> QED BY <1>4, <1>5

\* What V leaves of the kernel state.
LEMMA VKernel ==
    ASSUME IInv
    PROVE  /\ KernelSound(V(k, sem).k)
           /\ \A u \in Thread : V(k, sem).k.status[u] = "RUNNING"
                                <=> k.status[u] = "RUNNING"
  <1>1. CASE sem.queue = <<>>
    BY <1>1 DEF V, IInv
  <1>2. CASE sem.queue # <<>>
    <2> DEFINE h == Head(sem.queue)
    <2>1. sem.queue \in Seq(Thread) /\ h \in Thread
      BY <1>2, HeadTailProperties DEF IInv, TypeOK, KernelSemaphore
    <2>2. Contains(sem.queue, h)
      BY <1>2, <2>1, TailContains DEF IInv, QueuesSound
    <2>3. h \in Blocked(k)
      BY <2>1, <2>2 DEF IInv, OnePlace, Blocked
    <2>4. V(k, sem).k = ReadyToRun(k, h)
      BY <1>2 DEF V
    <2> HIDE DEF h
    <2> QED BY <2>3, <2>4, WakeSound DEF IInv
  <1> QED BY <1>1, <1>2

\* P, and another turn of its loop after a wakeup.
LEMMA PStep ==
    ASSUME IInv, NEW t \in Thread, Executing(k, t), pc[t] \in {"out", "P"}, EnterP(t)
    PROVE  IInv'
  <1>1. /\ sem.value \in Nat /\ sem.queue \in Seq(Thread)
        /\ sem = [value |-> sem.value, queue |-> sem.queue]
        /\ lock' = lock /\ pc \in [Thread -> Where] /\ lock \in Lock
    BY DEF IInv, TypeOK, KernelSemaphore, EnterP
  <1>2. /\ t = k.currentThread /\ k.status[t] = "RUNNING"
        /\ ~Contains(sem.queue, t) /\ ~Contains(lock.queue, t)
    BY DEF Executing, IInv, OnePlace
  <1>3. CASE sem.value = 0
    <2> DEFINE q == Append(sem.queue, t)
    <2>1. /\ k' = Sleep(k, "BLOCKED") /\ sem' = [value |-> 0, queue |-> q]
          /\ pc' = [pc EXCEPT ![t] = "P"]
      BY <1>1, <1>2, <1>3 DEF EnterP, TryP
    <2>2. /\ q \in Seq(Thread) /\ Distinct(q)
          /\ \A x : Contains(q, x) <=> x = t \/ Contains(sem.queue, x)
      BY <1>1, <1>2, AppendContains, AppendProperties DEF IInv, QueuesSound
    <2>3. KernelSound(k') /\ Blocked(k') = Blocked(k) \cup {t}
      BY <1>2, <2>1, SleepSound DEF IInv
    <2> HIDE DEF q
    <2>4. TypeOK'
      BY <1>1, <2>1, <2>2, <2>3 DEF TypeOK, KernelSemaphore, KernelSound, Where
    <2>5. QueuesSound'
      BY <1>1, <1>2, <2>1, <2>2 DEF IInv, QueuesSound
    <2>6. OnePlace'
      BY <1>1, <1>2, <2>1, <2>2, <2>3, <2>5 DEF IInv, OnePlace, KernelSound, Blocked
    <2>7. MutualExclusion'
      BY <1>1, <2>1 DEF IInv, MutualExclusion
    <2>8. NoLostWakeup'
      <3>1. (IsFiniteSet(Woken) /\ Cardinality(Woken) \in Nat)'
        <4>1. (Woken \in SUBSET Thread)' /\ IsFiniteSet(Thread)
          BY ValueAssumption DEF Woken
        <4> QED BY <4>1, FS_Subset, FS_CardinalityType
      <3> QED BY <2>1, <3>1 DEF NoLostWakeup
    <2> QED BY <2>3, <2>4, <2>5, <2>6, <2>7, <2>8 DEF IInv
  <1>4. CASE sem.value # 0
    <2>1. /\ k' = k /\ sem' = [value |-> sem.value - 1, queue |-> sem.queue]
          /\ pc' = [pc EXCEPT ![t] = "out"]
      BY <1>1, <1>4 DEF EnterP, TryP
    <2>2. TypeOK' /\ KernelSound(k')
      BY <1>1, <1>4, <2>1 DEF TypeOK, KernelSemaphore, IInv, Where
    <2>3. QueuesSound'
      BY <1>1, <1>2, <2>1 DEF IInv, QueuesSound
    <2>4. OnePlace'
      BY <1>1, <2>1 DEF IInv, OnePlace
    <2>5. MutualExclusion'
      BY <1>1, <2>1 DEF IInv, MutualExclusion
    <2>6. NoLostWakeup'
      <3>1. Woken' = Woken \ {t}
        BY <1>1, <2>1 DEF Woken
      <3>2. Cardinality(Woken') >= Cardinality(Woken) - 1
        BY <3>1, WokenFinite, FS_RemoveElement
      <3>3. Cardinality(Woken') \in Nat
        BY <3>1, WokenFinite, FS_RemoveElement, FS_CardinalityType
      <3> QED BY <1>1, <2>1, <3>2, <3>3, WokenFinite DEF IInv, NoLostWakeup
    <2> QED BY <2>2, <2>3, <2>4, <2>5, <2>6 DEF IInv
  <1> QED BY <1>3, <1>4

\* Acquire, and another turn of its loop after a wakeup.
LEMMA AcquireStep ==
    ASSUME IInv, NEW t \in Thread, Executing(k, t), pc[t] \in {"out", "Acquire"},
           EnterAcquire(t)
    PROVE  IInv'
  <1>1. /\ lock.owner \in Thread \cup {NoThread} /\ lock.queue \in Seq(Thread)
        /\ lock = [owner |-> lock.owner, queue |-> lock.queue]
        /\ sem' = sem /\ pc \in [Thread -> Where] /\ sem \in KernelSemaphore
    BY DEF IInv, TypeOK, Lock, EnterAcquire
  <1>2. /\ t = k.currentThread /\ k.status[t] = "RUNNING"
        /\ ~Contains(sem.queue, t) /\ ~Contains(lock.queue, t)
    BY DEF Executing, IInv, OnePlace
  <1>3. CASE lock.owner # NoThread
    <2> DEFINE q == Append(lock.queue, t)
    <2>1. /\ k' = Sleep(k, "BLOCKED") /\ lock' = [owner |-> lock.owner, queue |-> q]
          /\ pc' = [pc EXCEPT ![t] = "Acquire"]
      BY <1>1, <1>2, <1>3 DEF EnterAcquire, TryAcquire
    <2>2. /\ q \in Seq(Thread) /\ Distinct(q)
          /\ \A x : Contains(q, x) <=> x = t \/ Contains(lock.queue, x)
      BY <1>1, <1>2, AppendContains, AppendProperties DEF IInv, QueuesSound
    <2>3. KernelSound(k') /\ Blocked(k') = Blocked(k) \cup {t}
      BY <1>2, <2>1, SleepSound DEF IInv
    <2> HIDE DEF q
    <2>4. TypeOK'
      BY <1>1, <2>1, <2>2, <2>3 DEF TypeOK, Lock, KernelSound, Where
    <2>5. QueuesSound'
      BY <1>1, <1>2, <2>1, <2>2 DEF IInv, QueuesSound
    <2>6. OnePlace'
      BY <1>1, <1>2, <2>1, <2>2, <2>3, <2>5 DEF IInv, OnePlace, KernelSound, Blocked
    <2>7. MutualExclusion'
      BY <1>1, <1>3, <2>1 DEF IInv, MutualExclusion
    <2>8. Woken' = Woken
      BY <1>1, <2>1 DEF Woken
    <2> QED BY <1>1, <2>3, <2>4, <2>5, <2>6, <2>7, <2>8 DEF IInv, NoLostWakeup
  <1>4. CASE lock.owner = NoThread
    <2>1. /\ k' = k /\ lock' = [owner |-> t, queue |-> lock.queue]
          /\ pc' = [pc EXCEPT ![t] = "in"]
      BY <1>1, <1>2, <1>4 DEF EnterAcquire, TryAcquire
    <2>2. TypeOK' /\ KernelSound(k')
      BY <1>1, <2>1 DEF TypeOK, Lock, IInv, Where
    <2>3. QueuesSound'
      BY <1>1, <1>2, <2>1 DEF IInv, QueuesSound
    <2>4. OnePlace'
      BY <1>1, <2>1 DEF IInv, OnePlace
    <2>5. MutualExclusion'
      BY <1>1, <1>4, <2>1, ThreadAssumption DEF IInv, MutualExclusion
    <2>6. Woken' = Woken
      BY <1>1, <2>1 DEF Woken
    <2> QED BY <1>1, <2>2, <2>3, <2>4, <2>5, <2>6 DEF IInv, NoLostWakeup
  <1> QED BY <1>3, <1>4

\* Release hands the lock to the first waiter, if there is one.
LEMMA ReleaseStep ==
    ASSUME IInv, NEW t \in Thread, ThreadRelease(t)
    PROVE  IInv'
  <1>1. /\ lock.owner \in Thread \cup {NoThread} /\ lock.queue \in Seq(Thread)
        /\ lock = [owner |-> lock.owner, queue |-> lock.queue]
        /\ sem' = sem /\ pc \in [Thread -> Where] /\ sem \in KernelSemaphore
        /\ pc[t] = "in" /\ pc' = [pc EXCEPT ![t] = "out"]
    BY DEF IInv, TypeOK, Lock, ThreadRelease
  <1>2. \A u \in Thread : pc'[u] # "in"
    BY <1>1 DEF IInv, MutualExclusion
  <1>3. Woken' = Woken
    BY <1>1 DEF Woken
  <1>4. CASE lock.queue = <<>>
    <2>1. k' = k /\ lock' = [owner |-> NoThread, queue |-> <<>>]
      BY <1>1, <1>4 DEF ThreadRelease, Release
    <2>2. TypeOK' /\ KernelSound(k')
      BY <1>1, <2>1 DEF TypeOK, Lock, IInv, Where
    <2>3. QueuesSound'
      BY <1>1, <1>4, <2>1 DEF IInv, QueuesSound
    <2>4. OnePlace'
      BY <1>1, <1>4, <2>1 DEF IInv, OnePlace
    <2>5. MutualExclusion'
      BY <1>2, <2>1 DEF MutualExclusion
    <2> QED BY <1>1, <1>3, <2>2, <2>3, <2>4, <2>5 DEF IInv, NoLostWakeup
  <1>5. CASE lock.queue # <<>>
    <2> DEFINE h == Head(lock.queue)
               q == Tail(lock.queue)
    <2>1. h \in Thread /\ q \in Seq(Thread)
      BY <1>1, <1>5, HeadTailProperties
    <2>2. /\ Contains(lock.queue, h) /\ Distinct(q)
          /\ \A x : Contains(q, x) <=> Contains(lock.queue, x) /\ x # h
      BY <1>1, <1>5, TailContains DEF IInv, QueuesSound
    <2>3. k' = ReadyToRun(k, h) /\ lock' = [owner |-> h, queue |-> q]
      BY <1>1, <1>5 DEF ThreadRelease, Release
    <2> HIDE DEF h, q
    <2>4. h \in Blocked(k) /\ pc[h] = "Acquire"
      BY <2>1, <2>2 DEF IInv, OnePlace, QueuesSound, Blocked
    <2>5. KernelSound(k') /\ Blocked(k') = Blocked(k) \ {h}
      BY <2>3, <2>4, WakeSound DEF IInv
    <2>6. TypeOK'
      BY <1>1, <2>1, <2>3, <2>5 DEF TypeOK, Lock, KernelSound, Where
    <2>7. QueuesSound'
      BY <1>1, <2>2, <2>3 DEF IInv, QueuesSound
    <2>8. OnePlace'
      BY <1>1, <2>2, <2>3, <2>4, <2>5, <2>7 DEF IInv, OnePlace, KernelSound, Blocked
    <2>9. MutualExclusion'
      BY <1>2, <2>1, <2>3, ThreadAssumption DEF MutualExclusion
    <2> QED BY <1>1, <1>3, <2>5, <2>6, <2>7, <2>8, <2>9 DEF IInv, NoLostWakeup
  <1> QED BY <1>4, <1>5

\* A scheduling decision concerns neither the semaphore nor the lock.
LEMMA PreemptStep ==
    ASSUME IInv, NEW t \in Thread, Preempt(t)
    PROVE  IInv'
  <1>1. /\ sem' = sem /\ lock' = lock /\ pc' = pc /\ k' = Yield(k)
        /\ k.status[k.currentThread] = "RUNNING"
    BY DEF Preempt, Executing
  <1>2. KernelSound(k') /\ Blocked(k') = Blocked(k)
    BY <1>1, YieldSound DEF IInv
  <1>3. TypeOK' /\ QueuesSound'
    BY <1>1, <1>2 DEF IInv, TypeOK, KernelSound, QueuesSound
  <1>4. OnePlace'
    BY <1>1, <1>2, <1>3 DEF IInv, OnePlace, KernelSound, Blocked
  <1>5. Woken' = Woken
    BY <1>1 DEF Woken
  <1> QED BY <1>1, <1>2, <1>3, <1>4, <1>5 DEF IInv, MutualExclusion, NoLostWakeup

\* The handler's V, while a thread runs or while the machine idles.
LEMMA InterruptStep ==
    ASSUME IInv, InterruptV
    PROVE  IInv'
  <1> DEFINE r == V(k, sem)
  <1>1. sem' = r.sem /\ UNCHANGED <<lock, pc>>
        /\ (k' = r.k \/ (Idling(k) /\ k' = Dispatch(r.k)))
    BY DEF InterruptV
  <1>2. KernelSound(r.k)
    BY VKernel
  <1>3. CASE k' = r.k
    BY <1>1, <1>2, <1>3, VStep
  <1>4. CASE Idling(k) /\ k' = Dispatch(r.k)
    <2>1. \A u \in Thread : k.status[u] # "RUNNING"
      BY <1>4 DEF Idling, IInv, OnePlace, ReadyListExact
    <2>2. \A u \in Thread : r.k.status[u] # "RUNNING"
      BY <2>1, VKernel
    <2>3. KernelSound(k') /\ Blocked(k') = Blocked(r.k)
      BY <1>2, <1>4, <2>2, DispatchSound
    <2> QED BY <1>1, <2>3, VStep
  <1> QED BY <1>1, <1>3, <1>4

LEMMA StepInvariant == IInv /\ [Next]_vars => IInv'
  <1> SUFFICES ASSUME IInv, [Next]_vars PROVE IInv'
    OBVIOUS
  <1>1. ASSUME NEW t \in Thread, P(t) \/ ResumeP(t) PROVE IInv'
    <2>1. Executing(k, t) /\ pc[t] \in {"out", "P"} /\ EnterP(t)
      BY <1>1 DEF P, ResumeP, MayProceed
    <2> QED BY <2>1, PStep
  <1>2. ASSUME NEW t \in Thread, ThreadV(t) PROVE IInv'
    <2>1. k' = V(k, sem).k /\ sem' = V(k, sem).sem /\ UNCHANGED <<lock, pc>>
      BY <1>2 DEF ThreadV
    <2> QED BY <2>1, VKernel, VStep
  <1>3. ASSUME NEW t \in Thread, Acquire(t) \/ ResumeAcquire(t) PROVE IInv'
    <2>1. Executing(k, t) /\ pc[t] \in {"out", "Acquire"} /\ EnterAcquire(t)
      BY <1>3 DEF Acquire, ResumeAcquire, MayProceed
    <2> QED BY <2>1, AcquireStep
  <1>4. CASE UNCHANGED vars
    BY <1>4 DEF vars, IInv, TypeOK, QueuesSound, OnePlace, MutualExclusion,
                NoLostWakeup, Woken
  <1> QED BY <1>1, <1>2, <1>3, <1>4, ReleaseStep, PreemptStep, InterruptStep DEF Next

-----------------------------------------------------------------------------
(* Theorems *)

\* The inductive invariant holds after any interleaving of P, V, Acquire,
\* Release, interrupts and preemptions by any number of threads.
THEOREM Invariance == Spec => []IInv
  BY InitInvariant, StepInvariant, PTL DEF Spec

\* The kernel, the semaphore and the lock keep their declared shapes, so that
\* P never takes the semaphore's value below zero.
THEOREM TypeCorrect == Spec => []TypeOK
  <1>1. IInv => TypeOK
    BY DEF IInv
  <1> QED BY <1>1, Invariance, PTL

\* However P, V, interrupts and scheduling decisions interleave, while threads
\* sleep in P every unit of the semaphore is matched by a woken thread.
THEOREM WakeupsCorrect == Spec => []NoLostWakeup
  <1>1. IInv => NoLostWakeup
    BY DEF IInv
  <1> QED BY <1>1, Invariance, PTL

\* No thread is ever in two queues, in one twice, or asleep in none; the ready
\* list is exact and in order of priority.
THEOREM PlacesCorrect == Spec => []OnePlace
  <1>1. IInv => OnePlace
    BY DEF IInv
  <1> QED BY <1>1, Invariance, PTL

\* Acquire has returned for at most one thread that has not released, and
\* nobody waits for a lock that nobody owns.
THEOREM LockCorrect == Spec => []MutualExclusion
  <1>1. IInv => MutualExclusion
    BY DEF IInv
  <1> QED BY <1>1, Invariance, PTL

=============================================================================
