----------------------------- MODULE Contention -----------------------------
(***************************************************************************)
(* Kernel threads that use one semaphore and one lock in any order, and a  *)
(* device whose interrupt handler does V (as the handlers of the console,  *)
(* the disk and the network do).                                           *)
(***************************************************************************)
EXTENDS Synch, FiniteSets

CONSTANTS
    InitialValue,    \* initial value of the semaphore
    MaxValue         \* bound: nobody does V at this value

ASSUME ValueAssumption ==
    /\ Thread # {} /\ IsFiniteSet(Thread)
    /\ InitialValue \in Nat /\ MaxValue \in Nat

VARIABLES
    k,        \* kernel state
    sem,      \* the semaphore
    lock,     \* the lock
    pc        \* where each thread is: see Where

vars == <<k, sem, lock, pc>>

\* "out": outside the routines, without the lock; "in": outside, holding the
\* lock; "P": inside P, at the head of its loop; "Acquire": inside Acquire.
Where == {"out", "in", "P", "Acquire"}

-----------------------------------------------------------------------------

\* All threads exist, one is running and the others wait for the processor.
Init ==
    /\ \E main \in Thread : \E others \in SetToSeqs(Thread \ {main}) :
          k = [Boot(main) EXCEPT
                 !.status = [t \in Thread |-> IF t = main THEN "RUNNING" ELSE "READY"],
                 !.allThreads = <<main>> \o others,
                 !.readyList = others]
    /\ sem = [value |-> InitialValue, queue |-> <<>>]
    /\ lock = FreeLock
    /\ pc = [t \in Thread |-> "out"]

\* A call of P, or another turn of its loop.
EnterP(t) ==
    LET r == TryP(k, sem)
    IN  /\ k' = r.k
        /\ sem' = r.sem
        /\ pc' = [pc EXCEPT ![t] = IF r.through THEN "out" ELSE "P"]
        /\ UNCHANGED lock

P(t) == MayProceed(k, t) /\ pc[t] = "out" /\ EnterP(t)

ResumeP(t) == Executing(k, t) /\ pc[t] = "P" /\ EnterP(t)

ThreadV(t) ==
    LET r == V(k, sem)
    IN  /\ MayProceed(k, t) /\ pc[t] \in {"out", "in"}
        /\ sem.value < MaxValue
        /\ k' = r.k
        /\ sem' = r.sem
        /\ UNCHANGED <<lock, pc>>

\* A call of Acquire, or another turn of its loop.
EnterAcquire(t) ==
    LET r == TryAcquire(k, lock)
    IN  /\ k' = r.k
        /\ lock' = r.lock
        /\ pc' = [pc EXCEPT ![t] = IF r.through THEN "in" ELSE "Acquire"]
        /\ UNCHANGED sem

Acquire(t) == MayProceed(k, t) /\ pc[t] = "out" /\ EnterAcquire(t)

ResumeAcquire(t) == Executing(k, t) /\ pc[t] = "Acquire" /\ EnterAcquire(t)

\* "By convention, only the thread that acquired the lock may release it."
ThreadRelease(t) ==
    LET r == Release(k, lock)
    IN  /\ MayProceed(k, t) /\ pc[t] = "in"
        /\ k' = r.k
        /\ lock' = r.lock
        /\ pc' = [pc EXCEPT ![t] = "out"]
        /\ UNCHANGED sem

\* A tick at which t gives up the processor.
Preempt(t) ==
    /\ Executing(k, t) /\ pc[t] \in {"out", "in"}
    /\ k' = Yield(k)
    /\ UNCHANGED <<sem, lock, pc>>

\* A device interrupt while a thread executes with interrupts enabled, or while
\* the machine idles; in the second case Sleep's loop looks for a thread again.
InterruptV ==
    LET r == V(k, sem)
    IN  /\ sem.value < MaxValue
        /\ \/ Executing(k, k.currentThread) /\ pc[k.currentThread] \in {"out", "in"}
              /\ k' = r.k
           \/ Idling(k) /\ k' = Dispatch(r.k)
        /\ sem' = r.sem
        /\ UNCHANGED <<lock, pc>>

Next ==
    \/ \E t \in Thread : P(t)
    \/ \E t \in Thread : ResumeP(t)
    \/ \E t \in Thread : ThreadV(t)
    \/ \E t \in Thread : Acquire(t)
    \/ \E t \in Thread : ResumeAcquire(t)
    \/ \E t \in Thread : ThreadRelease(t)
    \/ \E t \in Thread : Preempt(t)
    \/ InterruptV

Spec == Init /\ [][Next]_vars

\* A thread inside P or Acquire runs on when it has the processor, a thread
\* that holds the lock releases it in the end, and the scheduling timer goes
\* on interrupting whoever runs.  Nobody has to do V, nor to call P or Acquire.
Fairness ==
    /\ \A t \in Thread : WF_vars(ResumeP(t)) /\ WF_vars(ResumeAcquire(t))
    /\ \A t \in Thread : SF_vars(ThreadRelease(t))
    /\ SF_vars(\E t \in Thread : Preempt(t))

FairSpec == Spec /\ Fairness

-----------------------------------------------------------------------------
(* Properties *)

\* Threads taken off the semaphore's queue that have not looked at its value.
Woken == {t \in Thread : pc[t] = "P" /\ ~Contains(sem.queue, t)}

\* Every part of the state has the shape the code declares; in particular the
\* semaphore's value is never negative.
TypeOK ==
    /\ k \in Kernel
    /\ sem \in KernelSemaphore
    /\ lock \in Lock
    /\ pc \in [Thread -> Where]

\* No lost wakeup: while threads sleep in P, every unit of the semaphore's
\* value is matched by a thread already woken to take it, although woken
\* threads compete with newcomers and with each other.
NoLostWakeup == sem.queue # <<>> => sem.value <= Cardinality(Woken)

\* Every thread waits in one place: asleep in exactly one queue, or on the
\* ready list once, or running.
OnePlace ==
    /\ ReadyListExact(k)
    /\ \A t \in Thread :
          /\ k.status[t] = "BLOCKED" <=> Contains(sem.queue, t) \/ Contains(lock.queue, t)
          /\ ~(Contains(sem.queue, t) /\ Contains(lock.queue, t))

\* A thread for which Acquire has returned is the owner until it releases, so
\* no two threads hold the lock; a lock nobody owns has nobody waiting.
MutualExclusion ==
    /\ \A t \in Thread : pc[t] = "in" => lock.owner = t
    /\ lock.owner = NoThread => lock.queue = <<>>

\* While the semaphore is positive its sleepers do not sleep on for ever: the
\* value is used up, or everybody has been woken.
SemaphoreProgress ==
    (sem.value > 0 /\ sem.queue # <<>>) ~> (sem.value = 0 \/ sem.queue = <<>>)

\* "Acquire -- wait until the lock is FREE, then set it to BUSY" and "Release
\* -- set lock to be FREE, waking up a thread waiting in Acquire if necessary"
\* (synch.h:64-67): when every holder releases, every Acquire returns.
AcquireReturns ==
    \A t \in Thread : pc[t] = "Acquire" ~> pc[t] = "in"

=============================================================================
