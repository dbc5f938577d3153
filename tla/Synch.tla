------------------------------- MODULE Synch -------------------------------
(***************************************************************************)
(* The synchronization routines of threads/synch.cc as operators: a call   *)
(* by the current thread takes the kernel state k and the semaphore or     *)
(* lock to their next values.  Each runs with interrupts disabled, so it   *)
(* is atomic except where it calls Thread::Sleep; a thread that wakes up   *)
(* there goes round the loop of P or Acquire once more, still with         *)
(* interrupts disabled.                                                    *)
(***************************************************************************)
EXTENDS Scheduler

KernelSemaphore == [value : Nat, queue : Seq(Thread)]

Lock == [owner : Thread \cup {NoThread}, queue : Seq(Thread)]

FreeLock == [owner |-> NoThread, queue |-> <<>>]

-----------------------------------------------------------------------------

\* Mutant of TryP: the value is taken without being looked at.
TryPUnchecked(k, sem) ==
    [through |-> TRUE, k |-> k, sem |-> [sem EXCEPT !.value = @ - 1]]

\* Once round the loop of P: through says whether P returns, or the thread is
\* asleep in it.
TryP(k, sem) ==
    IF sem.value = 0
    THEN [through |-> FALSE, k |-> Sleep(k, "BLOCKED"),
          sem |-> [sem EXCEPT !.queue = Append(@, k.currentThread)]]
    ELSE [through |-> TRUE, k |-> k, sem |-> [sem EXCEPT !.value = @ - 1]]

\* Mutant of V: a waiter is woken only when the value was zero.
VWakesAtZero(k, sem) ==
    IF sem.queue = <<>> \/ sem.value > 0
    THEN [k |-> k, sem |-> [sem EXCEPT !.value = @ + 1]]
    ELSE [k |-> ReadyToRun(k, Head(sem.queue)),
          sem |-> [sem EXCEPT !.value = @ + 1, !.queue = Tail(@)]]

V(k, sem) ==
    IF sem.queue = <<>>
    THEN [k |-> k, sem |-> [sem EXCEPT !.value = @ + 1]]
    ELSE [k |-> ReadyToRun(k, Head(sem.queue)),
          sem |-> [sem EXCEPT !.value = @ + 1, !.queue = Tail(@)]]

\* Mutant of TryAcquire: a thread that finds the lock busy takes it anyway.
TakeBusy(k, lock) ==
    [through |-> TRUE, k |-> k, lock |-> [lock EXCEPT !.owner = k.currentThread]]

\* Once round the loop of Acquire.
TryAcquire(k, lock) ==
    IF lock.owner # NoThread
    THEN [through |-> FALSE, k |-> Sleep(k, "BLOCKED"),
          lock |-> [lock EXCEPT !.queue = Append(@, k.currentThread)]]
    ELSE [through |-> TRUE, k |-> k,
          lock |-> [lock EXCEPT !.owner = k.currentThread]]

\* Mutant of Release: the waiter is taken off the queue but not woken.
ReleaseNoWakeup(k, lock) ==
    IF lock.queue = <<>>
    THEN [k |-> k, lock |-> [lock EXCEPT !.owner = NoThread]]
    ELSE [k |-> k, lock |-> [owner |-> Head(lock.queue), queue |-> Tail(lock.queue)]]

\* The first waiter, if any, is made the owner and woken.
Release(k, lock) ==
    IF lock.queue = <<>>
    THEN [k |-> k, lock |-> [lock EXCEPT !.owner = NoThread]]
    ELSE [k |-> ReadyToRun(k, Head(lock.queue)),
          lock |-> [owner |-> Head(lock.queue), queue |-> Tail(lock.queue)]]

=============================================================================
