----------------------------- MODULE Scheduler -----------------------------
(***************************************************************************)
(* Threads and the scheduler: the thread control blocks, the ready list,   *)
(* the current thread, and what Scheduler, Thread::Yield, Thread::Sleep    *)
(* and Thread::Finish do to them.  The module has no variables: its        *)
(* operators take a kernel state k, a record, and return the next one; the *)
(* modules that model the callers (semaphores and locks, system calls)     *)
(* keep k in a variable.                                                   *)
(*                                                                         *)
(* Nachos is a uniprocessor, and a context switch happens only where       *)
(* Interrupt::OneTick runs: when interrupts are re-enabled, and after each *)
(* instruction of a user program.  The code between two such points is one *)
(* atomic step.  At such a point the current thread yields if somebody     *)
(* asked for a scheduling decision (needResched), and may yield anyway,    *)
(* since the scheduling timer's interrupt may be due.                      *)
(***************************************************************************)
EXTENDS Integers, Sequences, SequencesExt

CONSTANTS
    Thread,          \* thread objects
    NoThread,        \* NULL
    MaxPriority,     \* priorities are 0 .. MaxPriority (40 in the code)
    DefaultPriority  \* priority of a new thread (20 in the code)

ASSUME ThreadAssumption == NoThread \notin Thread

ASSUME PriorityAssumption ==
    /\ MaxPriority \in Nat
    /\ DefaultPriority \in 0 .. MaxPriority

Priority == 0 .. MaxPriority

\* "ABSENT" is not a status of the code: there is no such thread object.
ThreadStatus == {"ABSENT", "JUST_CREATED", "RUNNING", "READY", "BLOCKED", "ZOMBIE"}

Kernel ==
    [currentThread : Thread,
     status      : [Thread -> ThreadStatus],
     Priority    : [Thread -> Priority],
     readyList   : Seq(Thread),
     allThreads  : Seq(Thread),
     started     : SUBSET Thread,      \* threads that have run before
     threadToBeDestroyed : Thread \cup {NoThread},
     needResched : BOOLEAN,
     halted      : BOOLEAN]

\* Initialize: the thread Nachos starts in, and no other.
Boot(main) ==
    [currentThread |-> main,
     status      |-> [t \in Thread |-> IF t = main THEN "RUNNING" ELSE "ABSENT"],
     Priority    |-> [t \in Thread |-> DefaultPriority],
     readyList   |-> <<>>,
     allThreads  |-> <<main>>,
     started     |-> {main},
     threadToBeDestroyed |-> NoThread,
     needResched |-> FALSE,
     halted      |-> FALSE]

-----------------------------------------------------------------------------

\* The list of existing threads, which FindNextToRun counts.
addToList(list, t) == Append(list, t)

removeFromList(list, t) == RemoveFirst(list, t)

\* The Thread constructor: the object exists, and is in the list of threads.
NewThread(k, t) ==
    [k EXCEPT !.status[t] = "JUST_CREATED",
              !.Priority[t] = DefaultPriority,
              !.allThreads = addToList(@, t)]

\* The Thread destructor; with no thread nothing happens.
Delete(k, t) ==
    IF t = NoThread THEN k
    ELSE [k EXCEPT !.status[t] = "ABSENT",
                   !.started = @ \ {t},
                   !.allThreads = removeFromList(@, t)]

\* t1 is to run before t2: the smaller number is the better priority.
ThreadOrder(prio, t1, t2) == prio[t1] < prio[t2]

\* Mutant of Position: the thread goes to the end of the list.
PositionAtEnd(list, prio, t) == Len(list) + 1

\* Where SortedList::Insert puts t: before the first element that ThreadOrder
\* says t precedes, and after those of equal priority.
Position(list, prio, t) ==
    CHOOSE i \in 1 .. Len(list) + 1 :
        /\ \A j \in 1 .. i - 1 : ~ThreadOrder(prio, t, list[j])
        /\ i <= Len(list) => ThreadOrder(prio, t, list[i])

ReadyToRun(k, t) ==
    [k EXCEPT !.needResched = @ \/ t # k.currentThread,
              !.status[t] = "READY",
              !.readyList = InsertAt(@, Position(@, k.Priority, t), t)]

\* Run(next), up to where next continues.  A thread that ran before continues
\* inside its own call of Run and deletes the carcass of a finished thread; a
\* new one starts in ThreadRoot, which does not.
Run(k, next) ==
    LET s == [k EXCEPT !.currentThread = next,
                       !.status[next] = "RUNNING",
                       !.started = @ \cup {next}]
    IN  IF next \in k.started
        THEN [Delete(s, s.threadToBeDestroyed) EXCEPT
                !.threadToBeDestroyed = NoThread]
        ELSE s

\* All threads have run to completion: one is left, and it is a zombie.
AllDone(k) ==
    Len(k.allThreads) = 1 /\ k.status[k.allThreads[1]] = "ZOMBIE"

\* FindNextToRun, and Run on what it returns.  With an empty ready list the
\* caller goes on idling in Sleep's loop.
Dispatch(k) ==
    IF AllDone(k) THEN [k EXCEPT !.halted = TRUE]
    ELSE IF k.readyList = <<>> THEN k
    ELSE Run([k EXCEPT !.readyList = Tail(@)], Head(k.readyList))

\* Thread::Sleep by the current thread.
Sleep(k, newstatus) == Dispatch([k EXCEPT !.status[k.currentThread] = newstatus])

\* Thread::Finish.
Finish(k) == Sleep([k EXCEPT !.threadToBeDestroyed = k.currentThread], "ZOMBIE")

\* The current thread yields inside OneTick.
Yield(k) == Dispatch(ReadyToRun([k EXCEPT !.needResched = FALSE], k.currentThread))

Prioritize(k, inc) ==
    LET p == k.Priority[k.currentThread] + inc
    IN  [k EXCEPT !.Priority[k.currentThread] =
            IF p < 0 THEN 0 ELSE IF p > MaxPriority THEN MaxPriority ELSE p]

\* The current thread is asleep in Sleep's loop, with nobody to run.
Idling(k) == k.status[k.currentThread] # "RUNNING"

\* t executes: it has the processor and the machine has not stopped.
Executing(k, t) ==
    k.currentThread = t /\ k.status[t] = "RUNNING" /\ ~k.halted

\* t executes and has passed a tick without having to yield.
MayProceed(k, t) == Executing(k, t) /\ ~k.needResched

-----------------------------------------------------------------------------
(* Properties of a kernel state *)

\* The ready list holds every READY thread once and nothing else, best priority
\* first, and at most the current thread is RUNNING: no thread is lost by the
\* scheduler, none can be given the processor twice.
ReadyListExact(k) ==
    /\ \A t \in Thread : k.status[t] = "READY" <=> Contains(k.readyList, t)
    /\ \A i, j \in 1 .. Len(k.readyList) :
          i < j => /\ k.readyList[i] # k.readyList[j]
                   /\ k.Priority[k.readyList[i]] <= k.Priority[k.readyList[j]]
    /\ \A t \in Thread : k.status[t] = "RUNNING" => t = k.currentThread

=============================================================================
