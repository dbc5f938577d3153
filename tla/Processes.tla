----------------------------- MODULE Processes -----------------------------
(***************************************************************************)
(* The life of user processes: the Fork, Wait, Exit, Nice and Yield system *)
(* calls over the scheduler and the semaphore ChildExited on which a       *)
(* parent waits.  A process is a thread with an address space.             *)
(*                                                                         *)
(* The delicate part is who deletes an exited process.  A child announces  *)
(* itself to its parent with V and may lose the processor right there,     *)
(* before it has become a ZOMBIE: a parent that reaps it then must not     *)
(* delete it, and instead tells it (thread_exit_status) to have itself     *)
(* deleted by the next thread that runs.                                   *)
(***************************************************************************)
EXTENDS Synch, FiniteSets

CONSTANTS
    Root,         \* the thread Nachos starts in, running the first program
    NiceRange     \* increments passed to Nice

ASSUME RootAssumption == Root \in Thread /\ NiceRange \subseteq Int

VARIABLES
    k,       \* kernel state
    proc,    \* the process part of each thread object: see Process
    born     \* threads ever created; an identifier is used once

vars == <<k, proc, born>>

\* pc, where the process is: "user", in its program; "P", inside P called by
\* System_Wait; "reap", P has returned; "notify", in System_Exit with all its
\* children waited for; "check", V has returned; "gone", it never runs again.
Process ==
    [pc : {"user", "P", "reap", "notify", "check", "gone"},
     exiting   : BOOLEAN,          \* System_Wait was called by System_Exit
     ParentPtr : Thread \cup {NoThread},
     Children  : Nat,
     ChildList : Seq(Thread),
     ChildExited : KernelSemaphore,
     thread_exit_status : BOOLEAN]

\* The process fields of a new thread whose parent is p.
NewProcess(p) ==
    [pc |-> "user", exiting |-> FALSE, ParentPtr |-> p, Children |-> 0,
     ChildList |-> <<>>, ChildExited |-> [value |-> 0, queue |-> <<>>],
     thread_exit_status |-> FALSE]

\* The children functions of a thread object: a child is counted by Fork, put
\* on the list by its own Exit, and taken off list and count by Wait.
Add_Child(process) == [process EXCEPT !.Children = @ + 1]

Queue_Child(process, c) == [process EXCEPT !.ChildList = Append(@, c)]

Remove_Child(process) ==
    [process EXCEPT !.ChildList = Tail(@), !.Children = @ - 1]

-----------------------------------------------------------------------------

Init ==
    /\ k = Boot(Root)
    /\ proc = [p \in Thread |-> NewProcess(NoThread)]
    /\ born = {Root}

InProgram(p) == MayProceed(k, p) /\ proc[p].pc = "user"

\* System_Fork.
Fork(p, c) ==
    /\ InProgram(p)
    /\ c \notin born
    /\ k' = ReadyToRun(NewThread(k, c), c)
    /\ proc' = [proc EXCEPT ![p] = Add_Child(@), ![c] = NewProcess(p)]
    /\ born' = born \cup {c}

\* System_Wait up to P; without children it returns -ECHILD at once.
Wait(p) ==
    /\ InProgram(p)
    /\ proc[p].Children > 0
    /\ proc' = [proc EXCEPT ![p].pc = "P"]
    /\ UNCHANGED <<k, born>>

\* Mutant of Exit: children are not waited for.
ExitAtOnce(p) ==
    /\ InProgram(p)
    /\ proc' = [proc EXCEPT ![p].exiting = TRUE, ![p].pc = "notify"]
    /\ UNCHANGED <<k, born>>

\* System_Exit up to its first System_Wait, or up to the end of its loop.
Exit(p) ==
    /\ InProgram(p)
    /\ proc' = [proc EXCEPT ![p].exiting = TRUE,
                  ![p].pc = IF proc[p].Children > 0 THEN "P" ELSE "notify"]
    /\ UNCHANGED <<k, born>>

\* Once round the loop of P on ChildExited.
WaitP(p) ==
    LET r == TryP(k, proc[p].ChildExited)
    IN  /\ Executing(k, p) /\ proc[p].pc = "P"
        /\ k' = r.k
        /\ proc' = [proc EXCEPT ![p].ChildExited = r.sem,
                      ![p].pc = IF r.through THEN "reap" ELSE "P"]
        /\ UNCHANGED born

\* Mutant of Reap: the child is deleted whatever its status.
ReapAlways(p) ==
    LET c == Head(proc[p].ChildList)
    IN  /\ MayProceed(k, p) /\ proc[p].pc = "reap"
        /\ proc[p].ChildList # <<>> /\ proc[p].Children > 0
        /\ k' = Delete(k, c)
        /\ proc' = [proc EXCEPT ![p] = Remove_Child(@), ![p].pc = "user"]
        /\ UNCHANGED born

\* Mutant of Reap: a child that is not a zombie yet is not told.
ReapSilently(p) ==
    LET c == Head(proc[p].ChildList)
    IN  /\ MayProceed(k, p) /\ proc[p].pc = "reap"
        /\ proc[p].ChildList # <<>> /\ proc[p].Children > 0
        /\ k' = IF k.status[c] = "ZOMBIE" THEN Delete(k, c) ELSE k
        /\ proc' = [proc EXCEPT
                      ![p] = Remove_Child(@),
                      ![p].pc = IF ~proc[p].exiting THEN "user"
                                ELSE IF proc[p].Children > 1 THEN "P" ELSE "notify"]
        /\ UNCHANGED born

\* System_Wait after P: take a child off the list, delete it or leave word for
\* it, and return to the program or to System_Exit.  The code stops at an
\* ASSERT if the list is empty or no child is counted.
Reap(p) ==
    LET c == Head(proc[p].ChildList)
        zombie == k.status[c] = "ZOMBIE"
    IN  /\ MayProceed(k, p) /\ proc[p].pc = "reap"
        /\ proc[p].ChildList # <<>> /\ proc[p].Children > 0
        /\ k' = IF zombie THEN Delete(k, c) ELSE k
        /\ proc' = [proc EXCEPT
                      ![p] = Remove_Child(@),
                      ![p].pc = IF ~proc[p].exiting THEN "user"
                                ELSE IF proc[p].Children > 1 THEN "P" ELSE "notify",
                      ![c].thread_exit_status = @ \/ ~zombie]
        /\ UNCHANGED born

\* Mutant of Notify: V comes before Queue_Child, and the parent runs between.
NotifyLate(p) ==
    LET q == proc[p].ParentPtr
        r == V(k, proc[q].ChildExited)
    IN  /\ Executing(k, p) /\ proc[p].pc = "notify" /\ q # NoThread
        /\ k' = r.k
        /\ proc' = [proc EXCEPT ![p].pc = "check", ![q].ChildExited = r.sem]
        /\ UNCHANGED born

\* The rest of System_Exit up to the end of V.  The first process has no
\* parent and finishes.
Notify(p) ==
    LET q == proc[p].ParentPtr
        r == V(k, proc[q].ChildExited)
    IN  /\ Executing(k, p) /\ proc[p].pc = "notify"
        /\ IF q = NoThread
           THEN /\ k' = Finish(k)
                /\ proc' = [proc EXCEPT ![p].pc = "gone"]
           ELSE /\ k' = r.k
                /\ proc' = [proc EXCEPT ![p].thread_exit_status = FALSE,
                              ![p].pc = "check",
                              ![q] = Queue_Child(@, p),
                              ![q].ChildExited = r.sem]
        /\ UNCHANGED born

\* The end of System_Exit.
Check(p) ==
    /\ MayProceed(k, p) /\ proc[p].pc = "check"
    /\ k' = IF proc[p].thread_exit_status THEN Finish(k) ELSE Sleep(k, "ZOMBIE")
    /\ proc' = [proc EXCEPT ![p].pc = "gone"]
    /\ UNCHANGED born

Nice(p, inc) ==
    /\ InProgram(p)
    /\ k' = Prioritize(k, inc)
    /\ UNCHANGED <<proc, born>>

\* The Yield system call, or a tick at which p gives up the processor.
Preempt(p) ==
    /\ Executing(k, p) /\ proc[p].pc \in {"user", "reap", "check"}
    /\ k' = Yield(k)
    /\ UNCHANGED <<proc, born>>

Next ==
    \/ \E p, c \in Thread : Fork(p, c)
    \/ \E p \in Thread : Wait(p)
    \/ \E p \in Thread : Exit(p)
    \/ \E p \in Thread : WaitP(p)
    \/ \E p \in Thread : Reap(p)
    \/ \E p \in Thread : Notify(p)
    \/ \E p \in Thread : Check(p)
    \/ \E p \in Thread, inc \in NiceRange : Nice(p, inc)
    \/ \E p \in Thread : Preempt(p)

Spec == Init /\ [][Next]_vars

\* A program that gets the processor again and again calls Exit in the end;
\* the kernel code of a process that has the processor runs on; the scheduling
\* timer goes on interrupting.
Fairness ==
    /\ \A p \in Thread : SF_vars(Exit(p)) /\ SF_vars(Reap(p)) /\ SF_vars(Check(p))
    /\ \A p \in Thread : WF_vars(WaitP(p)) /\ WF_vars(Notify(p))
    /\ SF_vars(\E p \in Thread : Preempt(p))

FairSpec == Spec /\ Fairness

-----------------------------------------------------------------------------
(* Properties *)

\* The kernel state and the process fields have the shape the code declares;
\* in particular no semaphore value is negative.
TypeOK ==
    /\ k \in Kernel
    /\ proc \in [Thread -> Process]
    /\ born \subseteq Thread

Exists(t) == k.status[t] # "ABSENT"

\* The thread's exit has been announced to its parent.
Announced(p) == proc[p].pc \in {"check", "gone"}

\* The ready list stays exact and in priority order through Fork, Nice, Yield,
\* V and Exit, although Nice changes the priority the list is sorted by.
SchedulerSound == ReadyListExact(k)

\* The asserts of System_Wait and Remove_Child: the semaphore counts the
\* children on the list, less the one a parent past P is about to take, and
\* Children counts the ones on the list and those that have yet to exit.
WaitFindsChild ==
    \A p \in Thread :
        /\ Len(proc[p].ChildList)
             = proc[p].ChildExited.value + (IF proc[p].pc = "reap" THEN 1 ELSE 0)
        /\ proc[p].Children = Len(proc[p].ChildList)
             + Cardinality({c \in born : proc[c].ParentPtr = p /\ ~Announced(c)})

\* No pointer outlives its object: a process that will still use its parent
\* has one; children on a list, waiters and the thread to be destroyed exist;
\* and none of these is to be deleted by two others.
NoDanglingThread ==
    /\ \A p \in born : ~Announced(p) /\ proc[p].ParentPtr # NoThread
          => Exists(p) /\ Exists(proc[p].ParentPtr)
    /\ \A p \in born : \A i, j \in 1 .. Len(proc[p].ChildList) :
          /\ Exists(p) /\ Exists(proc[p].ChildList[i])
          /\ k.threadToBeDestroyed # proc[p].ChildList[i]
          /\ i # j => proc[p].ChildList[i] # proc[p].ChildList[j]
    /\ k.threadToBeDestroyed # NoThread => k.status[k.threadToBeDestroyed] = "ZOMBIE"
    /\ \A t \in Thread : Contains(k.allThreads, t) <=> Exists(t)

\* "we set threadToBeDestroyed, so that Scheduler::Run() will call the
\* destructor, once we're running in the context of a different thread"
\* (thread.cc:507-509): a zombie is still to be waited for, or is the thread
\* to be destroyed; none is forgotten.
NoCarcassLost ==
    \A t \in Thread : k.status[t] = "ZOMBIE" =>
        \/ k.threadToBeDestroyed = t
        \/ \E p \in born : Contains(proc[p].ChildList, t)

Tree == INSTANCE ProcessTree WITH
    Process <- Thread, NoProcess <- NoThread, FirstProcess <- Root,
    parent <- [p \in born |-> proc[p].ParentPtr],
    exited <- {p \in born : \E q \in born : Contains(proc[q].ChildList, p)},
    reaped <- {p \in born : Announced(p)
                            /\ ~\E q \in born : Contains(proc[q].ChildList, p)}

\* Fork, Exit and Wait keep the promise of ProcessTree: nobody exits before
\* its children were waited for, and each child is returned by one Wait.
ForkExitWait == Tree!Spec

\* The machine halts once every process has exited: no process waits for ever,
\* and the test in FindNextToRun for the last zombie is met.
AllExit == <>k.halted

=============================================================================
