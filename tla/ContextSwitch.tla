--------------------------- MODULE ContextSwitch ---------------------------
(***************************************************************************)
(* Context switches as the USE_PTHREAD build makes them: every Nachos      *)
(* thread is a host thread, only the current one is meant to run, and      *)
(* SWITCH hands the processor over with a mutex and a condition variable   *)
(* for each thread.  Host threads really run in parallel: between the      *)
(* signal and its own wait, the old thread runs together with the new one. *)
(* An action is one call of the pthread library, or the kernel's code      *)
(* between two of them.                                                    *)
(***************************************************************************)
CONSTANTS Thread, NoThread, Main

VARIABLES
    host,        \* where the host thread of each Thread is: see Where
    next,        \* the thread it is switching to
    status,      \* tstatus of the object; "NONE" before new and after delete
    born,        \* objects ever created
    schedLock,   \* owner of each mutex
    runNow,
    currentThread,
    threadToBeDestroyed

vars == <<host, next, status, born, schedLock, runNow, currentThread, threadToBeDestroyed>>

\* "none", no host thread yet; in ThreadRoot: "root", "rootCheck", "rootWait",
\* in pthread_cond_wait, "rootWoken"; "run", running Nachos; in SWITCH: "lockOld",
\* "lockNew", "signal", "checkStatus", "wait", in pthread_cond_wait, "woken";
\* "gone", after pthread_exit.
Where == {"none", "root", "rootCheck", "rootWait", "rootWoken", "run", "lockOld",
          "lockNew", "signal", "checkStatus", "wait", "woken", "gone"}

Init ==
    /\ host = [t \in Thread |-> IF t = Main THEN "run" ELSE "none"]
    /\ next = [t \in Thread |-> NoThread]
    /\ status = [t \in Thread |-> IF t = Main THEN "RUNNING" ELSE "NONE"]
    /\ born = {Main}
    /\ schedLock = [t \in Thread |-> NoThread]
    /\ runNow = [t \in Thread |-> FALSE]
    /\ currentThread = Main
    /\ threadToBeDestroyed = NoThread

Go(t, label) == host' = [host EXCEPT ![t] = label]

\* pthread_mutex_lock.  The mutex of a thread that has called Finish has been
\* destroyed: locking it does nothing.
LockMutex(t, owner, after) ==
    /\ IF status[owner] = "ZOMBIE" THEN UNCHANGED schedLock
       ELSE schedLock[owner] = NoThread /\ schedLock' = [schedLock EXCEPT ![owner] = t]
    /\ Go(t, after)

Unlock(t, owner) == [schedLock EXCEPT ![owner] = IF @ = t THEN NoThread ELSE @]

-----------------------------------------------------------------------------
(* Nachos *)

\* The Thread constructor, Thread::Fork, and ReadyToRun on the new thread.
Fork(t, c) ==
    /\ host[t] = "run" /\ c \notin born
    /\ born' = born \cup {c}
    /\ status' = [status EXCEPT ![c] = "READY"]
    /\ Go(c, "root")
    /\ UNCHANGED <<next, schedLock, runNow, currentThread, threadToBeDestroyed>>

\* Thread::Yield, Sleep and Finish, and Scheduler::Run up to SWITCH.
Relinquish(t, newstatus) ==
    /\ host[t] = "run"
    /\ \E n \in Thread \ {t} :
          /\ status[n] = "READY"
          /\ status' = [status EXCEPT ![t] = newstatus, ![n] = "RUNNING"]
          /\ currentThread' = n
          /\ next' = [next EXCEPT ![t] = n]
    /\ threadToBeDestroyed' = IF newstatus = "ZOMBIE" THEN t ELSE threadToBeDestroyed
    /\ Go(t, "lockOld")
    /\ UNCHANGED <<born, schedLock, runNow>>

\* A thread blocked on a semaphore is made ready by the one that runs.
WakeUp(t, b) ==
    /\ host[t] = "run" /\ status[b] = "BLOCKED"
    /\ status' = [status EXCEPT ![b] = "READY"]
    /\ UNCHANGED <<host, next, born, schedLock, runNow, currentThread, threadToBeDestroyed>>

-----------------------------------------------------------------------------
(* SWITCH *)

LockOld(t) ==
    /\ host[t] = "lockOld" /\ LockMutex(t, t, "lockNew")
    /\ UNCHANGED <<next, status, born, runNow, currentThread, threadToBeDestroyed>>

LockNew(t) ==
    /\ host[t] = "lockNew" /\ LockMutex(t, next[t], "signal")
    /\ UNCHANGED <<next, status, born, runNow, currentThread, threadToBeDestroyed>>

\* runNow is set, the condition signalled and the new thread's mutex unlocked.
SignalNew(t) ==
    LET n == next[t]
    IN  /\ host[t] = "signal"
        /\ runNow' = [runNow EXCEPT ![n] = TRUE]
        /\ host' = [host EXCEPT ![t] = "checkStatus",
                                ![n] = CASE @ = "wait"     -> "woken"
                                         [] @ = "rootWait" -> "rootWoken"
                                         [] OTHER          -> @]
        /\ schedLock' = Unlock(t, n)
        /\ UNCHANGED <<next, status, born, currentThread, threadToBeDestroyed>>

\* A zombie exits, holding its mutex; another thread waits on its condition.  If
\* the object has been deleted, what is read as its status is anything.
CheckStatus(t) ==
    /\ host[t] = "checkStatus"
    /\ \/ /\ status[t] \in {"ZOMBIE", "NONE"} /\ Go(t, "gone") /\ UNCHANGED schedLock
       \/ /\ status[t] # "ZOMBIE" /\ Go(t, "wait") /\ schedLock' = Unlock(t, t)
    /\ UNCHANGED <<next, status, born, runNow, currentThread, threadToBeDestroyed>>

\* pthread_cond_wait has the mutex again and SWITCH returns; the rest of
\* Scheduler::Run deletes the carcass of a finished thread.
SwitchReturns(t) ==
    /\ host[t] = "woken" /\ schedLock[t] = NoThread
    /\ Go(t, "run")
    /\ status' = [s \in Thread |-> IF s = threadToBeDestroyed THEN "NONE" ELSE status[s]]
    /\ threadToBeDestroyed' = NoThread
    /\ UNCHANGED <<next, born, schedLock, runNow, currentThread>>

-----------------------------------------------------------------------------
(* ThreadRoot *)

RootLock(t) ==
    /\ host[t] = "root" /\ LockMutex(t, t, "rootCheck")
    /\ UNCHANGED <<next, status, born, runNow, currentThread, threadToBeDestroyed>>

RootCheck(t) ==
    /\ host[t] = "rootCheck"
    /\ Go(t, IF runNow[t] THEN "run" ELSE "rootWait")
    /\ schedLock' = Unlock(t, t)
    /\ UNCHANGED <<next, status, born, runNow, currentThread, threadToBeDestroyed>>

RootReturns(t) ==
    /\ host[t] = "rootWoken" /\ schedLock[t] = NoThread
    /\ Go(t, "run")
    /\ UNCHANGED <<next, status, born, schedLock, runNow, currentThread, threadToBeDestroyed>>

Next ==
    \E t \in Thread :
        \/ \E c \in Thread : Fork(t, c) \/ WakeUp(t, c)
        \/ \E s \in {"READY", "BLOCKED", "ZOMBIE"} : Relinquish(t, s)
        \/ LockOld(t) \/ LockNew(t) \/ SignalNew(t) \/ CheckStatus(t) \/ SwitchReturns(t)
        \/ RootLock(t) \/ RootCheck(t) \/ RootReturns(t)

Spec == Init /\ [][Next]_vars

-----------------------------------------------------------------------------
(* Properties *)

\* Scheduler::Run says of deleting a finished thread: "Note we cannot delete the
\* thread before now (for example, in Thread::Finish()), because up to this
\* point, we were still running on the old thread's stack!" (scheduler.cc:220-222).
\* So at this point nobody runs in the deleted thread any more.
DeletedIsNotRunning ==
    \A t \in born : status[t] = "NONE" => host[t] = "gone"

=============================================================================
