-------------------------- MODULE ProcessesProofs --------------------------
EXTENDS Processes, SchedulerProofs

(***************************************************************************)
(* The safety of Fork, Wait and Exit, for any number of threads: proofs    *)
(* about Processes.  The inductive invariant Sound is stated of any kernel *)
(* state s, process fields pr and set b of threads created, so that it can *)
(* be shown to hold half way through an action too, where the current      *)
(* thread has given up the processor and nobody has been given it yet.     *)
(***************************************************************************)

\* The scheduler's own part: lists agree with the statuses, and the thread to
\* be destroyed has finished.
KernelSound(s) ==
    /\ s \in Kernel
    /\ ReadyListExact(s)
    /\ Distinct(s.allThreads)
    /\ \A t \in Thread : Contains(s.allThreads, t) <=> s.status[t] # "ABSENT"
    /\ \A t \in Thread : s.status[t] # "JUST_CREATED"
    /\ s.threadToBeDestroyed # NoThread => s.status[s.threadToBeDestroyed] = "ZOMBIE"

Shape(pr, b) ==
    /\ pr \in [Thread -> Process]
    /\ b \in SUBSET Thread /\ IsFiniteSet(b) /\ Root \in b

\* Identifiers not used yet.
UnbornSound(s, pr, b) ==
    \A p \in Thread \ b : s.status[p] = "ABSENT" /\ pr[p] = NewProcess(NoThread)

\* Where a process is in its program agrees with its thread's status; it waits
\* on its own semaphore only; one past its last Wait has no children.
PhaseSound(s, pr, b) ==
    \A p \in b :
        /\ pr[p].pc = "gone" <=> s.status[p] \in {"ZOMBIE", "ABSENT"}
        /\ pr[p].ChildExited.queue = IF s.status[p] = "BLOCKED" THEN <<p>> ELSE <<>>
        /\ s.status[p] = "BLOCKED" => pr[p].pc = "P"
        /\ s.status[p] # "ABSENT" /\ p \notin s.started
              => s.status[p] = "READY" /\ pr[p].pc = "user" /\ p # Root
        /\ pr[p].pc \in {"notify", "check", "gone"} => pr[p].Children = 0
        /\ pr[p].thread_exit_status => pr[p].pc \in {"check", "gone"}

ParentsSound(pr, b) ==
    \A p \in b : IF p = Root THEN pr[p].ParentPtr = NoThread
                 ELSE pr[p].ParentPtr \in b \ {p}

\* A child on a list has announced itself to the owner of the list, has not
\* been told anything, and is there for the owner to delete.
ListsSound(s, pr, b) ==
    \A p \in Thread :
        /\ Distinct(pr[p].ChildList)
        /\ \A c \in Thread : Contains(pr[p].ChildList, c) =>
              /\ c \in b /\ pr[c].ParentPtr = p
              /\ pr[c].pc \in {"check", "gone"} /\ ~pr[c].thread_exit_status
              /\ s.status[c] # "ABSENT" /\ s.threadToBeDestroyed # c

\* c is on its parent's list.
Listed(pr, c) == c # Root /\ Contains(pr[pr[c].ParentPtr].ChildList, c)

\* Somebody will delete a process that is about to finish or has finished.
CarcassSound(s, pr, b) ==
    /\ \A c \in b : /\ pr[c].pc = "check" => pr[c].thread_exit_status \/ Listed(pr, c)
                    /\ pr[c].pc = "check" => c # Root
                    /\ s.status[c] = "ZOMBIE" => s.threadToBeDestroyed = c \/ Listed(pr, c)
    /\ s.threadToBeDestroyed # NoThread /\ s.status[s.currentThread] = "RUNNING"
          => s.currentThread # Root /\ ~pr[s.currentThread].thread_exit_status

\* Children that have yet to exit.
Unannounced(pr, b, p) ==
    {c \in b : pr[c].ParentPtr = p /\ ~(pr[c].pc \in {"check", "gone"})}

CountsSound(pr, b) ==
    \A p \in Thread :
        /\ Len(pr[p].ChildList)
             = pr[p].ChildExited.value + (IF pr[p].pc = "reap" THEN 1 ELSE 0)
        /\ pr[p].Children = Len(pr[p].ChildList) + Cardinality(Unannounced(pr, b, p))

\* The inductive invariant.
Sound(s, pr, b) ==
    /\ KernelSound(s)
    /\ Shape(pr, b)
    /\ UnbornSound(s, pr, b)
    /\ PhaseSound(s, pr, b)
    /\ ParentsSound(pr, b)
    /\ ListsSound(s, pr, b)
    /\ CarcassSound(s, pr, b)
    /\ CountsSound(pr, b)

IInv == Sound(k, proc, born)

-----------------------------------------------------------------------------
(* Giving the processor away *)

\* Dispatch, as the processes see it: READY and RUNNING apart, only the carcass
\* changes its status.  A thread that finds a carcass left over has just begun.
Moved(s, d) ==
    /\ \A t \in Thread :
          \/ d.status[t] = s.status[t]
          \/ s.status[t] = "READY" /\ d.status[t] = "RUNNING"
          \/ /\ s.status[t] = "ZOMBIE" /\ d.status[t] = "ABSENT"
             /\ t = s.threadToBeDestroyed /\ d.threadToBeDestroyed = NoThread
    /\ \/ d.threadToBeDestroyed = s.threadToBeDestroyed
       \/ /\ d.threadToBeDestroyed = NoThread
          /\ d.status[s.threadToBeDestroyed] = "ABSENT"
    /\ \A t \in Thread : d.status[t] # "ABSENT" /\ t \notin d.started
          => t \notin s.started /\ d.status[t] = s.status[t]
    /\ d.threadToBeDestroyed # NoThread /\ d.status[d.currentThread] = "RUNNING"
          => d.currentThread \notin s.started /\ s.status[d.currentThread] = "READY"

LEMMA DispatchMoves ==
    ASSUME NEW s, KernelSound(s), \A t \in Thread : s.status[t] # "RUNNING"
    PROVE  KernelSound(Dispatch(s)) /\ Moved(s, Dispatch(s))
  <1> DEFINE d == Dispatch(s)
             gone == s.threadToBeDestroyed
             h == Head(s.readyList)
  <1>1. s \in Kernel /\ ReadyListExact(s) /\ Distinct(s.allThreads) /\ NobodyRuns(s)
    BY DEF KernelSound, NobodyRuns
  <1>2. /\ d \in Kernel /\ ReadyListExact(d)
        /\ \/ d = [s EXCEPT !.halted = d.halted]
           \/ Dispatched(s, d)
    BY <1>1, DispatchExact
  <1>3. /\ s.status \in [Thread -> ThreadStatus] /\ s.allThreads \in Seq(Thread)
        /\ s.started \in SUBSET Thread /\ s.currentThread \in Thread
        /\ gone \in Thread \cup {NoThread}
    BY <1>1, KernelFields
  <1> HIDE DEF d
  <1>4. CASE d = [s EXCEPT !.halted = d.halted]
    <2>1. /\ d.status = s.status /\ d.allThreads = s.allThreads /\ d.started = s.started
          /\ d.threadToBeDestroyed = gone /\ d.currentThread = s.currentThread
      BY <1>1, <1>4 DEF Kernel
    <2>2. KernelSound(d)
      BY <1>2, <2>1 DEF KernelSound
    <2>3. Moved(s, d)
      BY <1>3, <2>1 DEF Moved
    <2> QED BY <2>2, <2>3 DEF d
  <1>5. CASE /\ Dispatched(s, d)
             /\ h \notin s.started \/ gone = NoThread
             /\ d.status = [s.status EXCEPT ![h] = "RUNNING"]
             /\ d.allThreads = s.allThreads
             /\ d.started = s.started \cup {h}
             /\ d.threadToBeDestroyed = gone
    <2>1. h \in Thread /\ s.status[h] = "READY" /\ d.currentThread = h
      BY <1>2, <1>5 DEF Dispatched, Kernel
    <2> HIDE DEF h
    <2>2. \A t \in Thread : d.status[t] = IF t = h THEN "RUNNING" ELSE s.status[t]
      BY <1>3, <1>5
    <2>3. KernelSound(d)
      BY <1>2, <1>3, <1>5, <2>1, <2>2 DEF KernelSound
    <2>4. Moved(s, d)
      BY <1>3, <1>5, <2>1, <2>2 DEF Moved
    <2> QED BY <2>3, <2>4 DEF d
  <1>6. CASE /\ Dispatched(s, d) /\ h \in s.started /\ gone \in Thread /\ gone # h
             /\ d.status = [s.status EXCEPT ![h] = "RUNNING", ![gone] = "ABSENT"]
             /\ d.allThreads = removeFromList(s.allThreads, gone)
             /\ d.started = (s.started \cup {h}) \ {gone}
             /\ d.threadToBeDestroyed = NoThread
    <2>1. h \in Thread /\ s.status[h] = "READY" /\ d.currentThread = h
      BY <1>6 DEF Dispatched
    <2> HIDE DEF h
    <2>2. \A t \in Thread : d.status[t] = IF t = gone THEN "ABSENT"
                                          ELSE IF t = h THEN "RUNNING" ELSE s.status[t]
      BY <1>3, <1>6
    <2>3. s.status[gone] = "ZOMBIE"
      BY <1>6, ThreadAssumption DEF KernelSound
    <2>4. /\ Distinct(d.allThreads)
          /\ \A t : Contains(d.allThreads, t) <=> Contains(s.allThreads, t) /\ t # gone
      BY <1>1, <1>3, <1>6, RemoveFirstContains DEF removeFromList
    <2>5. KernelSound(d)
      BY <1>2, <1>6, <2>1, <2>2, <2>4 DEF KernelSound
    <2>6. Moved(s, d)
      BY <1>3, <1>6, <2>1, <2>2, <2>3 DEF Moved
    <2> QED BY <2>5, <2>6 DEF d
  <1>7. Dispatched(s, d) => \/ /\ h \notin s.started \/ gone = NoThread
                               /\ d.status = [s.status EXCEPT ![h] = "RUNNING"]
                               /\ d.allThreads = s.allThreads
                               /\ d.started = s.started \cup {h}
                               /\ d.threadToBeDestroyed = gone
                            \/ /\ h \in s.started /\ gone \in Thread /\ gone # h
                               /\ d.status = [s.status EXCEPT ![h] = "RUNNING",
                                                              ![gone] = "ABSENT"]
                               /\ d.allThreads = removeFromList(s.allThreads, gone)
                               /\ d.started = (s.started \cup {h}) \ {gone}
                               /\ d.threadToBeDestroyed = NoThread
    BY DEF Dispatched
  <1> HIDE DEF h, gone
  <1> QED BY <1>2, <1>4, <1>5, <1>6, <1>7, Zenon

\* Whoever gets the processor, the processes are as they were.
LEMMA DispatchSound ==
    ASSUME NEW s, NEW pr, NEW b, Sound(s, pr, b),
           \A t \in Thread : s.status[t] # "RUNNING"
    PROVE  Sound(Dispatch(s), pr, b)
  <1> DEFINE d == Dispatch(s)
  <1>1. KernelSound(d) /\ Moved(s, d)
    BY DispatchMoves DEF Sound
  <1> HIDE DEF d
  <1>2. Shape(pr, b) /\ ParentsSound(pr, b) /\ CountsSound(pr, b)
    BY DEF Sound
  <1>3. \A t \in Thread : /\ d.status[t] = "BLOCKED" <=> s.status[t] = "BLOCKED"
                          /\ d.status[t] \in {"ZOMBIE", "ABSENT"}
                                <=> s.status[t] \in {"ZOMBIE", "ABSENT"}
                          /\ s.status[t] = "ABSENT" => d.status[t] = "ABSENT"
                          /\ d.status[t] = "ZOMBIE" => s.status[t] = "ZOMBIE"
    BY <1>1 DEF Moved
  <1>4. UnbornSound(d, pr, b)
    BY <1>3 DEF Sound, UnbornSound
  <1>5. PhaseSound(d, pr, b)
    <2> SUFFICES ASSUME NEW p \in b
                 PROVE  /\ pr[p].pc = "gone" <=> d.status[p] \in {"ZOMBIE", "ABSENT"}
                        /\ pr[p].ChildExited.queue = IF d.status[p] = "BLOCKED" THEN <<p>> ELSE <<>>
                        /\ d.status[p] = "BLOCKED" => pr[p].pc = "P"
                        /\ d.status[p] # "ABSENT" /\ p \notin d.started
                              => d.status[p] = "READY" /\ pr[p].pc = "user" /\ p # Root
                        /\ pr[p].pc \in {"notify", "check", "gone"} => pr[p].Children = 0
                        /\ pr[p].thread_exit_status => pr[p].pc \in {"check", "gone"}
      BY DEF PhaseSound
    <2>1. p \in Thread
      BY <1>2 DEF Shape
    <2>2. d.status[p] # "ABSENT" /\ p \notin d.started
            => p \notin s.started /\ d.status[p] = s.status[p]
      BY <1>1, <2>1 DEF Moved
    <2> QED BY <1>3, <2>1, <2>2 DEF Sound, PhaseSound
  <1>6. ListsSound(d, pr, b)
    BY <1>1, ThreadAssumption DEF Sound, ListsSound, Moved
  <1>7. ASSUME NEW c \in b, d.status[c] = "ZOMBIE"
        PROVE  d.threadToBeDestroyed = c \/ Listed(pr, c)
    <2>1. c \in Thread
      BY <1>2 DEF Shape
    <2>2. s.status[c] = "ZOMBIE"
      BY <1>3, <1>7, <2>1
    <2>3. s.threadToBeDestroyed = c => d.threadToBeDestroyed = c
      BY <1>1, <1>7 DEF Moved
    <2> QED BY <2>2, <2>3 DEF Sound, CarcassSound
  <1>8. ASSUME d.threadToBeDestroyed # NoThread, d.status[d.currentThread] = "RUNNING"
        PROVE  d.currentThread # Root /\ ~pr[d.currentThread].thread_exit_status
    <2> DEFINE c == d.currentThread
    <2>1. c \in Thread
      BY <1>1, KernelFields DEF KernelSound
    <2>2. c \notin s.started /\ s.status[c] = "READY"
      BY <1>1, <1>8 DEF Moved
    <2>3. c \in b
      BY <2>1, <2>2 DEF Sound, UnbornSound
    <2> HIDE DEF c
    <2>4. pr[c].pc = "user" /\ c # Root
      BY <2>2, <2>3 DEF Sound, PhaseSound
    <2> QED BY <2>3, <2>4 DEF Sound, PhaseSound, c
  <1>9. CarcassSound(d, pr, b)
    BY <1>7, <1>8 DEF Sound, CarcassSound
  <1> QED BY <1>1, <1>2, <1>4, <1>5, <1>6, <1>9 DEF Sound, d

\* A kernel state on the way: the current thread has given itself the status x
\* and may have made itself the thread to be destroyed.
Stopped(s, x, gone) ==
    [s EXCEPT !.threadToBeDestroyed = gone,
              !.status = [s.status EXCEPT ![s.currentThread] = x]]

LEMMA SleepStops ==
    ASSUME NEW s \in Kernel
    PROVE  /\ Sleep(s, "BLOCKED") = Dispatch(Stopped(s, "BLOCKED", s.threadToBeDestroyed))
           /\ Sleep(s, "ZOMBIE") = Dispatch(Stopped(s, "ZOMBIE", s.threadToBeDestroyed))
           /\ Finish(s) = Dispatch(Stopped(s, "ZOMBIE", s.currentThread))
  <1>1. [s EXCEPT !.threadToBeDestroyed = s.threadToBeDestroyed] = s
    BY DEF Kernel
  <1>2. \A x : Stopped(s, x, s.threadToBeDestroyed) = [s EXCEPT !.status[s.currentThread] = x]
    BY <1>1 DEF Stopped, Kernel
  <1> DEFINE e == [s EXCEPT !.threadToBeDestroyed = s.currentThread]
  <1>3. e.currentThread = s.currentThread /\ e.status = s.status
    BY DEF Kernel
  <1>4. [e EXCEPT !.status[e.currentThread] = "ZOMBIE"] = Stopped(s, "ZOMBIE", s.currentThread)
    BY <1>3 DEF Stopped, Kernel
  <1> QED BY <1>2, <1>4 DEF Sleep, Finish

LEMMA StopSound ==
    ASSUME NEW s, KernelSound(s), s.status[s.currentThread] = "RUNNING",
           NEW x \in {"BLOCKED", "ZOMBIE"}, NEW gone \in {s.threadToBeDestroyed, s.currentThread},
           gone = s.currentThread => x = "ZOMBIE"
    PROVE  /\ KernelSound(Stopped(s, x, gone))
           /\ Stopped(s, x, gone).started = s.started
           /\ Stopped(s, x, gone).threadToBeDestroyed = gone
           /\ Stopped(s, x, gone).currentThread = s.currentThread
           /\ \A t \in Thread : /\ Stopped(s, x, gone).status[t] # "RUNNING"
                                /\ Stopped(s, x, gone).status[t]
                                     = IF t = s.currentThread THEN x ELSE s.status[t]
  <1> DEFINE c == s.currentThread
             f == [s.status EXCEPT ![c] = x]
             e == Stopped(s, x, gone)
  <1>1. /\ s \in Kernel /\ c \in Thread /\ s.status \in [Thread -> ThreadStatus]
        /\ s.threadToBeDestroyed \in Thread \cup {NoThread}
    BY KernelFields DEF KernelSound
  <1>2. e \in Kernel
    <2>1. f \in [Thread -> ThreadStatus] /\ gone \in Thread \cup {NoThread}
      BY <1>1 DEF ThreadStatus
    <2> HIDE DEF f
    <2>2. e = [s EXCEPT !.threadToBeDestroyed = gone, !.status = f]
      BY DEF Stopped, f
    <2> QED BY <1>1, <2>1, <2>2 DEF Kernel
  <1>3. /\ e.status = f /\ e.readyList = s.readyList /\ e.Priority = s.Priority
        /\ e.currentThread = c /\ e.allThreads = s.allThreads /\ e.started = s.started
        /\ e.threadToBeDestroyed = gone
    BY <1>1 DEF Kernel, Stopped
  <1> HIDE DEF e
  <1>4. \A t \in Thread : e.status[t] = IF t = c THEN x ELSE s.status[t]
    BY <1>1, <1>3
  <1>5. /\ \A t \in Thread : e.status[t] = "READY" <=> s.status[t] = "READY"
        /\ \A t \in Thread : e.status[t] # "RUNNING"
    BY <1>4 DEF KernelSound, ReadyListExact
  <1>6. ReadyListExact(e)
    BY <1>3, <1>5 DEF KernelSound, ReadyListExact
  <1>7. e.threadToBeDestroyed # NoThread => e.status[e.threadToBeDestroyed] = "ZOMBIE"
    BY <1>1, <1>3, <1>4 DEF KernelSound
  <1>8. KernelSound(e)
    BY <1>2, <1>3, <1>4, <1>6, <1>7 DEF KernelSound
  <1> QED BY <1>3, <1>4, <1>5, <1>8 DEF e

\* ReadyToRun of a thread that exists and is not a zombie.
LEMMA ReadySound ==
    ASSUME NEW s, KernelSound(s), NEW t \in Thread, s.status[t] \in {"RUNNING", "BLOCKED"}
    PROVE  LET r == ReadyToRun(s, t)
           IN  /\ KernelSound(r)
               /\ r.started = s.started /\ r.threadToBeDestroyed = s.threadToBeDestroyed
               /\ r.currentThread = s.currentThread
               /\ \A u \in Thread : r.status[u] = IF u = t THEN "READY" ELSE s.status[u]
  <1> DEFINE r == ReadyToRun(s, t)
  <1>1. s \in Kernel /\ ReadyListExact(s) /\ s.status[t] # "READY"
    BY DEF KernelSound
  <1>2. /\ r \in Kernel /\ ReadyListExact(r)
        /\ r = [s EXCEPT !.needResched = r.needResched,
                         !.status = [s.status EXCEPT ![t] = "READY"],
                         !.readyList = r.readyList]
    BY <1>1, ReadyToRunExact
  <1> HIDE DEF r
  <1>3. /\ r.status = [s.status EXCEPT ![t] = "READY"] /\ r.allThreads = s.allThreads
        /\ r.threadToBeDestroyed = s.threadToBeDestroyed /\ r.started = s.started
        /\ r.currentThread = s.currentThread
    BY <1>1, <1>2 DEF Kernel
  <1>4. \A u \in Thread : r.status[u] = IF u = t THEN "READY" ELSE s.status[u]
    BY <1>1, <1>3, KernelFields
  <1>5. r.threadToBeDestroyed # NoThread => r.status[r.threadToBeDestroyed] = "ZOMBIE"
    <2>1. s.threadToBeDestroyed \in Thread \cup {NoThread}
      BY <1>1, KernelFields
    <2> QED BY <2>1, <1>3, <1>4 DEF KernelSound
  <1>6. KernelSound(r)
    BY <1>2, <1>3, <1>4, <1>5 DEF KernelSound
  <1> QED BY <1>3, <1>4, <1>6 DEF r

-----------------------------------------------------------------------------
(* Steps that concern one process *)

\* A running process goes from one place of its program to another, or gives
\* up the processor; neither its children nor its parent are concerned.
Local(s, pr, e, pq, p) ==
    /\ s.status[p] = "RUNNING" /\ e.status[p] \in {"RUNNING", "READY", "BLOCKED"}
    /\ e.currentThread = p /\ e.started = s.started
    /\ e.threadToBeDestroyed = s.threadToBeDestroyed
    /\ \A t \in Thread : t # p => e.status[t] = s.status[t] /\ pq[t] = pr[t]
    /\ pq[p].ParentPtr = pr[p].ParentPtr /\ pq[p].Children = pr[p].Children
    /\ pq[p].ChildList = pr[p].ChildList
    /\ pq[p].thread_exit_status = pr[p].thread_exit_status
    /\ \/ pq[p].pc = pr[p].pc
       \/ {pq[p].pc, pr[p].pc} \subseteq {"user", "P", "reap", "notify"}
    /\ e.status[p] = "BLOCKED" => pq[p].pc = "P"
    /\ pq[p].ChildExited.queue = IF e.status[p] = "BLOCKED" THEN <<p>> ELSE <<>>
    /\ pq[p].pc = "notify" => pq[p].Children = 0
    /\ pq[p].ChildExited.value + (IF pq[p].pc = "reap" THEN 1 ELSE 0)
         = pr[p].ChildExited.value + (IF pr[p].pc = "reap" THEN 1 ELSE 0)

LEMMA LocalStep ==
    ASSUME NEW s, NEW pr, NEW b, Sound(s, pr, b), NEW e, KernelSound(e),
           NEW pq, Shape(pq, b), NEW p \in b, Local(s, pr, e, pq, p)
    PROVE  Sound(e, pq, b)
  <1> USE DEF Local
  <1>1. p \in Thread /\ \A c \in b : c \in Thread
    BY DEF Shape
  <1>2. \A c \in Thread : /\ pq[c].ParentPtr = pr[c].ParentPtr
                          /\ pq[c].ChildList = pr[c].ChildList
                          /\ pq[c].Children = pr[c].Children
                          /\ pq[c].thread_exit_status = pr[c].thread_exit_status
                          /\ pq[c].pc \in {"check", "gone"} <=> pr[c].pc \in {"check", "gone"}
                          /\ pq[c].pc = "check" <=> pr[c].pc = "check"
    BY <1>1
  <1>3. \A t \in Thread : /\ e.status[t] = "ABSENT" <=> s.status[t] = "ABSENT"
                          /\ e.status[t] = "ZOMBIE" <=> s.status[t] = "ZOMBIE"
    BY <1>1
  <1>4. p \in s.started /\ pr[p].pc # "gone"
    BY DEF Sound, PhaseSound
  <1>5. UnbornSound(e, pq, b)
    BY DEF Sound, UnbornSound
  <1>6. PhaseSound(e, pq, b)
    <2> SUFFICES ASSUME NEW q \in b
                 PROVE  /\ pq[q].pc = "gone" <=> e.status[q] \in {"ZOMBIE", "ABSENT"}
                        /\ pq[q].ChildExited.queue = IF e.status[q] = "BLOCKED" THEN <<q>> ELSE <<>>
                        /\ e.status[q] = "BLOCKED" => pq[q].pc = "P"
                        /\ e.status[q] # "ABSENT" /\ q \notin e.started
                              => e.status[q] = "READY" /\ pq[q].pc = "user" /\ q # Root
                        /\ pq[q].pc \in {"notify", "check", "gone"} => pq[q].Children = 0
                        /\ pq[q].thread_exit_status => pq[q].pc \in {"check", "gone"}
      BY DEF PhaseSound
    <2>1. CASE q = p
      BY <1>1, <1>2, <1>4, <2>1 DEF Sound, PhaseSound
    <2>2. CASE q # p
      BY <1>1, <2>2 DEF Sound, PhaseSound
    <2> QED BY <2>1, <2>2
  <1>7. ParentsSound(pq, b)
    BY <1>1, <1>2 DEF Sound, ParentsSound
  <1>8. ListsSound(e, pq, b)
    BY <1>2, <1>3 DEF Sound, ListsSound
  <1>9. \A c \in b : Listed(pq, c) <=> Listed(pr, c)
    <2> SUFFICES ASSUME NEW c \in b, c # Root
                 PROVE  pq[pq[c].ParentPtr].ChildList = pr[pr[c].ParentPtr].ChildList
      BY DEF Listed
    <2>1. pr[c].ParentPtr \in Thread
      BY <1>1 DEF Sound, ParentsSound
    <2> QED BY <1>1, <1>2, <2>1
  <1>10. CarcassSound(e, pq, b)
    <2>1. s.currentThread = p
      BY <1>1 DEF Sound, KernelSound, ReadyListExact
    <2> QED BY <1>1, <1>2, <1>3, <1>9, <2>1 DEF Sound, CarcassSound
  <1>11. \A q \in Thread : Unannounced(pq, b, q) = Unannounced(pr, b, q)
    BY <1>1, <1>2 DEF Unannounced
  <1>12. CountsSound(pq, b)
    <2> SUFFICES ASSUME NEW q \in Thread
                 PROVE  /\ Len(pq[q].ChildList)
                             = pq[q].ChildExited.value + (IF pq[q].pc = "reap" THEN 1 ELSE 0)
                        /\ pq[q].Children = Len(pq[q].ChildList)
                             + Cardinality(Unannounced(pq, b, q))
      BY DEF CountsSound
    <2>1. pq[q].ChildExited.value + (IF pq[q].pc = "reap" THEN 1 ELSE 0)
             = pr[q].ChildExited.value + (IF pr[q].pc = "reap" THEN 1 ELSE 0)
      <3>1. CASE q = p
        BY <3>1
      <3>2. CASE q # p
        BY <3>2
      <3> QED BY <3>1, <3>2
    <2> QED BY <1>2, <1>11, <2>1 DEF Sound, CountsSound
  <1> QED BY <1>5, <1>6, <1>7, <1>8, <1>10, <1>12 DEF Sound

\* A process ends: the first one, which nobody waits for, and one that its
\* parent has told are left to the next thread, any other to its parent.
Ended(s, pr, e, pq, p) ==
    /\ s.status[p] = "RUNNING" /\ e.status[p] = "ZOMBIE"
    /\ e.currentThread = p /\ e.started = s.started
    /\ \A t \in Thread : t # p => e.status[t] = s.status[t] /\ pq[t] = pr[t]
    /\ pq[p] = [pr[p] EXCEPT !.pc = "gone"]
    /\ \/ /\ e.threadToBeDestroyed = p
          /\ \/ p = Root /\ pr[p].pc = "notify"
             \/ pr[p].pc = "check" /\ pr[p].thread_exit_status
       \/ /\ e.threadToBeDestroyed = s.threadToBeDestroyed
          /\ pr[p].pc = "check" /\ ~pr[p].thread_exit_status

LEMMA EndStep ==
    ASSUME NEW s, NEW pr, NEW b, Sound(s, pr, b), NEW e, KernelSound(e),
           NEW pq, Shape(pq, b), NEW p \in b, Ended(s, pr, e, pq, p)
    PROVE  Sound(e, pq, b)
  <1> USE DEF Ended
  <1>1. p \in Thread /\ (\A c \in b : c \in Thread) /\ pr \in [Thread -> Process]
    BY DEF Sound, Shape
  <1>2. pr[p].pc \in {"notify", "check"} /\ s.currentThread = p
    BY <1>1 DEF Sound, KernelSound, ReadyListExact
  <1>3. /\ pq[p].pc = "gone" /\ pq[p].ParentPtr = pr[p].ParentPtr
        /\ pq[p].ChildList = pr[p].ChildList /\ pq[p].Children = pr[p].Children
        /\ pq[p].thread_exit_status = pr[p].thread_exit_status
        /\ pq[p].ChildExited = pr[p].ChildExited
    BY <1>1 DEF Process
  <1>4. \A c \in Thread : /\ pq[c].ParentPtr = pr[c].ParentPtr
                          /\ pq[c].ChildList = pr[c].ChildList
                          /\ pq[c].Children = pr[c].Children
                          /\ pq[c].ChildExited = pr[c].ChildExited
                          /\ pq[c].thread_exit_status = pr[c].thread_exit_status
                          /\ pr[c].pc \in {"check", "gone"} => pq[c].pc \in {"check", "gone"}
                          /\ pq[c].pc = "reap" <=> pr[c].pc = "reap"
    BY <1>1, <1>2, <1>3
  <1>5. p \in s.started
    BY DEF Sound, PhaseSound
  <1>6. UnbornSound(e, pq, b)
    BY DEF Sound, UnbornSound
  <1>7. PhaseSound(e, pq, b)
    <2> SUFFICES ASSUME NEW q \in b
                 PROVE  /\ pq[q].pc = "gone" <=> e.status[q] \in {"ZOMBIE", "ABSENT"}
                        /\ pq[q].ChildExited.queue = IF e.status[q] = "BLOCKED" THEN <<q>> ELSE <<>>
                        /\ e.status[q] = "BLOCKED" => pq[q].pc = "P"
                        /\ e.status[q] # "ABSENT" /\ q \notin e.started
                              => e.status[q] = "READY" /\ pq[q].pc = "user" /\ q # Root
                        /\ pq[q].pc \in {"notify", "check", "gone"} => pq[q].Children = 0
                        /\ pq[q].thread_exit_status => pq[q].pc \in {"check", "gone"}
      BY DEF PhaseSound
    <2>1. CASE q = p
      BY <1>1, <1>2, <1>3, <1>5, <2>1 DEF Sound, PhaseSound
    <2>2. CASE q # p
      BY <1>1, <2>2 DEF Sound, PhaseSound
    <2> QED BY <2>1, <2>2
  <1>8. ParentsSound(pq, b)
    BY <1>1, <1>4 DEF Sound, ParentsSound
  <1>9. ASSUME NEW q \in Thread, NEW c \in Thread, Contains(pr[q].ChildList, c)
        PROVE  e.threadToBeDestroyed # c
    <2>1. c \in b /\ pr[c].ParentPtr = q /\ ~pr[c].thread_exit_status
          /\ s.threadToBeDestroyed # c
      BY <1>9 DEF Sound, ListsSound
    <2>2. c # Root
      BY <2>1, ThreadAssumption DEF Sound, ParentsSound
    <2> QED BY <2>1, <2>2
  <1>10. ListsSound(e, pq, b)
    <2> SUFFICES ASSUME NEW q \in Thread
                 PROVE  /\ Distinct(pq[q].ChildList)
                        /\ \A c \in Thread : Contains(pq[q].ChildList, c) =>
                              /\ c \in b /\ pq[c].ParentPtr = q
                              /\ pq[c].pc \in {"check", "gone"} /\ ~pq[c].thread_exit_status
                              /\ e.status[c] # "ABSENT" /\ e.threadToBeDestroyed # c
      BY DEF ListsSound
    <2> QED BY <1>1, <1>4, <1>9 DEF Sound, ListsSound
  <1>11. \A c \in b : Listed(pq, c) <=> Listed(pr, c)
    <2> SUFFICES ASSUME NEW c \in b, c # Root
                 PROVE  pq[pq[c].ParentPtr].ChildList = pr[pr[c].ParentPtr].ChildList
      BY DEF Listed
    <2>1. pr[c].ParentPtr \in Thread
      BY <1>1 DEF Sound, ParentsSound
    <2> QED BY <1>1, <1>4, <2>1
  <1>12. CarcassSound(e, pq, b)
    <2>1. e.threadToBeDestroyed = p => s.threadToBeDestroyed = NoThread
      <3>1. s.threadToBeDestroyed # p
        BY <1>1, ThreadAssumption DEF Sound, KernelSound
      <3> QED BY <1>2, <3>1 DEF Sound, CarcassSound
    <2>2. ASSUME NEW c \in b, e.status[c] = "ZOMBIE"
          PROVE  e.threadToBeDestroyed = c \/ Listed(pq, c)
      <3>1. CASE c = p
        BY <1>11, <3>1 DEF Sound, CarcassSound
      <3>2. CASE c # p
        <4>1. s.status[c] = "ZOMBIE"
          BY <1>1, <2>2, <3>2
        <4>2. s.threadToBeDestroyed = c \/ Listed(pr, c)
          BY <4>1 DEF Sound, CarcassSound
        <4> QED BY <1>1, <1>11, <2>1, <4>2, ThreadAssumption
      <3> QED BY <3>1, <3>2
    <2>3. ASSUME NEW c \in b, pq[c].pc = "check"
          PROVE  pq[c].thread_exit_status \/ Listed(pq, c)
      BY <1>1, <1>3, <1>11, <2>3, ZenonT(60) DEF Sound, CarcassSound
    <2>4. ASSUME NEW c \in b, pq[c].pc = "check" PROVE c # Root
      BY <1>1, <1>3, <2>4, ZenonT(60) DEF Sound, CarcassSound
    <2> QED BY <2>2, <2>3, <2>4 DEF CarcassSound
  <1>13. \A q \in Thread : Unannounced(pq, b, q) = Unannounced(pr, b, q)
    <2>1. pr[p].pc # "check" => pr[p].ParentPtr = NoThread
      BY <1>2 DEF Sound, ParentsSound
    <2>2. ASSUME NEW q \in Thread, NEW c \in b
          PROVE  c \in Unannounced(pq, b, q) <=> c \in Unannounced(pr, b, q)
      <3>1. CASE c = p
        BY <1>2, <1>3, <2>1, <3>1, ThreadAssumption DEF Unannounced
      <3>2. CASE c # p
        BY <1>1, <3>2 DEF Unannounced
      <3> QED BY <3>1, <3>2
    <2> QED BY <2>2 DEF Unannounced
  <1>14. CountsSound(pq, b)
    BY <1>4, <1>13 DEF Sound, CountsSound
  <1> QED BY <1>6, <1>7, <1>8, <1>10, <1>12, <1>14 DEF Sound

-----------------------------------------------------------------------------
(* The actions *)

\* What every action but Next's stuttering starts from.
LEMMA Running ==
    ASSUME IInv, NEW p \in Thread, Executing(k, p)
    PROVE  /\ p \in born /\ k.status[p] = "RUNNING" /\ k.currentThread = p
           /\ k \in Kernel /\ KernelSound(k) /\ Shape(proc, born)
           /\ proc[p] \in Process /\ proc[p].ChildExited.queue = <<>>
           /\ p \in k.started
  <1>1. k.status[p] = "RUNNING" /\ k.currentThread = p
    BY DEF Executing
  <1>2. p \in born
    BY <1>1 DEF IInv, Sound, UnbornSound
  <1> QED BY <1>1, <1>2 DEF IInv, Sound, KernelSound, Shape, PhaseSound

LEMMA InitInvariant == Init => IInv
  <1> SUFFICES ASSUME Init PROVE IInv
    OBVIOUS
  <1> USE RootAssumption
  <1>1. k = [currentThread |-> Root,
             status      |-> [t \in Thread |-> IF t = Root THEN "RUNNING" ELSE "ABSENT"],
             Priority    |-> [t \in Thread |-> DefaultPriority],
             readyList   |-> <<>>,
             allThreads  |-> <<Root>>,
             started     |-> {Root},
             threadToBeDestroyed |-> NoThread,
             needResched |-> FALSE,
             halted      |-> FALSE]
    BY DEF Init, Boot
  <1>2. k \in Kernel
    BY <1>1, PriorityAssumption DEF Kernel, ThreadStatus, Priority
  <1>3. \A t \in Thread : Contains(<<Root>>, t) <=> t = Root
    BY DEF Contains
  <1>4. Distinct(<<Root>>) /\ Distinct(<<>>) /\ \A t \in Thread : ~Contains(<<>>, t)
    BY DEF Contains, Distinct
  <1>5. ReadyListExact(k)
    BY <1>1, <1>4 DEF ReadyListExact
  <1>6. KernelSound(k)
    BY <1>1, <1>2, <1>3, <1>4, <1>5 DEF KernelSound
  <1>7. /\ born = {Root}
        /\ \A p \in Thread : proc[p] = NewProcess(NoThread)
        /\ \A p \in Thread :
              /\ proc[p].pc = "user" /\ proc[p].ParentPtr = NoThread
              /\ proc[p].Children = 0 /\ proc[p].ChildList = <<>>
              /\ proc[p].ChildExited.value = 0 /\ proc[p].ChildExited.queue = <<>>
              /\ proc[p].thread_exit_status = FALSE
    BY DEF Init, NewProcess
  <1>8. Shape(proc, born)
    <2>1. IsFiniteSet({Root})
      BY FS_Singleton
    <2>2. NewProcess(NoThread) \in Process
      BY DEF NewProcess, Process, KernelSemaphore
    <2>3. proc \in [Thread -> Process]
      BY <2>2 DEF Init
    <2> QED BY <1>7, <2>1, <2>3 DEF Shape
  <1>9. UnbornSound(k, proc, born) /\ ParentsSound(proc, born)
    BY <1>1, <1>7 DEF UnbornSound, ParentsSound
  <1>10. PhaseSound(k, proc, born) /\ CarcassSound(k, proc, born)
    BY <1>1, <1>7 DEF PhaseSound, CarcassSound
  <1>11. ListsSound(k, proc, born)
    BY <1>4, <1>7 DEF ListsSound
  <1>12. CountsSound(proc, born)
    <2>1. \A p \in Thread : Unannounced(proc, born, p) = {}
      BY <1>7, ThreadAssumption DEF Unannounced
    <2>2. Cardinality({}) = 0
      BY FS_EmptySet
    <2>3. ASSUME NEW p \in Thread
          PROVE  /\ Len(proc[p].ChildList)
                      = proc[p].ChildExited.value + (IF proc[p].pc = "reap" THEN 1 ELSE 0)
                 /\ proc[p].Children = Len(proc[p].ChildList)
                      + Cardinality(Unannounced(proc, born, p))
      <3>1. /\ Len(proc[p].ChildList) = 0 /\ proc[p].ChildExited.value = 0
            /\ proc[p].pc # "reap" /\ proc[p].Children = 0
        BY <1>7
      <3>2. Cardinality(Unannounced(proc, born, p)) = 0
        BY <2>1, <2>2
      <3> QED BY <3>1, <3>2
    <2> QED BY <2>3 DEF CountsSound
  <1> QED BY <1>6, <1>8, <1>9, <1>10, <1>11, <1>12 DEF IInv, Sound

LEMMA WaitExitStep ==
    ASSUME IInv, NEW p \in Thread, Wait(p) \/ Exit(p)
    PROVE  IInv'
  <1>1. /\ Executing(k, p) /\ proc[p].pc = "user" /\ k' = k /\ born' = born
        /\ \E x \in {"P", "notify"}, y \in BOOLEAN :
              /\ proc' = [proc EXCEPT ![p].pc = x, ![p].exiting = y]
              /\ x = "notify" => ~(proc[p].Children > 0)
    <2>1. CASE Wait(p)
      <3>1. proc' = [proc EXCEPT ![p].pc = "P"] /\ proc \in [Thread -> Process]
        BY <2>1 DEF Wait, IInv, Sound, Shape
      <3>2. proc' = [proc EXCEPT ![p].pc = "P", ![p].exiting = proc[p].exiting]
            /\ proc[p].exiting \in BOOLEAN
        BY <3>1 DEF Process
      <3> QED BY <2>1, <3>2 DEF Wait, InProgram, MayProceed
    <2>2. CASE Exit(p)
      BY <2>2 DEF Exit, InProgram, MayProceed
    <2> QED BY <2>1, <2>2
  <1>2. /\ p \in born /\ k.status[p] = "RUNNING" /\ k.currentThread = p
        /\ KernelSound(k) /\ proc[p] \in Process
        /\ proc[p].ChildExited.queue = <<>>
    BY <1>1, Running
  <1>3. PICK x \in {"P", "notify"}, y \in BOOLEAN :
              /\ proc' = [proc EXCEPT ![p].pc = x, ![p].exiting = y]
              /\ x = "notify" => ~(proc[p].Children > 0)
    BY <1>1
  <1>4. /\ proc \in [Thread -> Process] /\ Shape(proc, born) /\ Sound(k, proc, born)
        /\ proc[p].Children \in Nat
    BY <1>2 DEF IInv, Sound, Shape, Process
  <1>5. /\ proc' = [proc EXCEPT ![p] = [proc[p] EXCEPT !.pc = x, !.exiting = y]]
        /\ \A t \in Thread : t # p => proc'[t] = proc[t]
        /\ proc'[p] = [proc[p] EXCEPT !.pc = x, !.exiting = y]
    BY <1>3, <1>4
  <1>6. /\ proc'[p].ParentPtr = proc[p].ParentPtr /\ proc'[p].Children = proc[p].Children
        /\ proc'[p].ChildList = proc[p].ChildList /\ proc'[p].pc = x
        /\ proc'[p].thread_exit_status = proc[p].thread_exit_status
        /\ proc'[p].ChildExited = proc[p].ChildExited
    <2> DEFINE r == [proc[p] EXCEPT !.pc = x, !.exiting = y]
    <2>1. /\ r.ParentPtr = proc[p].ParentPtr /\ r.Children = proc[p].Children
          /\ r.ChildList = proc[p].ChildList /\ r.pc = x
          /\ r.thread_exit_status = proc[p].thread_exit_status
          /\ r.ChildExited = proc[p].ChildExited
      BY <1>2 DEF Process
    <2>2. proc'[p] = r
      BY <1>5
    <2> HIDE DEF r
    <2> QED BY <2>1, <2>2
  <1>7. Shape(proc', born)
    <2>1. [proc[p] EXCEPT !.pc = x, !.exiting = y] \in Process
      BY <1>2 DEF Process
    <2> QED BY <1>4, <1>5, <2>1 DEF Shape
  <1>8. x = "notify" => proc[p].Children = 0
    BY <1>3, <1>4
  <1>9. Local(k, proc, k, proc', p)
    <2>1. proc[p].pc \in {"user", "P", "reap", "notify"} /\ proc[p].pc # "reap"
          /\ proc'[p].pc \in {"user", "P", "reap", "notify"} /\ proc'[p].pc # "reap"
      BY <1>1, <1>6
    <2>2. \A t \in Thread : t # p => proc'[t] = proc[t]
      BY <1>5
    <2> QED BY <1>2, <1>6, <1>8, <2>1, <2>2 DEF Local
  <1> QED BY <1>1, <1>2, <1>4, <1>7, <1>9, LocalStep DEF IInv

LEMMA WaitPStep ==
    ASSUME IInv, NEW p \in Thread, WaitP(p)
    PROVE  IInv'
  <1> DEFINE sem == proc[p].ChildExited
  <1>1. Executing(k, p) /\ proc[p].pc = "P" /\ born' = born
    BY DEF WaitP
  <1>2. /\ p \in born /\ k.status[p] = "RUNNING" /\ k.currentThread = p
        /\ KernelSound(k) /\ proc[p] \in Process /\ k \in Kernel
        /\ sem.queue = <<>>
    BY <1>1, Running
  <1>3. /\ proc \in [Thread -> Process] /\ Shape(proc, born) /\ Sound(k, proc, born)
        /\ sem.value \in Nat /\ sem = [value |-> sem.value, queue |-> <<>>]
    BY <1>2 DEF IInv, Sound, Shape, Process, KernelSemaphore
  <1>4. CASE sem.value = 0
    <2> DEFINE e == Stopped(k, "BLOCKED", k.threadToBeDestroyed)
               w == [value |-> 0, queue |-> <<p>>]
    <2>1. /\ k' = Sleep(k, "BLOCKED")
          /\ proc' = [proc EXCEPT ![p].ChildExited = w, ![p].pc = "P"]
      <3>1. Append(<<>>, p) = <<p>>
        OBVIOUS
      <3>2. [sem EXCEPT !.queue = Append(@, k.currentThread)] = w
        BY <1>2, <1>3, <1>4, <3>1
      <3>3. TryP(k, sem) = [through |-> FALSE, k |-> Sleep(k, "BLOCKED"), sem |-> w]
        BY <1>4, <3>2 DEF TryP
      <3> QED BY <3>3 DEF WaitP
    <2>2. /\ w \in KernelSemaphore /\ w.value = 0 /\ w.queue = <<p>>
      BY DEF KernelSemaphore
    <2> HIDE DEF w
    <2>3. /\ proc' \in [Thread -> Process]
          /\ \A t \in Thread : t # p => proc'[t] = proc[t]
          /\ proc'[p] = [proc[p] EXCEPT !.ChildExited = w, !.pc = "P"]
      BY <1>3, <2>1, <2>2, ZenonT(60) DEF Process
    <2>4. /\ proc'[p].ParentPtr = proc[p].ParentPtr /\ proc'[p].Children = proc[p].Children
          /\ proc'[p].ChildList = proc[p].ChildList /\ proc'[p].pc = "P"
          /\ proc'[p].thread_exit_status = proc[p].thread_exit_status
          /\ proc'[p].ChildExited = w
      BY <1>2, <2>3 DEF Process
    <2>5. /\ KernelSound(e) /\ \A t \in Thread : e.status[t] # "RUNNING"
          /\ e.started = k.started /\ e.threadToBeDestroyed = k.threadToBeDestroyed
          /\ e.currentThread = p
          /\ \A t \in Thread : e.status[t] = IF t = p THEN "BLOCKED" ELSE k.status[t]
      <3>1. k.threadToBeDestroyed # k.currentThread
        BY <1>2, ThreadAssumption DEF KernelSound
      <3> QED BY <1>2, <3>1, StopSound
    <2>6. k' = Dispatch(e)
      BY <1>2, <2>1, SleepStops
    <2> HIDE DEF e
    <2>7. Shape(proc', born)
      BY <1>3, <2>3 DEF Shape
    <2>8. Local(k, proc, e, proc', p)
      BY <1>1, <1>2, <1>4, <2>2, <2>3, <2>4, <2>5 DEF Local
    <2>9. Sound(e, proc', born)
      BY <1>2, <1>3, <2>5, <2>7, <2>8, LocalStep
    <2> QED BY <1>1, <2>5, <2>6, <2>9, DispatchSound DEF IInv
  <1>5. CASE sem.value # 0
    <2> DEFINE w == [value |-> sem.value - 1, queue |-> <<>>]
    <2>1. k' = k /\ proc' = [proc EXCEPT ![p].ChildExited = w, ![p].pc = "reap"]
      <3>1. [sem EXCEPT !.value = @ - 1] = w
        BY <1>3
      <3>2. TryP(k, sem) = [through |-> TRUE, k |-> k, sem |-> w]
        BY <1>5, <3>1 DEF TryP
      <3> QED BY <3>2 DEF WaitP
    <2>2. w \in KernelSemaphore /\ w.value = sem.value - 1 /\ w.queue = <<>>
      BY <1>3, <1>5 DEF KernelSemaphore
    <2> HIDE DEF w
    <2>3. /\ proc' \in [Thread -> Process]
          /\ \A t \in Thread : t # p => proc'[t] = proc[t]
          /\ proc'[p] = [proc[p] EXCEPT !.ChildExited = w, !.pc = "reap"]
      BY <1>3, <2>1, <2>2, ZenonT(60) DEF Process
    <2>4. /\ proc'[p].ParentPtr = proc[p].ParentPtr /\ proc'[p].Children = proc[p].Children
          /\ proc'[p].ChildList = proc[p].ChildList /\ proc'[p].pc = "reap"
          /\ proc'[p].thread_exit_status = proc[p].thread_exit_status
          /\ proc'[p].ChildExited = w
      BY <1>2, <2>3 DEF Process
    <2>5. Shape(proc', born)
      BY <1>3, <2>3 DEF Shape
    <2>6. w.value + 1 = sem.value + 0
      BY <1>3, <2>2
    <2>7. Local(k, proc, k, proc', p)
      BY <1>1, <1>2, <2>2, <2>3, <2>4, <2>6 DEF Local
    <2> QED BY <1>1, <1>2, <1>3, <2>1, <2>5, <2>7, LocalStep DEF IInv
  <1> QED BY <1>4, <1>5

\* Nice moves no thread: the one whose priority changes is not on the list.
LEMMA NiceStep ==
    ASSUME IInv, NEW p \in Thread, NEW inc \in NiceRange, Nice(p, inc)
    PROVE  IInv'
  <1>1. Executing(k, p) /\ k' = Prioritize(k, inc) /\ proc' = proc /\ born' = born
    BY DEF Nice, InProgram, MayProceed
  <1>2. /\ p \in born /\ k.status[p] = "RUNNING" /\ k.currentThread = p
        /\ KernelSound(k) /\ k \in Kernel /\ Shape(proc, born)
        /\ proc[p].ChildExited.queue = <<>>
    BY <1>1, Running
  <1>3. k.Priority \in [Thread -> Priority] /\ inc \in Int /\ k.readyList \in Seq(Thread)
        /\ k.status \in [Thread -> ThreadStatus]
    BY <1>2, KernelFields, RootAssumption
  <1> DEFINE n == k.Priority[p] + inc
             v == IF n < 0 THEN 0 ELSE IF n > MaxPriority THEN MaxPriority ELSE n
             f == [k.Priority EXCEPT ![p] = v]
  <1>4. k' = [k EXCEPT !.Priority = f]
    BY <1>1, <1>2 DEF Prioritize
  <1>5. v \in Priority
    BY <1>3, PriorityAssumption DEF Priority
  <1> HIDE DEF v
  <1>6. f \in [Thread -> Priority] /\ \A t \in Thread : t # p => f[t] = k.Priority[t]
    BY <1>3, <1>5
  <1> HIDE DEF f
  <1>7. /\ k' \in Kernel /\ k'.Priority = f /\ k'.status = k.status
        /\ k'.readyList = k.readyList /\ k'.currentThread = k.currentThread
        /\ k'.allThreads = k.allThreads /\ k'.started = k.started
        /\ k'.threadToBeDestroyed = k.threadToBeDestroyed
    BY <1>2, <1>4, <1>6 DEF Kernel
  <1>8. ReadyListExact(k')
    <2>1. \A i \in 1 .. Len(k.readyList) : k.readyList[i] \in Thread /\ k.readyList[i] # p
      BY <1>2, <1>3 DEF KernelSound, ReadyListExact, Contains
    <2>2. ASSUME NEW i \in 1 .. Len(k.readyList), NEW j \in 1 .. Len(k.readyList), i < j
          PROVE  /\ k.readyList[i] # k.readyList[j]
                 /\ f[k.readyList[i]] <= f[k.readyList[j]]
      BY <1>2, <1>6, <2>1, <2>2 DEF KernelSound, ReadyListExact
    <2> QED BY <1>2, <1>7, <2>2 DEF KernelSound, ReadyListExact
  <1>9. KernelSound(k')
    BY <1>2, <1>7, <1>8 DEF KernelSound
  <1>10. Local(k, proc, k', proc, p)
    BY <1>2, <1>7 DEF Local, IInv, Sound, PhaseSound
  <1> QED BY <1>1, <1>2, <1>9, <1>10, LocalStep DEF IInv

LEMMA PreemptStep ==
    ASSUME IInv, NEW p \in Thread, Preempt(p)
    PROVE  IInv'
  <1>1. Executing(k, p) /\ k' = Yield(k) /\ proc' = proc /\ born' = born
    BY DEF Preempt
  <1>2. /\ p \in born /\ k.status[p] = "RUNNING" /\ k.currentThread = p
        /\ KernelSound(k) /\ k \in Kernel /\ Shape(proc, born)
        /\ proc[p].ChildExited.queue = <<>>
    BY <1>1, Running
  <1> DEFINE e == [k EXCEPT !.needResched = FALSE]
             r == ReadyToRun(e, p)
  <1>3. k' = Dispatch(r)
    BY <1>1, <1>2 DEF Yield
  <1>4. /\ e \in Kernel /\ e.status = k.status /\ e.readyList = k.readyList
        /\ e.Priority = k.Priority /\ e.currentThread = p /\ e.allThreads = k.allThreads
        /\ e.started = k.started /\ e.threadToBeDestroyed = k.threadToBeDestroyed
    BY <1>2 DEF Kernel
  <1> HIDE DEF e
  <1>5. KernelSound(e)
    BY <1>2, <1>4 DEF KernelSound, ReadyListExact
  <1>6. /\ KernelSound(r) /\ r.started = e.started /\ r.currentThread = e.currentThread
        /\ r.threadToBeDestroyed = e.threadToBeDestroyed
        /\ \A u \in Thread : r.status[u] = IF u = p THEN "READY" ELSE e.status[u]
    BY <1>2, <1>4, <1>5, ReadySound
  <1> HIDE DEF r
  <1>7. Local(k, proc, r, proc, p)
    <2>1. proc[p].pc # "notify"
      BY DEF Preempt
    <2> QED BY <1>2, <1>4, <1>6, <2>1 DEF Local
  <1>8. Sound(r, proc, born)
    BY <1>2, <1>6, <1>7, LocalStep DEF IInv
  <1>9. \A u \in Thread : r.status[u] # "RUNNING"
    BY <1>2, <1>4, <1>6 DEF KernelSound, ReadyListExact
  <1> QED BY <1>1, <1>3, <1>8, <1>9, DispatchSound DEF IInv

\* The end of System_Exit, and that of the first process.
LEMMA EndingStep ==
    ASSUME IInv, NEW p \in Thread,
           \/ Check(p)
           \/ Notify(p) /\ proc[p].ParentPtr = NoThread
    PROVE  IInv'
  <1>1. /\ Executing(k, p) /\ born' = born /\ proc' = [proc EXCEPT ![p].pc = "gone"]
        /\ \/ /\ proc[p].pc = "check" /\ ~proc[p].thread_exit_status
              /\ k' = Sleep(k, "ZOMBIE")
           \/ /\ k' = Finish(k)
              /\ \/ proc[p].pc = "check" /\ proc[p].thread_exit_status
                 \/ proc[p].pc = "notify" /\ proc[p].ParentPtr = NoThread
    BY DEF Check, Notify, MayProceed
  <1>2. /\ p \in born /\ k.status[p] = "RUNNING" /\ k.currentThread = p
        /\ KernelSound(k) /\ k \in Kernel /\ Shape(proc, born) /\ proc[p] \in Process
    BY <1>1, Running
  <1>3. proc[p].ParentPtr = NoThread => p = Root
    BY <1>2, ThreadAssumption DEF IInv, Sound, ParentsSound, Shape
  <1>4. PICK gone \in {k.threadToBeDestroyed, k.currentThread} :
            /\ k' = Dispatch(Stopped(k, "ZOMBIE", gone))
            /\ \/ /\ gone = p
                  /\ \/ p = Root /\ proc[p].pc = "notify"
                     \/ proc[p].pc = "check" /\ proc[p].thread_exit_status
               \/ /\ gone = k.threadToBeDestroyed
                  /\ proc[p].pc = "check" /\ ~proc[p].thread_exit_status
    BY <1>1, <1>2, <1>3, SleepStops
  <1> DEFINE e == Stopped(k, "ZOMBIE", gone)
  <1>5. /\ KernelSound(e) /\ e.started = k.started
        /\ e.threadToBeDestroyed = gone /\ e.currentThread = p
        /\ \A t \in Thread : /\ e.status[t] # "RUNNING"
                             /\ e.status[t] = IF t = p THEN "ZOMBIE" ELSE k.status[t]
    BY <1>2, StopSound
  <1> HIDE DEF e
  <1>6. /\ proc'[p] = [proc[p] EXCEPT !.pc = "gone"]
        /\ \A t \in Thread : t # p => proc'[t] = proc[t]
        /\ proc' = [proc EXCEPT ![p] = [proc[p] EXCEPT !.pc = "gone"]]
    BY <1>1, <1>2 DEF Shape
  <1>7. Shape(proc', born)
    <2>1. [proc[p] EXCEPT !.pc = "gone"] \in Process
      BY <1>2 DEF Process
    <2> QED BY <1>2, <1>6, <2>1 DEF Shape
  <1>8. Ended(k, proc, e, proc', p)
    BY <1>2, <1>4, <1>5, <1>6 DEF Ended
  <1>9. Sound(e, proc', born)
    BY <1>2, <1>5, <1>7, <1>8, EndStep DEF IInv
  <1> QED BY <1>1, <1>4, <1>5, <1>9, DispatchSound DEF IInv, e

-----------------------------------------------------------------------------
(* The actions that concern a parent and a child *)

\* The kernel's part of Fork.
LEMMA ForkKernel ==
    ASSUME NEW s, KernelSound(s), NEW c \in Thread, s.status[c] = "ABSENT"
    PROVE  LET r == ReadyToRun(NewThread(s, c), c)
           IN  /\ KernelSound(r) /\ r.started = s.started
               /\ r.threadToBeDestroyed = s.threadToBeDestroyed
               /\ r.currentThread = s.currentThread
               /\ \A t \in Thread : r.status[t] = IF t = c THEN "READY" ELSE s.status[t]
  <1> DEFINE n == NewThread(s, c)
             r == ReadyToRun(n, c)
             f == [s.status EXCEPT ![c] = "JUST_CREATED"]
             g == [s.Priority EXCEPT ![c] = DefaultPriority]
             a == Append(s.allThreads, c)
  <1>1. /\ s \in Kernel /\ s.status \in [Thread -> ThreadStatus]
        /\ s.Priority \in [Thread -> Priority] /\ s.allThreads \in Seq(Thread)
        /\ s.readyList \in Seq(Thread)
        /\ s.threadToBeDestroyed \in Thread \cup {NoThread}
    BY KernelFields DEF KernelSound
  <1>2. /\ f \in [Thread -> ThreadStatus]
        /\ \A t \in Thread : f[t] = IF t = c THEN "JUST_CREATED" ELSE s.status[t]
    BY <1>1 DEF ThreadStatus
  <1>3. g \in [Thread -> Priority] /\ \A t \in Thread : t # c => g[t] = s.Priority[t]
    BY <1>1, PriorityAssumption DEF Priority
  <1>4. /\ a \in Seq(Thread) /\ Distinct(a)
        /\ \A t : Contains(a, t) <=> t = c \/ Contains(s.allThreads, t)
    BY <1>1, AppendContains, AppendProperties DEF KernelSound
  <1>5. n = [s EXCEPT !.status = f, !.Priority = g, !.allThreads = a]
    BY <1>1 DEF NewThread, addToList, Kernel
  <1> HIDE DEF f, g, a, n
  <1>6. /\ n \in Kernel /\ n.status = f /\ n.Priority = g /\ n.allThreads = a
        /\ n.readyList = s.readyList /\ n.currentThread = s.currentThread
        /\ n.started = s.started /\ n.threadToBeDestroyed = s.threadToBeDestroyed
    BY <1>1, <1>2, <1>3, <1>4, <1>5 DEF Kernel
  <1>7. ReadyListExact(n)
    <2>1. ~Contains(s.readyList, c)
      BY DEF KernelSound, ReadyListExact
    <2>2. \A i \in 1 .. Len(s.readyList) : s.readyList[i] \in Thread /\ s.readyList[i] # c
      BY <1>1, <2>1 DEF Contains
    <2>3. ASSUME NEW i \in 1 .. Len(s.readyList), NEW j \in 1 .. Len(s.readyList), i < j
          PROVE  /\ s.readyList[i] # s.readyList[j]
                 /\ g[s.readyList[i]] <= g[s.readyList[j]]
      BY <1>3, <2>2, <2>3 DEF KernelSound, ReadyListExact
    <2>4. \A t \in Thread : f[t] = "READY" <=> Contains(s.readyList, t)
      BY <1>2, <2>1 DEF KernelSound, ReadyListExact
    <2>5. \A t \in Thread : f[t] = "RUNNING" => t = s.currentThread
      BY <1>2 DEF KernelSound, ReadyListExact
    <2> QED BY <1>6, <2>3, <2>4, <2>5 DEF ReadyListExact
  <1>8. n.status[c] # "READY"
    BY <1>2, <1>6
  <1>9. /\ r \in Kernel /\ ReadyListExact(r)
        /\ r = [n EXCEPT !.needResched = r.needResched,
                         !.status = [n.status EXCEPT ![c] = "READY"],
                         !.readyList = r.readyList]
    BY <1>6, <1>7, <1>8, ReadyToRunExact
  <1> HIDE DEF r
  <1>10. /\ r.status = [f EXCEPT ![c] = "READY"] /\ r.allThreads = a
         /\ r.threadToBeDestroyed = s.threadToBeDestroyed /\ r.started = s.started
         /\ r.currentThread = s.currentThread
    BY <1>6, <1>9 DEF Kernel
  <1>11. \A t \in Thread : r.status[t] = IF t = c THEN "READY" ELSE s.status[t]
    BY <1>2, <1>10
  <1>12. KernelSound(r)
    <2>1. r.threadToBeDestroyed # NoThread => r.status[r.threadToBeDestroyed] = "ZOMBIE"
      BY <1>1, <1>10, <1>11 DEF KernelSound
    <2>2. \A t \in Thread : Contains(r.allThreads, t) <=> r.status[t] # "ABSENT"
      BY <1>4, <1>10, <1>11 DEF KernelSound
    <2>3. \A t \in Thread : r.status[t] # "JUST_CREATED"
      BY <1>11 DEF KernelSound
    <2>4. Distinct(r.allThreads)
      BY <1>4, <1>10
    <2> QED BY <1>9, <2>1, <2>2, <2>3, <2>4 DEF KernelSound
  <1> QED BY <1>10, <1>11, <1>12 DEF r, n

LEMMA ForkStep ==
    ASSUME IInv, NEW p \in Thread, NEW c \in Thread, Fork(p, c)
    PROVE  IInv'
  <1>1. /\ Executing(k, p) /\ proc[p].pc = "user" /\ c \notin born
        /\ k' = ReadyToRun(NewThread(k, c), c) /\ born' = born \cup {c}
        /\ proc' = [proc EXCEPT ![p] = Add_Child(@), ![c] = NewProcess(p)]
    BY DEF Fork, InProgram, MayProceed
  <1>2. /\ p \in born /\ k.status[p] = "RUNNING" /\ k.currentThread = p
        /\ KernelSound(k) /\ Shape(proc, born) /\ proc[p] \in Process
        /\ proc[p].ChildExited.queue = <<>> /\ p \in k.started
    BY <1>1, Running
  <1>3. /\ k.status[c] = "ABSENT" /\ proc[c] = NewProcess(NoThread) /\ p # c
        /\ proc \in [Thread -> Process] /\ c # Root /\ born \in SUBSET Thread
        /\ k.currentThread # c
    BY <1>1, <1>2 DEF IInv, Sound, UnbornSound, Shape
  <1>4. /\ KernelSound(k') /\ k'.started = k.started
        /\ k'.threadToBeDestroyed = k.threadToBeDestroyed
        /\ k'.currentThread = p
        /\ \A t \in Thread : k'.status[t] = IF t = c THEN "READY" ELSE k.status[t]
    BY <1>1, <1>2, <1>3, ForkKernel
  <1> DEFINE d == Add_Child(proc[p])
             n == NewProcess(p)
  <1>5. /\ d \in Process /\ d.pc = "user" /\ d.ParentPtr = proc[p].ParentPtr
        /\ d.Children = proc[p].Children + 1 /\ d.ChildList = proc[p].ChildList
        /\ d.ChildExited = proc[p].ChildExited
        /\ d.thread_exit_status = proc[p].thread_exit_status
    BY <1>1, <1>2 DEF Add_Child, Process
  <1>6. /\ n \in Process /\ n.pc = "user" /\ n.ParentPtr = p /\ n.Children = 0
        /\ n.ChildList = <<>> /\ n.ChildExited.value = 0 /\ n.ChildExited.queue = <<>>
        /\ n.thread_exit_status = FALSE
    BY <1>2 DEF NewProcess, Process, KernelSemaphore
  <1>7. /\ proc' = [proc EXCEPT ![p] = d, ![c] = n]
        /\ \A t \in Thread : proc'[t] = IF t = c THEN n ELSE IF t = p THEN d ELSE proc[t]
    BY <1>1, <1>3
  <1> HIDE DEF d, n
  <1>8. Shape(proc', born')
    <2>1. IsFiniteSet(born') /\ born' \in SUBSET Thread
      BY <1>1, <1>2, FS_AddElement DEF Shape
    <2> QED BY <1>1, <1>2, <1>3, <1>5, <1>6, <1>7, <2>1 DEF Shape
  <1>9. \A t \in Thread : t # c => /\ proc'[t].pc = proc[t].pc
                                   /\ proc'[t].ParentPtr = proc[t].ParentPtr
                                   /\ proc'[t].ChildList = proc[t].ChildList
                                   /\ proc'[t].ChildExited = proc[t].ChildExited
                                   /\ proc'[t].thread_exit_status = proc[t].thread_exit_status
                                   /\ t # p => proc'[t].Children = proc[t].Children
    BY <1>1, <1>5, <1>7
  <1>10. UnbornSound(k', proc', born')
    BY <1>1, <1>2, <1>4, <1>7 DEF IInv, Sound, UnbornSound
  <1>11. PhaseSound(k', proc', born')
    <2> SUFFICES ASSUME NEW q \in born'
                 PROVE  /\ proc'[q].pc = "gone" <=> k'.status[q] \in {"ZOMBIE", "ABSENT"}
                        /\ proc'[q].ChildExited.queue
                             = IF k'.status[q] = "BLOCKED" THEN <<q>> ELSE <<>>
                        /\ k'.status[q] = "BLOCKED" => proc'[q].pc = "P"
                        /\ k'.status[q] # "ABSENT" /\ q \notin k'.started
                              => k'.status[q] = "READY" /\ proc'[q].pc = "user" /\ q # Root
                        /\ proc'[q].pc \in {"notify", "check", "gone"} => proc'[q].Children = 0
                        /\ proc'[q].thread_exit_status => proc'[q].pc \in {"check", "gone"}
      BY DEF PhaseSound
    <2>1. CASE q = c
      BY <1>3, <1>4, <1>6, <1>7, <2>1
    <2>2. CASE q = p
      <3>1. ~proc[p].thread_exit_status
        BY <1>1, <1>2 DEF IInv, Sound, PhaseSound
      <3>2. proc'[p] = d /\ k'.status[p] = "RUNNING" /\ p \in k'.started
        BY <1>2, <1>3, <1>4, <1>7
      <3> QED BY <1>2, <1>5, <2>2, <3>1, <3>2
    <2>3. CASE q # c /\ q # p
      <3>1. q \in born /\ q \in Thread /\ proc'[q] = proc[q] /\ k'.status[q] = k.status[q]
        BY <1>1, <1>3, <1>4, <1>7, <2>3
      <3>2. /\ proc[q].pc = "gone" <=> k.status[q] \in {"ZOMBIE", "ABSENT"}
            /\ proc[q].ChildExited.queue = IF k.status[q] = "BLOCKED" THEN <<q>> ELSE <<>>
            /\ k.status[q] = "BLOCKED" => proc[q].pc = "P"
            /\ k.status[q] # "ABSENT" /\ q \notin k.started
                  => k.status[q] = "READY" /\ proc[q].pc = "user" /\ q # Root
            /\ proc[q].pc \in {"notify", "check", "gone"} => proc[q].Children = 0
            /\ proc[q].thread_exit_status => proc[q].pc \in {"check", "gone"}
        BY <3>1 DEF IInv, Sound, PhaseSound
      <3>3. k'.started = k.started
        BY <1>4
      <3> QED BY <3>1, <3>2, <3>3
    <2> QED BY <2>1, <2>2, <2>3
  <1>12. ParentsSound(proc', born')
    BY <1>1, <1>2, <1>3, <1>6, <1>7, <1>9 DEF IInv, Sound, ParentsSound
  <1>13. \A q \in Thread, x \in Thread :
            Contains(proc'[q].ChildList, x) => q # c /\ x # c /\ Contains(proc[q].ChildList, x)
    <2> SUFFICES ASSUME NEW q \in Thread, NEW x \in Thread, Contains(proc'[q].ChildList, x)
                 PROVE  q # c /\ x # c /\ Contains(proc[q].ChildList, x)
      OBVIOUS
    <2>1. q # c
      <3>1. proc'[c].ChildList = <<>>
        BY <1>6, <1>7
      <3>2. ~Contains(<<>>, x)
        BY DEF Contains
      <3> QED BY <3>1, <3>2
    <2>2. Contains(proc[q].ChildList, x)
      BY <1>9, <2>1
    <2>3. x \in born
      BY <2>2 DEF IInv, Sound, ListsSound
    <2> QED BY <1>1, <2>1, <2>2, <2>3
  <1>14. ListsSound(k', proc', born')
    <2> SUFFICES ASSUME NEW q \in Thread
                 PROVE  /\ Distinct(proc'[q].ChildList)
                        /\ \A x \in Thread : Contains(proc'[q].ChildList, x) =>
                              /\ x \in born' /\ proc'[x].ParentPtr = q
                              /\ proc'[x].pc \in {"check", "gone"}
                              /\ ~proc'[x].thread_exit_status
                              /\ k'.status[x] # "ABSENT" /\ k'.threadToBeDestroyed # x
      BY DEF ListsSound
    <2>1. Distinct(proc'[q].ChildList)
      <3>1. CASE q = c
        <4>1. proc'[c].ChildList = <<>>
          BY <1>6, <1>7
        <4>2. Distinct(<<>>)
          BY DEF Distinct
        <4> QED BY <3>1, <4>1, <4>2
      <3>2. CASE q # c
        BY <1>9, <3>2 DEF IInv, Sound, ListsSound
      <3> QED BY <3>1, <3>2
    <2>2. ASSUME NEW x \in Thread, Contains(proc'[q].ChildList, x)
          PROVE  /\ x \in born' /\ proc'[x].ParentPtr = q
                 /\ proc'[x].pc \in {"check", "gone"} /\ ~proc'[x].thread_exit_status
                 /\ k'.status[x] # "ABSENT" /\ k'.threadToBeDestroyed # x
      <3>1. q # c /\ x # c /\ Contains(proc[q].ChildList, x)
        BY <1>13, <2>2
      <3>2. /\ x \in born /\ proc[x].ParentPtr = q
            /\ proc[x].pc \in {"check", "gone"} /\ ~proc[x].thread_exit_status
            /\ k.status[x] # "ABSENT" /\ k.threadToBeDestroyed # x
        BY <3>1 DEF IInv, Sound, ListsSound
      <3>3. /\ proc'[x].ParentPtr = proc[x].ParentPtr /\ proc'[x].pc = proc[x].pc
            /\ proc'[x].thread_exit_status = proc[x].thread_exit_status
        BY <1>9, <3>1
      <3>4. k'.status[x] = k.status[x] /\ k'.threadToBeDestroyed = k.threadToBeDestroyed
        BY <1>4, <3>1
      <3> QED BY <1>1, <3>2, <3>3, <3>4
    <2> QED BY <2>1, <2>2
  <1>15. \A x \in born : Listed(proc, x) => Listed(proc', x)
    <2> SUFFICES ASSUME NEW x \in born, x # Root, Listed(proc, x)
                 PROVE  Listed(proc', x)
      BY DEF Listed
    <2>1. proc[x].ParentPtr \in born /\ x \in Thread /\ x # c
      BY <1>1, <1>3 DEF IInv, Sound, ParentsSound
    <2>2. proc'[x].ParentPtr = proc[x].ParentPtr
          /\ proc'[proc[x].ParentPtr].ChildList = proc[proc[x].ParentPtr].ChildList
      BY <1>1, <1>3, <1>9, <2>1
    <2> QED BY <2>2 DEF Listed
  <1>16. CarcassSound(k', proc', born')
    <2>1. ASSUME NEW x \in born'
          PROVE  /\ proc'[x].pc = "check" => proc'[x].thread_exit_status \/ Listed(proc', x)
                 /\ proc'[x].pc = "check" => x # Root
                 /\ k'.status[x] = "ZOMBIE" => k'.threadToBeDestroyed = x \/ Listed(proc', x)
      <3>1. CASE x = c
        BY <1>4, <1>6, <1>7, <3>1
      <3>2. CASE x # c
        <4>1. x \in born /\ x \in Thread
          BY <1>1, <1>3, <3>2
        <4> QED BY <1>4, <1>9, <1>15, <3>2, <4>1 DEF IInv, Sound, CarcassSound
      <3> QED BY <3>1, <3>2
    <2>2. k'.threadToBeDestroyed # NoThread
            => p # Root /\ ~proc'[p].thread_exit_status
      BY <1>2, <1>3, <1>4, <1>9 DEF IInv, Sound, CarcassSound
    <2> QED BY <1>4, <2>1, <2>2 DEF CarcassSound
  <1>17. Unannounced(proc', born', p) = Unannounced(proc, born, p) \cup {c}
    BY <1>1, <1>3, <1>6, <1>7, <1>9 DEF Unannounced
  <1>18. ASSUME NEW q \in Thread, q # p
         PROVE  Unannounced(proc', born', q) = Unannounced(proc, born, q)
    BY <1>1, <1>3, <1>6, <1>7, <1>9, <1>18 DEF Unannounced
  <1>19. CountsSound(proc', born')
    <2> SUFFICES ASSUME NEW q \in Thread
                 PROVE  /\ Len(proc'[q].ChildList)
                             = proc'[q].ChildExited.value
                               + (IF proc'[q].pc = "reap" THEN 1 ELSE 0)
                        /\ proc'[q].Children = Len(proc'[q].ChildList)
                             + Cardinality(Unannounced(proc', born', q))
      BY DEF CountsSound
    <2>1. /\ Len(proc[q].ChildList)
                = proc[q].ChildExited.value + (IF proc[q].pc = "reap" THEN 1 ELSE 0)
          /\ proc[q].Children = Len(proc[q].ChildList)
                + Cardinality(Unannounced(proc, born, q))
      BY DEF IInv, Sound, CountsSound
    <2>2. CASE q = p
      <3>1. IsFiniteSet(Unannounced(proc, born, p)) /\ c \notin Unannounced(proc, born, p)
        <4>1. Unannounced(proc, born, p) \in SUBSET born
          BY DEF Unannounced
        <4> QED BY <1>1, <1>2, <4>1, FS_Subset DEF Shape
      <3>2. Cardinality(Unannounced(proc', born', p))
              = Cardinality(Unannounced(proc, born, p)) + 1
        BY <1>17, <3>1, FS_AddElement
      <3>3. Cardinality(Unannounced(proc, born, p)) \in Nat /\ Len(proc[p].ChildList) \in Nat
        BY <1>2, <3>1, FS_CardinalityType DEF Process
      <3>4. /\ proc'[p].Children = proc[p].Children + 1
            /\ proc'[p].ChildList = proc[p].ChildList
            /\ proc'[p].ChildExited = proc[p].ChildExited /\ proc'[p].pc = proc[p].pc
        BY <1>1, <1>3, <1>5, <1>7
      <3> QED BY <2>1, <2>2, <3>2, <3>3, <3>4
    <2>3. CASE q = c
      <3>1. proc[c].Children = 0 /\ proc[c].ChildList = <<>>
            /\ proc[c].ChildExited.value = 0 /\ proc[c].pc = "user"
        BY <1>3 DEF NewProcess
      <3>2. proc'[c].Children = 0 /\ proc'[c].ChildList = <<>>
            /\ proc'[c].ChildExited.value = 0 /\ proc'[c].pc = "user"
        BY <1>6, <1>7
      <3> QED BY <1>3, <1>18, <2>1, <2>3, <3>1, <3>2
    <2>4. CASE q # p /\ q # c
      BY <1>9, <1>18, <2>1, <2>4
    <2> QED BY <2>2, <2>3, <2>4
  <1> QED BY <1>4, <1>8, <1>10, <1>11, <1>12, <1>14, <1>16, <1>19 DEF IInv, Sound

\* The kernel's part of a child's V on its parent's semaphore: the parent is
\* woken if it sleeps.
LEMMA VKernel ==
    ASSUME NEW s, KernelSound(s), NEW q \in Thread, NEW sem \in KernelSemaphore,
           sem.queue = IF s.status[q] = "BLOCKED" THEN <<q>> ELSE <<>>
    PROVE  LET r == V(s, sem)
           IN  /\ KernelSound(r.k) /\ r.k.started = s.started
               /\ r.k.threadToBeDestroyed = s.threadToBeDestroyed
               /\ r.k.currentThread = s.currentThread
               /\ \A t \in Thread : r.k.status[t]
                     = IF t = q /\ s.status[q] = "BLOCKED" THEN "READY" ELSE s.status[t]
               /\ r.sem = [value |-> sem.value + 1, queue |-> <<>>]
  <1>1. sem.value \in Nat /\ sem = [value |-> sem.value, queue |-> sem.queue]
    BY DEF KernelSemaphore
  <1>2. CASE s.status[q] = "BLOCKED"
    <2>1. sem.queue = <<q>> /\ sem.queue # <<>> /\ Head(sem.queue) = q /\ Tail(sem.queue) = <<>>
      BY <1>2
    <2>2. V(s, sem) = [k |-> ReadyToRun(s, q), sem |-> [value |-> sem.value + 1, queue |-> <<>>]]
      BY <1>1, <2>1 DEF V
    <2>3. /\ KernelSound(ReadyToRun(s, q)) /\ ReadyToRun(s, q).started = s.started
          /\ ReadyToRun(s, q).threadToBeDestroyed = s.threadToBeDestroyed
          /\ ReadyToRun(s, q).currentThread = s.currentThread
          /\ \A u \in Thread :
                ReadyToRun(s, q).status[u] = IF u = q THEN "READY" ELSE s.status[u]
      BY <1>2, ReadySound
    <2> QED BY <1>2, <2>2, <2>3
  <1>3. CASE s.status[q] # "BLOCKED"
    <2>1. V(s, sem) = [k |-> s, sem |-> [value |-> sem.value + 1, queue |-> <<>>]]
      BY <1>1, <1>3 DEF V
    <2> QED BY <1>3, <2>1
  <1> QED BY <1>2, <1>3

\* A child announces itself: it is put on the list before the semaphore counts it.
LEMMA NotifyStep ==
    ASSUME IInv, NEW p \in Thread, Notify(p), proc[p].ParentPtr # NoThread
    PROVE  IInv'
  <1> DEFINE q == proc[p].ParentPtr
             r == V(k, proc[q].ChildExited)
  <1>1. /\ Executing(k, p) /\ proc[p].pc = "notify" /\ born' = born
        /\ k' = r.k
        /\ proc' = [proc EXCEPT ![p].thread_exit_status = FALSE,
                      ![p].pc = "check",
                      ![q] = Queue_Child(@, p),
                      ![q].ChildExited = r.sem]
    BY DEF Notify
  <1>2. /\ p \in born /\ k.status[p] = "RUNNING" /\ k.currentThread = p
        /\ KernelSound(k) /\ Shape(proc, born) /\ proc[p] \in Process
        /\ proc[p].ChildExited.queue = <<>> /\ p \in k.started
    BY <1>1, Running
  <1>3. p # Root /\ q \in born /\ q # p
    BY <1>2 DEF IInv, Sound, ParentsSound
  <1>4. /\ proc \in [Thread -> Process] /\ born \in SUBSET Thread /\ q \in Thread
        /\ proc[q] \in Process /\ proc[q].ChildExited \in KernelSemaphore
        /\ proc[q].ChildList \in Seq(Thread)
    BY <1>2, <1>3 DEF Shape, Process
  <1> HIDE DEF q
  <1>5. proc[q].ChildExited.queue = IF k.status[q] = "BLOCKED" THEN <<q>> ELSE <<>>
    BY <1>3 DEF IInv, Sound, PhaseSound
  <1> DEFINE w == [value |-> proc[q].ChildExited.value + 1, queue |-> <<>>]
             d == [proc[p] EXCEPT !.thread_exit_status = FALSE, !.pc = "check"]
             a == Append(proc[q].ChildList, p)
             e == [proc[q] EXCEPT !.ChildList = a, !.ChildExited = w]
  <1>6. /\ KernelSound(k') /\ k'.started = k.started /\ r.sem = w
        /\ k'.threadToBeDestroyed = k.threadToBeDestroyed /\ k'.currentThread = p
        /\ \A t \in Thread : k'.status[t]
              = IF t = q /\ k.status[q] = "BLOCKED" THEN "READY" ELSE k.status[t]
    BY <1>1, <1>2, <1>4, <1>5, VKernel
  <1> HIDE DEF r
  <1>7. proc' = [proc EXCEPT ![p] = d, ![q] = e]
    BY <1>1, <1>3, <1>4, <1>6 DEF Queue_Child
  <1>8. w \in KernelSemaphore /\ w.value = proc[q].ChildExited.value + 1 /\ w.queue = <<>>
    BY <1>4 DEF KernelSemaphore
  <1>9. ~Contains(proc[q].ChildList, p)
    BY <1>1, <1>4 DEF IInv, Sound, ListsSound
  <1>10. /\ a \in Seq(Thread) /\ Len(a) = Len(proc[q].ChildList) + 1 /\ Distinct(a)
         /\ \A x : Contains(a, x) <=> x = p \/ Contains(proc[q].ChildList, x)
    BY <1>4, <1>9, AppendContains, AppendProperties DEF IInv, Sound, ListsSound
  <1> HIDE DEF w, a
  <1>11. /\ d \in Process /\ d.pc = "check" /\ d.thread_exit_status = FALSE
         /\ d.ParentPtr = q /\ d.Children = proc[p].Children
         /\ d.ChildList = proc[p].ChildList /\ d.ChildExited = proc[p].ChildExited
    BY <1>2 DEF Process, q
  <1>12. /\ e \in Process /\ e.pc = proc[q].pc /\ e.ParentPtr = proc[q].ParentPtr
         /\ e.thread_exit_status = proc[q].thread_exit_status
         /\ e.Children = proc[q].Children /\ e.ChildList = a /\ e.ChildExited = w
    BY <1>4, <1>8, <1>10 DEF Process
  <1> HIDE DEF d, e
  <1>13. \A t \in Thread : proc'[t] = IF t = q THEN e ELSE IF t = p THEN d ELSE proc[t]
    BY <1>4, <1>7
  <1>14. Shape(proc', born')
    <2>1. d \in Process /\ e \in Process
      BY <1>11, <1>12
    <2>2. proc' \in [Thread -> Process]
      BY <1>4, <1>7, <2>1
    <2>3. born' = born
      BY <1>1
    <2> QED BY <1>2, <2>2, <2>3 DEF Shape
  <1>15. UnbornSound(k', proc', born')
    BY <1>1, <1>2, <1>3, <1>6, <1>13 DEF IInv, Sound, UnbornSound
  <1>16. proc[q].pc \notin {"notify", "check", "gone"}
    <2>1. p \in Unannounced(proc, born, q)
      BY <1>1, <1>2 DEF Unannounced, q
    <2>2. IsFiniteSet(Unannounced(proc, born, q))
      <3>1. Unannounced(proc, born, q) \in SUBSET born
        BY DEF Unannounced
      <3> QED BY <1>2, <3>1, FS_Subset DEF Shape
    <2>3. Cardinality(Unannounced(proc, born, q)) \in Nat \ {0}
      BY <2>1, <2>2, FS_EmptySet, FS_CardinalityType
    <2>4. proc[q].Children = Len(proc[q].ChildList) + Cardinality(Unannounced(proc, born, q))
      BY <1>4 DEF IInv, Sound, CountsSound
    <2>5. proc[q].Children # 0
      BY <1>4, <2>3, <2>4
    <2> QED BY <1>3, <2>5 DEF IInv, Sound, PhaseSound
  <1>17. PhaseSound(k', proc', born')
    <2> SUFFICES ASSUME NEW x \in born
                 PROVE  /\ proc'[x].pc = "gone" <=> k'.status[x] \in {"ZOMBIE", "ABSENT"}
                        /\ proc'[x].ChildExited.queue
                             = IF k'.status[x] = "BLOCKED" THEN <<x>> ELSE <<>>
                        /\ k'.status[x] = "BLOCKED" => proc'[x].pc = "P"
                        /\ k'.status[x] # "ABSENT" /\ x \notin k'.started
                              => k'.status[x] = "READY" /\ proc'[x].pc = "user" /\ x # Root
                        /\ proc'[x].pc \in {"notify", "check", "gone"} => proc'[x].Children = 0
                        /\ proc'[x].thread_exit_status => proc'[x].pc \in {"check", "gone"}
      BY <1>1 DEF PhaseSound
    <2>0. /\ proc[x].pc = "gone" <=> k.status[x] \in {"ZOMBIE", "ABSENT"}
          /\ proc[x].ChildExited.queue = IF k.status[x] = "BLOCKED" THEN <<x>> ELSE <<>>
          /\ k.status[x] = "BLOCKED" => proc[x].pc = "P"
          /\ k.status[x] # "ABSENT" /\ x \notin k.started
                => k.status[x] = "READY" /\ proc[x].pc = "user" /\ x # Root
          /\ proc[x].pc \in {"notify", "check", "gone"} => proc[x].Children = 0
          /\ proc[x].thread_exit_status => proc[x].pc \in {"check", "gone"}
      BY DEF IInv, Sound, PhaseSound
    <2>1. CASE x = p
      <3>1. proc'[p] = d /\ k'.status[p] = "RUNNING" /\ p \in k'.started
        BY <1>2, <1>3, <1>6, <1>13
      <3> QED BY <1>1, <1>2, <1>11, <2>0, <2>1, <3>1
    <2>2. CASE x = q
      <3>1. proc'[q] = e /\ k'.started = k.started
            /\ k'.status[q] = IF k.status[q] = "BLOCKED" THEN "READY" ELSE k.status[q]
        BY <1>4, <1>6, <1>13
      <3> QED BY <1>8, <1>12, <1>16, <2>0, <2>2, <3>1
    <2>3. CASE x # p /\ x # q
      <3>1. x \in Thread /\ proc'[x] = proc[x] /\ k'.status[x] = k.status[x]
            /\ k'.started = k.started
        BY <1>4, <1>6, <1>13, <2>3
      <3> QED BY <2>0, <3>1
    <2> QED BY <2>1, <2>2, <2>3
  <1>18. \A x \in Thread : /\ proc'[x].ParentPtr = proc[x].ParentPtr
                           /\ proc'[x].Children = proc[x].Children
                           /\ x # p => /\ proc'[x].pc = proc[x].pc
                                       /\ proc'[x].thread_exit_status
                                            = proc[x].thread_exit_status
                           /\ x # q => /\ proc'[x].ChildList = proc[x].ChildList
                                       /\ proc'[x].ChildExited = proc[x].ChildExited
    BY <1>11, <1>12, <1>13 DEF q
  <1>19. proc'[p].pc = "check" /\ proc'[p].thread_exit_status = FALSE
         /\ proc'[q].ChildList = a /\ proc'[q].ChildExited = w
    BY <1>3, <1>4, <1>11, <1>12, <1>13
  <1>20. ParentsSound(proc', born')
    BY <1>1, <1>4, <1>18 DEF IInv, Sound, ParentsSound
  <1>21. \A t \in Thread : k'.status[t] = "ABSENT" <=> k.status[t] = "ABSENT"
    BY <1>6
  <1>22. ListsSound(k', proc', born')
    <2> SUFFICES ASSUME NEW y \in Thread
                 PROVE  /\ Distinct(proc'[y].ChildList)
                        /\ \A x \in Thread : Contains(proc'[y].ChildList, x) =>
                              /\ x \in born /\ proc'[x].ParentPtr = y
                              /\ proc'[x].pc \in {"check", "gone"}
                              /\ ~proc'[x].thread_exit_status
                              /\ k'.status[x] # "ABSENT" /\ k'.threadToBeDestroyed # x
      BY <1>1, ZenonT(60) DEF ListsSound
    <2>1. Distinct(proc'[y].ChildList)
      <3>1. CASE y = q
        BY <1>10, <1>19, <3>1
      <3>2. CASE y # q
        BY <1>18, <3>2 DEF IInv, Sound, ListsSound
      <3> QED BY <3>1, <3>2
    <2>2. ASSUME NEW x \in Thread, Contains(proc'[y].ChildList, x)
          PROVE  /\ x \in born /\ proc'[x].ParentPtr = y
                 /\ proc'[x].pc \in {"check", "gone"} /\ ~proc'[x].thread_exit_status
                 /\ k'.status[x] # "ABSENT" /\ k'.threadToBeDestroyed # x
      <3>1. Contains(proc[y].ChildList, x) \/ (x = p /\ y = q)
        BY <1>10, <1>18, <1>19, <2>2
      <3>2. CASE Contains(proc[y].ChildList, x)
        <4>1. /\ x \in born /\ proc[x].ParentPtr = y
              /\ proc[x].pc \in {"check", "gone"} /\ ~proc[x].thread_exit_status
              /\ k.status[x] # "ABSENT" /\ k.threadToBeDestroyed # x
          BY <3>2 DEF IInv, Sound, ListsSound
        <4>2. x # p
          BY <1>1, <4>1
        <4> QED BY <1>6, <1>18, <1>21, <4>1, <4>2
      <3>3. CASE x = p /\ y = q
        <4>1. k.threadToBeDestroyed # p
          BY <1>2, ThreadAssumption DEF KernelSound
        <4>2. proc'[p].ParentPtr = q
          BY <1>18 DEF q
        <4> QED BY <1>2, <1>6, <1>19, <1>21, <3>3, <4>1, <4>2
      <3> QED BY <3>1, <3>2, <3>3
    <2> QED BY <2>1, <2>2
  <1>23. \A x \in born : Listed(proc, x) \/ x = p => Listed(proc', x)
    <2> SUFFICES ASSUME NEW x \in born, Listed(proc, x) \/ x = p
                 PROVE  Listed(proc', x)
      OBVIOUS
    <2>1. x # Root /\ proc[x].ParentPtr \in Thread /\ x \in Thread
      BY <1>3, <1>4 DEF IInv, Sound, ParentsSound, Listed
    <2>2. x = p => Contains(proc'[proc[x].ParentPtr].ChildList, x)
      BY <1>10, <1>19 DEF q
    <2>3. Listed(proc, x) => Contains(proc'[proc[x].ParentPtr].ChildList, x)
      BY <1>10, <1>18, <1>19, <2>1 DEF Listed
    <2> QED BY <1>18, <2>1, <2>2, <2>3 DEF Listed
  <1>24. CarcassSound(k', proc', born')
    <2>1. ASSUME NEW x \in born
          PROVE  /\ proc'[x].pc = "check" => proc'[x].thread_exit_status \/ Listed(proc', x)
                 /\ proc'[x].pc = "check" => x # Root
                 /\ k'.status[x] = "ZOMBIE" => k'.threadToBeDestroyed = x \/ Listed(proc', x)
      <3>1. CASE x = p
        BY <1>3, <1>23, <3>1
      <3>2. CASE x # p
        <4>1. x \in Thread /\ (k'.status[x] = "ZOMBIE" => k.status[x] = "ZOMBIE")
          BY <1>4, <1>6
        <4> QED BY <1>6, <1>18, <1>23, <3>2, <4>1 DEF IInv, Sound, CarcassSound
      <3> QED BY <3>1, <3>2
    <2> QED BY <1>1, <1>3, <1>6, <1>19, <2>1 DEF CarcassSound
  <1>25. Unannounced(proc', born', q) = Unannounced(proc, born, q) \ {p}
    BY <1>1, <1>4, <1>18, <1>19 DEF Unannounced
  <1>26. ASSUME NEW y \in Thread, y # q
         PROVE  Unannounced(proc', born', y) = Unannounced(proc, born, y)
    <2>1. proc[p].ParentPtr # y
      BY <1>26 DEF q
    <2>2. ASSUME NEW x \in born
          PROVE  x \in Unannounced(proc', born, y) <=> x \in Unannounced(proc, born, y)
      <3>1. CASE x = p
        BY <1>18, <2>1, <3>1 DEF Unannounced
      <3>2. CASE x # p
        <4>1. proc'[x].ParentPtr = proc[x].ParentPtr /\ proc'[x].pc = proc[x].pc
          BY <1>4, <1>18, <3>2
        <4> QED BY <4>1 DEF Unannounced
      <3> QED BY <3>1, <3>2
    <2>3. born' = born
      BY <1>1
    <2> QED BY <2>2, <2>3 DEF Unannounced
  <1>27. CountsSound(proc', born')
    <2> SUFFICES ASSUME NEW y \in Thread
                 PROVE  /\ Len(proc'[y].ChildList)
                             = proc'[y].ChildExited.value
                               + (IF proc'[y].pc = "reap" THEN 1 ELSE 0)
                        /\ proc'[y].Children = Len(proc'[y].ChildList)
                             + Cardinality(Unannounced(proc', born', y))
      BY DEF CountsSound
    <2>1. /\ Len(proc[y].ChildList)
                = proc[y].ChildExited.value + (IF proc[y].pc = "reap" THEN 1 ELSE 0)
          /\ proc[y].Children = Len(proc[y].ChildList)
                + Cardinality(Unannounced(proc, born, y))
      BY DEF IInv, Sound, CountsSound
    <2>2. CASE y = q
      <3>1. IsFiniteSet(Unannounced(proc, born, q)) /\ p \in Unannounced(proc, born, q)
        <4>1. Unannounced(proc, born, q) \in SUBSET born
          BY DEF Unannounced
        <4>2. p \in Unannounced(proc, born, q)
          BY <1>1, <1>2 DEF Unannounced, q
        <4> QED BY <1>2, <4>1, <4>2, FS_Subset DEF Shape
      <3>2. Cardinality(Unannounced(proc', born', q))
              = Cardinality(Unannounced(proc, born, q)) - 1
        BY <1>25, <3>1, FS_RemoveElement
      <3>3. /\ Cardinality(Unannounced(proc, born, q)) \in Nat
            /\ Len(proc[q].ChildList) \in Nat /\ proc[q].ChildExited.value \in Nat
        BY <1>4, <3>1, FS_CardinalityType DEF KernelSemaphore
      <3>4. /\ proc'[q].Children = proc[q].Children
            /\ Len(proc'[q].ChildList) = Len(proc[q].ChildList) + 1
            /\ proc'[q].ChildExited.value = proc[q].ChildExited.value + 1
            /\ proc'[q].pc = proc[q].pc
        BY <1>3, <1>4, <1>8, <1>10, <1>18, <1>19
      <3>5. Len(proc'[q].ChildList)
              = proc'[q].ChildExited.value + (IF proc'[q].pc = "reap" THEN 1 ELSE 0)
        BY <2>1, <2>2, <3>3, <3>4
      <3>6. proc'[q].Children = Len(proc'[q].ChildList)
              + Cardinality(Unannounced(proc', born', q))
        <4>1. proc[q].Children = Len(proc[q].ChildList)
                + Cardinality(Unannounced(proc, born, q))
          BY <2>1, <2>2
        <4> HIDE DEF Unannounced
        <4> QED BY <3>2, <3>3, <3>4, <4>1
      <3> QED BY <2>2, <3>5, <3>6
    <2>3. CASE y # q
      <3>1. proc'[y].pc = "reap" <=> proc[y].pc = "reap"
        BY <1>1, <1>18, <1>19
      <3> QED BY <1>18, <1>26, <2>1, <2>3, <3>1
    <2> QED BY <2>2, <2>3
  <1> QED BY <1>6, <1>14, <1>15, <1>17, <1>20, <1>22, <1>24, <1>27 DEF IInv, Sound

\* The kernel's part of Reap: a zombie other than the thread to be destroyed
\* is deleted.
LEMMA DeleteKernel ==
    ASSUME NEW s, KernelSound(s), NEW c \in Thread, s.status[c] = "ZOMBIE",
           s.threadToBeDestroyed # c
    PROVE  LET r == Delete(s, c)
           IN  /\ KernelSound(r) /\ r.started = s.started \ {c}
               /\ r.threadToBeDestroyed = s.threadToBeDestroyed
               /\ r.currentThread = s.currentThread
               /\ \A t \in Thread : r.status[t] = IF t = c THEN "ABSENT" ELSE s.status[t]
  <1> DEFINE r == Delete(s, c)
             f == [s.status EXCEPT ![c] = "ABSENT"]
             a == removeFromList(s.allThreads, c)
  <1>1. /\ s \in Kernel /\ s.status \in [Thread -> ThreadStatus]
        /\ s.allThreads \in Seq(Thread) /\ s.readyList \in Seq(Thread)
        /\ s.started \in SUBSET Thread
        /\ s.threadToBeDestroyed \in Thread \cup {NoThread}
    BY KernelFields DEF KernelSound
  <1>2. /\ f \in [Thread -> ThreadStatus]
        /\ \A t \in Thread : f[t] = IF t = c THEN "ABSENT" ELSE s.status[t]
    BY <1>1 DEF ThreadStatus
  <1>3. /\ a \in Seq(Thread) /\ Distinct(a)
        /\ \A t : Contains(a, t) <=> Contains(s.allThreads, t) /\ t # c
    BY <1>1, RemoveFirstContains DEF KernelSound, removeFromList
  <1>4. r = [s EXCEPT !.status = f, !.started = s.started \ {c}, !.allThreads = a]
    BY <1>1, ThreadAssumption DEF Delete, Kernel
  <1> HIDE DEF f, a, r
  <1>5. s.started \ {c} \in SUBSET Thread
    BY <1>1
  <1>6. /\ r \in Kernel /\ r.status = f /\ r.allThreads = a /\ r.started = s.started \ {c}
        /\ r.readyList = s.readyList /\ r.currentThread = s.currentThread
        /\ r.Priority = s.Priority /\ r.threadToBeDestroyed = s.threadToBeDestroyed
    BY <1>1, <1>2, <1>3, <1>4, <1>5 DEF Kernel
  <1>7. ReadyListExact(r)
    <2>1. \A t \in Thread : /\ f[t] = "READY" <=> s.status[t] = "READY"
                            /\ f[t] = "RUNNING" <=> s.status[t] = "RUNNING"
      BY <1>2
    <2> QED BY <1>6, <2>1 DEF KernelSound, ReadyListExact
  <1>8. KernelSound(r)
    <2>1. r.threadToBeDestroyed # NoThread => r.status[r.threadToBeDestroyed] = "ZOMBIE"
      BY <1>1, <1>2, <1>6 DEF KernelSound
    <2>2. \A t \in Thread : /\ Contains(r.allThreads, t) <=> r.status[t] # "ABSENT"
                            /\ r.status[t] # "JUST_CREATED"
      BY <1>2, <1>3, <1>6 DEF KernelSound
    <2> QED BY <1>3, <1>6, <1>7, <2>1, <2>2 DEF KernelSound
  <1> QED BY <1>2, <1>6, <1>8 DEF r

\* A parent takes a child off its list: it deletes a zombie, and tells a child
\* that is still on its way out to leave itself to the next thread.
LEMMA ReapStep ==
    ASSUME IInv, NEW p \in Thread, Reap(p)
    PROVE  IInv'
  <1> DEFINE list == proc[p].ChildList
             c == Head(list)
             zombie == k.status[c] = "ZOMBIE"
             x == IF ~proc[p].exiting THEN "user"
                  ELSE IF proc[p].Children > 1 THEN "P" ELSE "notify"
  <1>1. /\ Executing(k, p) /\ proc[p].pc = "reap" /\ born' = born
        /\ list # <<>> /\ proc[p].Children > 0
        /\ k' = IF zombie THEN Delete(k, c) ELSE k
        /\ proc' = [proc EXCEPT ![p] = Remove_Child(@), ![p].pc = x,
                      ![c].thread_exit_status = @ \/ ~zombie]
    BY DEF Reap, MayProceed
  <1>2. /\ p \in born /\ k.status[p] = "RUNNING" /\ k.currentThread = p
        /\ KernelSound(k) /\ Shape(proc, born) /\ proc[p] \in Process
        /\ proc[p].ChildExited.queue = <<>> /\ p \in k.started
    BY <1>1, Running
  <1>3. /\ list \in Seq(Thread) /\ Distinct(list) /\ proc[p].Children \in Nat
        /\ proc \in [Thread -> Process] /\ born \in SUBSET Thread
    BY <1>2 DEF IInv, Sound, ListsSound, Process, Shape
  <1> DEFINE rest == Tail(list)
  <1>4. c \in Thread /\ rest \in Seq(Thread) /\ Len(rest) = Len(list) - 1
    BY <1>1, <1>3, HeadTailProperties
  <1>5. /\ Contains(list, c) /\ Distinct(rest)
        /\ \A y : Contains(rest, y) <=> Contains(list, y) /\ y # c
    BY <1>1, <1>3, TailContains
  <1> HIDE DEF c, rest
  <1>6. /\ c \in born /\ proc[c].ParentPtr = p /\ proc[c].pc \in {"check", "gone"}
        /\ ~proc[c].thread_exit_status /\ k.status[c] # "ABSENT"
        /\ k.threadToBeDestroyed # c /\ c # p
    BY <1>1, <1>4, <1>5 DEF IInv, Sound, ListsSound
  <1>7. zombie <=> proc[c].pc = "gone"
    BY <1>6 DEF IInv, Sound, PhaseSound
  <1>8. /\ KernelSound(k') /\ k'.threadToBeDestroyed = k.threadToBeDestroyed
        /\ k'.currentThread = p /\ \A t \in Thread : t # c => (t \in k'.started <=> t \in k.started)
        /\ \A t \in Thread :
              k'.status[t] = IF t = c /\ zombie THEN "ABSENT" ELSE k.status[t]
    <2>1. CASE zombie
      <3>1. k' = Delete(k, c)
        BY <1>1, <2>1
      <3>2. /\ KernelSound(k') /\ k'.started = k.started \ {c}
            /\ k'.threadToBeDestroyed = k.threadToBeDestroyed
            /\ k'.currentThread = k.currentThread
            /\ \A t \in Thread : k'.status[t] = IF t = c THEN "ABSENT" ELSE k.status[t]
        BY <1>2, <1>4, <1>6, <2>1, <3>1, DeleteKernel
      <3> QED BY <1>2, <2>1, <3>2
    <2>2. CASE ~zombie
      BY <1>1, <1>2, <2>2
    <2> QED BY <2>1, <2>2
  <1>9. ~zombie => k'.started = k.started
    BY <1>1
  <1> DEFINE d == [proc[p] EXCEPT !.ChildList = rest, !.Children = proc[p].Children - 1, !.pc = x]
             e == [proc[c] EXCEPT !.thread_exit_status = ~zombie]
  <1>10. proc' = [proc EXCEPT ![p] = d, ![c] = e]
    <2>1. (proc[c].thread_exit_status \/ ~zombie) = ~zombie
      BY <1>6
    <2>2. proc' = [proc EXCEPT ![p] = [Remove_Child(proc[p]) EXCEPT !.pc = x],
                     ![c].thread_exit_status = @ \/ ~zombie]
      BY <1>1, <1>3
    <2>3. [Remove_Child(proc[p]) EXCEPT !.pc = x] = d
      BY <1>2 DEF Remove_Child, Process, rest
    <2> HIDE DEF d, x, zombie
    <2>4. proc' = [proc EXCEPT ![p] = d,
                     ![c] = [proc[c] EXCEPT !.thread_exit_status = proc[c].thread_exit_status \/ ~zombie]]
      BY <1>3, <1>4, <1>6, <2>2, <2>3
    <2> QED BY <2>1, <2>4
  <1>11. /\ x \in {"user", "P", "notify"}
         /\ x = "notify" => proc[p].Children - 1 = 0
    BY <1>1, <1>3
  <1> HIDE DEF x, zombie
  <1>12. /\ d \in Process /\ d.pc = x /\ d.ParentPtr = proc[p].ParentPtr
         /\ d.Children = proc[p].Children - 1 /\ d.ChildList = rest
         /\ d.ChildExited = proc[p].ChildExited
         /\ d.thread_exit_status = proc[p].thread_exit_status
    <2>1. proc[p].Children - 1 \in Nat
      BY <1>1, <1>3
    <2> QED BY <1>2, <1>4, <1>11, <2>1 DEF Process
  <1>13. /\ e \in Process /\ e.pc = proc[c].pc /\ e.ParentPtr = proc[c].ParentPtr
         /\ e.Children = proc[c].Children /\ e.ChildList = proc[c].ChildList
         /\ e.ChildExited = proc[c].ChildExited /\ e.thread_exit_status = ~zombie
    <2>1. proc[c] \in Process /\ (~zombie) \in BOOLEAN
      BY <1>3, <1>4
    <2> QED BY <2>1 DEF Process
  <1> HIDE DEF d, e
  <1>14. \A t \in Thread : proc'[t] = IF t = c THEN e ELSE IF t = p THEN d ELSE proc[t]
    BY <1>3, <1>10
  <1>15. /\ proc'[p] = d /\ proc'[c] = e
         /\ \A t \in Thread : t # c /\ t # p => proc'[t] = proc[t]
    BY <1>4, <1>6, <1>14
  <1>16. Shape(proc', born')
    <2>1. d \in Process /\ e \in Process
      BY <1>12, <1>13
    <2>2. proc' \in [Thread -> Process]
      BY <1>3, <1>10, <2>1
    <2>3. born' = born
      BY <1>1
    <2> QED BY <1>2, <2>2, <2>3 DEF Shape
  <1>17. UnbornSound(k', proc', born')
    BY <1>1, <1>2, <1>6, <1>8, <1>15 DEF IInv, Sound, UnbornSound
  <1>18. PhaseSound(k', proc', born')
    <2> SUFFICES ASSUME NEW y \in born
                 PROVE  /\ proc'[y].pc = "gone" <=> k'.status[y] \in {"ZOMBIE", "ABSENT"}
                        /\ proc'[y].ChildExited.queue
                             = IF k'.status[y] = "BLOCKED" THEN <<y>> ELSE <<>>
                        /\ k'.status[y] = "BLOCKED" => proc'[y].pc = "P"
                        /\ k'.status[y] # "ABSENT" /\ y \notin k'.started
                              => k'.status[y] = "READY" /\ proc'[y].pc = "user" /\ y # Root
                        /\ proc'[y].pc \in {"notify", "check", "gone"} => proc'[y].Children = 0
                        /\ proc'[y].thread_exit_status => proc'[y].pc \in {"check", "gone"}
      BY <1>1 DEF PhaseSound
    <2>0. /\ proc[y].pc = "gone" <=> k.status[y] \in {"ZOMBIE", "ABSENT"}
          /\ proc[y].ChildExited.queue = IF k.status[y] = "BLOCKED" THEN <<y>> ELSE <<>>
          /\ k.status[y] = "BLOCKED" => proc[y].pc = "P"
          /\ k.status[y] # "ABSENT" /\ y \notin k.started
                => k.status[y] = "READY" /\ proc[y].pc = "user" /\ y # Root
          /\ proc[y].pc \in {"notify", "check", "gone"} => proc[y].Children = 0
          /\ proc[y].thread_exit_status => proc[y].pc \in {"check", "gone"}
      BY DEF IInv, Sound, PhaseSound
    <2>1. CASE y = p
      <3>1. ~proc[p].thread_exit_status
        BY <1>1, <2>0, <2>1
      <3>2. k'.status[p] = "RUNNING" /\ p \in k'.started
        BY <1>2, <1>6, <1>8
      <3> QED BY <1>2, <1>11, <1>12, <1>15, <2>1, <3>1, <3>2
    <2>2. CASE y = c
      <3>1. k'.status[c] = IF zombie THEN "ABSENT" ELSE k.status[c]
        BY <1>4, <1>8
      <3>2. proc[c].Children = 0
        BY <1>6, <2>0, <2>2
      <3>3. proc'[c].pc = proc[c].pc /\ proc'[c].Children = 0
            /\ proc'[c].ChildExited = proc[c].ChildExited
        BY <1>13, <1>15, <3>2
      <3>4. CASE zombie
        BY <1>6, <1>7, <2>0, <2>2, <3>1, <3>3, <3>4
      <3>5. CASE ~zombie
        BY <1>6, <1>7, <1>9, <2>0, <2>2, <3>1, <3>3, <3>5
      <3> QED BY <3>4, <3>5
    <2>3. CASE y # p /\ y # c
      <3>1. y \in Thread /\ proc'[y] = proc[y] /\ k'.status[y] = k.status[y]
            /\ (y \in k'.started <=> y \in k.started)
        BY <1>3, <1>8, <1>15, <2>3
      <3> QED BY <2>0, <3>1
    <2> QED BY <2>1, <2>2, <2>3
  <1>19. \A y \in Thread : /\ proc'[y].ParentPtr = proc[y].ParentPtr
                           /\ proc'[y].ChildExited = proc[y].ChildExited
                           /\ y # p => /\ proc'[y].pc = proc[y].pc
                                       /\ proc'[y].Children = proc[y].Children
                                       /\ proc'[y].ChildList = proc[y].ChildList
                           /\ y # c => proc'[y].thread_exit_status = proc[y].thread_exit_status
    BY <1>12, <1>13, <1>14
  <1>20. /\ proc'[p].pc = x /\ proc'[p].Children = proc[p].Children - 1
         /\ proc'[p].ChildList = rest /\ proc'[c].thread_exit_status = ~zombie
    BY <1>12, <1>13, <1>15
  <1>21. ParentsSound(proc', born')
    BY <1>1, <1>3, <1>19 DEF IInv, Sound, ParentsSound
  <1>22. \A y \in Thread, z \in Thread :
            Contains(proc'[y].ChildList, z) <=> Contains(proc[y].ChildList, z) /\ z # c
    <2> SUFFICES ASSUME NEW y \in Thread, NEW z \in Thread
                 PROVE  Contains(proc'[y].ChildList, z)
                          <=> Contains(proc[y].ChildList, z) /\ z # c
      OBVIOUS
    <2>1. CASE y = p
      BY <1>5, <1>20, <2>1
    <2>2. CASE y # p
      <3>1. proc'[y].ChildList = proc[y].ChildList
        BY <1>19, <2>2
      <3>2. ~Contains(proc[y].ChildList, c)
        BY <1>4, <1>6, <2>2 DEF IInv, Sound, ListsSound
      <3> QED BY <3>1, <3>2
    <2> QED BY <2>1, <2>2
  <1>23. ListsSound(k', proc', born')
    <2> SUFFICES ASSUME NEW y \in Thread
                 PROVE  /\ Distinct(proc'[y].ChildList)
                        /\ \A z \in Thread : Contains(proc'[y].ChildList, z) =>
                              /\ z \in born /\ proc'[z].ParentPtr = y
                              /\ proc'[z].pc \in {"check", "gone"}
                              /\ ~proc'[z].thread_exit_status
                              /\ k'.status[z] # "ABSENT" /\ k'.threadToBeDestroyed # z
      BY <1>1, ZenonT(60) DEF ListsSound
    <2>1. Distinct(proc'[y].ChildList)
      <3>1. CASE y = p
        BY <1>5, <1>20, <3>1
      <3>2. CASE y # p
        BY <1>19, <3>2 DEF IInv, Sound, ListsSound
      <3> QED BY <3>1, <3>2
    <2>2. ASSUME NEW z \in Thread, Contains(proc'[y].ChildList, z)
          PROVE  /\ z \in born /\ proc'[z].ParentPtr = y
                 /\ proc'[z].pc \in {"check", "gone"} /\ ~proc'[z].thread_exit_status
                 /\ k'.status[z] # "ABSENT" /\ k'.threadToBeDestroyed # z
      <3>1. Contains(proc[y].ChildList, z) /\ z # c
        BY <1>22, <2>2
      <3>2. /\ z \in born /\ proc[z].ParentPtr = y
            /\ proc[z].pc \in {"check", "gone"} /\ ~proc[z].thread_exit_status
            /\ k.status[z] # "ABSENT" /\ k.threadToBeDestroyed # z
        BY <3>1 DEF IInv, Sound, ListsSound
      <3>3. z # p
        BY <1>1, <3>2
      <3> QED BY <1>8, <1>19, <3>1, <3>2, <3>3
    <2> QED BY <2>1, <2>2
  <1>24. \A y \in born : y # c /\ Listed(proc, y) => Listed(proc', y)
    <2> SUFFICES ASSUME NEW y \in born, y # c, Listed(proc, y)
                 PROVE  Listed(proc', y)
      OBVIOUS
    <2>1. y # Root /\ proc[y].ParentPtr \in Thread /\ y \in Thread
      BY <1>3 DEF IInv, Sound, ParentsSound, Listed
    <2> QED BY <1>19, <1>22, <2>1 DEF Listed
  <1>25. CarcassSound(k', proc', born')
    <2>1. ASSUME NEW y \in born
          PROVE  /\ proc'[y].pc = "check" => proc'[y].thread_exit_status \/ Listed(proc', y)
                 /\ proc'[y].pc = "check" => y # Root
                 /\ k'.status[y] = "ZOMBIE" => k'.threadToBeDestroyed = y \/ Listed(proc', y)
      <3>1. CASE y = p
        <4>1. k'.status[p] = "RUNNING"
          BY <1>2, <1>6, <1>8
        <4> QED BY <1>11, <1>20, <3>1, <4>1
      <3>2. CASE y = c
        <4>1. k'.status[c] # "ZOMBIE"
          BY <1>4, <1>8 DEF zombie
        <4>2. proc'[c].pc = proc[c].pc
          BY <1>4, <1>6, <1>19
        <4>3. proc[c].pc = "check" => proc'[c].thread_exit_status
          BY <1>7, <1>20
        <4>4. proc[c].pc = "check" => c # Root
          BY <1>6 DEF IInv, Sound, CarcassSound
        <4> QED BY <3>2, <4>1, <4>2, <4>3, <4>4
      <3>3. CASE y # p /\ y # c
        <4>1. y \in Thread /\ k'.status[y] = k.status[y] /\ proc'[y] = proc[y]
          BY <1>3, <1>8, <1>15, <3>3
        <4> QED BY <1>8, <1>24, <3>3, <4>1 DEF IInv, Sound, CarcassSound
      <3> QED BY <3>1, <3>2, <3>3
    <2>2. k'.threadToBeDestroyed # NoThread => p # Root /\ ~proc'[p].thread_exit_status
      <3>1. k.threadToBeDestroyed # NoThread => p # Root /\ ~proc[p].thread_exit_status
        BY <1>2 DEF IInv, Sound, CarcassSound
      <3> QED BY <1>6, <1>8, <1>19, <3>1
    <2> QED BY <1>1, <1>8, <2>1, <2>2 DEF CarcassSound
  <1>26. ASSUME NEW y \in Thread
         PROVE  Unannounced(proc', born', y) = Unannounced(proc, born, y)
    <2>1. ASSUME NEW z \in born
          PROVE  z \in Unannounced(proc', born, y) <=> z \in Unannounced(proc, born, y)
      <3>1. /\ proc'[z].ParentPtr = proc[z].ParentPtr
            /\ proc'[z].pc \in {"check", "gone"} <=> proc[z].pc \in {"check", "gone"}
        BY <1>1, <1>3, <1>11, <1>19, <1>20
      <3> QED BY <3>1 DEF Unannounced
    <2>2. born' = born
      BY <1>1
    <2> QED BY <2>1, <2>2 DEF Unannounced
  <1>27. CountsSound(proc', born')
    <2> SUFFICES ASSUME NEW y \in Thread
                 PROVE  /\ Len(proc'[y].ChildList)
                             = proc'[y].ChildExited.value
                               + (IF proc'[y].pc = "reap" THEN 1 ELSE 0)
                        /\ proc'[y].Children = Len(proc'[y].ChildList)
                             + Cardinality(Unannounced(proc', born', y))
      BY DEF CountsSound
    <2>1. /\ Len(proc[y].ChildList)
                = proc[y].ChildExited.value + (IF proc[y].pc = "reap" THEN 1 ELSE 0)
          /\ proc[y].Children = Len(proc[y].ChildList)
                + Cardinality(Unannounced(proc, born, y))
      BY DEF IInv, Sound, CountsSound
    <2>2. CASE y = p
      <3>1. /\ proc'[p].ChildExited.value = proc[p].ChildExited.value
            /\ proc'[p].pc # "reap" /\ Len(proc'[p].ChildList) = Len(list) - 1
            /\ proc'[p].Children = proc[p].Children - 1
        BY <1>4, <1>11, <1>19, <1>20
      <3>2. /\ Len(list) \in Nat /\ proc[p].ChildExited.value \in Nat
            /\ Cardinality(Unannounced(proc, born, p)) \in Nat
        <4>1. Unannounced(proc, born, p) \in SUBSET born
          BY DEF Unannounced
        <4> QED BY <1>2, <1>3, <4>1, FS_Subset, FS_CardinalityType
                DEF Shape, Process, KernelSemaphore
      <3>3. Len(list) = proc[p].ChildExited.value + 1
        BY <1>1, <2>1, <2>2
      <3>4. proc'[p].Children = Len(proc'[p].ChildList)
              + Cardinality(Unannounced(proc', born', p))
        <4>1. proc[p].Children = Len(list) + Cardinality(Unannounced(proc, born, p))
          BY <2>1, <2>2
        <4>2. Unannounced(proc', born', p) = Unannounced(proc, born, p)
          BY <1>26
        <4> QED BY <3>1, <3>2, <4>1, <4>2
      <3> QED BY <2>2, <3>1, <3>2, <3>3, <3>4
    <2>3. CASE y # p
      BY <1>19, <1>26, <2>1, <2>3
    <2> QED BY <2>2, <2>3
  <1> QED BY <1>8, <1>16, <1>17, <1>18, <1>21, <1>23, <1>25, <1>27 DEF IInv, Sound

LEMMA StepInvariant == IInv /\ [Next]_vars => IInv'
  <1> SUFFICES ASSUME IInv, [Next]_vars PROVE IInv'
    OBVIOUS
  <1>1. ASSUME NEW p \in Thread, Notify(p) PROVE IInv'
    BY <1>1, EndingStep, NotifyStep
  <1>2. CASE UNCHANGED vars
    BY <1>2 DEF vars, IInv
  <1> QED BY <1>1, <1>2, ForkStep, WaitExitStep, WaitPStep, ReapStep, EndingStep,
             NiceStep, PreemptStep DEF Next

-----------------------------------------------------------------------------
(* What the invariant says of the properties *)

\* A process has no children left, neither on its list nor yet to exit, when
\* Children is zero; so one with a child has not ended.
LEMMA ChildrenCounted ==
    ASSUME IInv, NEW q \in born
    PROVE  /\ q \in Thread /\ proc[q].ChildList \in Seq(Thread)
           /\ proc[q].Children = 0
                => Unannounced(proc, born, q) = {} /\ proc[q].ChildList = <<>>
           /\ Unannounced(proc, born, q) # {} \/ proc[q].ChildList # <<>>
                => proc[q].pc \notin {"notify", "check", "gone"} /\ Exists(q)
  <1>1. q \in Thread /\ proc[q] \in Process /\ proc[q].ChildList \in Seq(Thread)
    BY DEF IInv, Sound, Shape, Process
  <1>2. IsFiniteSet(Unannounced(proc, born, q))
    <2>1. Unannounced(proc, born, q) \in SUBSET born
      BY DEF Unannounced
    <2> QED BY <2>1, FS_Subset DEF IInv, Sound, Shape
  <1>3. /\ Cardinality(Unannounced(proc, born, q)) \in Nat
        /\ Cardinality(Unannounced(proc, born, q)) = 0 => Unannounced(proc, born, q) = {}
    BY <1>2, FS_EmptySet, FS_CardinalityType
  <1>4. proc[q].Children = Len(proc[q].ChildList) + Cardinality(Unannounced(proc, born, q))
    BY <1>1 DEF IInv, Sound, CountsSound
  <1>5. Len(proc[q].ChildList) \in Nat /\ (Len(proc[q].ChildList) = 0 => proc[q].ChildList = <<>>)
    BY <1>1
  <1>6. proc[q].Children = 0 => Unannounced(proc, born, q) = {} /\ proc[q].ChildList = <<>>
    BY <1>3, <1>4, <1>5
  <1>7. proc[q].pc \in {"notify", "check", "gone"} => proc[q].Children = 0
    BY DEF IInv, Sound, PhaseSound
  <1>8. proc[q].pc # "gone" => Exists(q)
    BY DEF IInv, Sound, PhaseSound, Exists
  <1> QED BY <1>1, <1>6, <1>7, <1>8

LEMMA InvariantCounts == IInv => WaitFindsChild
  <1> SUFFICES ASSUME IInv, NEW p \in Thread
               PROVE  /\ Len(proc[p].ChildList)
                           = proc[p].ChildExited.value + (IF proc[p].pc = "reap" THEN 1 ELSE 0)
                      /\ proc[p].Children = Len(proc[p].ChildList)
                           + Cardinality({c \in born : proc[c].ParentPtr = p /\ ~Announced(c)})
    BY DEF WaitFindsChild
  <1>1. Unannounced(proc, born, p) = {c \in born : proc[c].ParentPtr = p /\ ~Announced(c)}
    BY DEF Unannounced, Announced
  <1> QED BY <1>1 DEF IInv, Sound, CountsSound

LEMMA InvariantPointers == IInv => NoDanglingThread
  <1> SUFFICES ASSUME IInv PROVE NoDanglingThread
    OBVIOUS
  <1>1. ASSUME NEW p \in born, ~Announced(p), proc[p].ParentPtr # NoThread
        PROVE  Exists(p) /\ Exists(proc[p].ParentPtr)
    <2>1. proc[p].pc # "gone"
      BY <1>1 DEF Announced
    <2>2. Exists(p)
      BY <2>1 DEF IInv, Sound, PhaseSound, Exists
    <2>3. proc[p].ParentPtr \in born
      BY <1>1 DEF IInv, Sound, ParentsSound
    <2>4. p \in Unannounced(proc, born, proc[p].ParentPtr)
      BY <1>1 DEF Unannounced, Announced
    <2> QED BY <2>2, <2>3, <2>4, ChildrenCounted
  <1>2. ASSUME NEW p \in born, NEW i \in 1 .. Len(proc[p].ChildList),
               NEW j \in 1 .. Len(proc[p].ChildList)
        PROVE  /\ Exists(p) /\ Exists(proc[p].ChildList[i])
               /\ k.threadToBeDestroyed # proc[p].ChildList[i]
               /\ i # j => proc[p].ChildList[i] # proc[p].ChildList[j]
    <2>1. p \in Thread /\ proc[p].ChildList \in Seq(Thread)
      BY ChildrenCounted
    <2>2. proc[p].ChildList # <<>>
      BY <2>1
    <2>3. proc[p].ChildList[i] \in Thread /\ Contains(proc[p].ChildList, proc[p].ChildList[i])
      BY <2>1 DEF Contains
    <2>4. Exists(p)
      BY <2>2, ChildrenCounted
    <2> QED BY <2>1, <2>3, <2>4 DEF IInv, Sound, ListsSound, Distinct, Exists
  <1>3. /\ k.threadToBeDestroyed # NoThread => k.status[k.threadToBeDestroyed] = "ZOMBIE"
        /\ \A t \in Thread : Contains(k.allThreads, t) <=> Exists(t)
    BY DEF IInv, Sound, KernelSound, Exists
  <1> QED BY <1>1, <1>2, <1>3 DEF NoDanglingThread

LEMMA InvariantCarcasses == IInv => NoCarcassLost
  <1> SUFFICES ASSUME IInv, NEW t \in Thread, k.status[t] = "ZOMBIE"
               PROVE  \/ k.threadToBeDestroyed = t
                      \/ \E p \in born : Contains(proc[p].ChildList, t)
    BY DEF NoCarcassLost
  <1>1. t \in born
    BY DEF IInv, Sound, UnbornSound
  <1>2. k.threadToBeDestroyed = t \/ Listed(proc, t)
    BY <1>1 DEF IInv, Sound, CarcassSound
  <1>3. t # Root => proc[t].ParentPtr \in born
    BY <1>1 DEF IInv, Sound, ParentsSound
  <1> QED BY <1>2, <1>3 DEF Listed

-----------------------------------------------------------------------------
(* Theorems *)

\* The inductive invariant holds after any sequence of Fork, Wait, Exit, Nice and
\* Yield by any number of processes, preempted at any tick.
THEOREM Invariance == Spec => []IInv
  BY InitInvariant, StepInvariant, PTL DEF Spec

\* The kernel state and the process fields keep their declared shapes; no
\* semaphore value and no count of children is ever negative.
THEOREM TypeCorrect == Spec => []TypeOK
  <1>1. IInv => TypeOK
    BY DEF IInv, Sound, KernelSound, Shape, TypeOK
  <1> QED BY <1>1, Invariance, PTL

\* No system call loses a READY thread, puts one on the ready list twice or out
\* of order, or leaves two threads RUNNING.
THEOREM SchedulerCorrect == Spec => []SchedulerSound
  <1>1. IInv => SchedulerSound
    BY DEF IInv, Sound, KernelSound, SchedulerSound
  <1> QED BY <1>1, Invariance, PTL

\* When P has returned to System_Wait there is a child to return, and Children
\* counts exactly the children not yet waited for.
THEOREM WaitCorrect == Spec => []WaitFindsChild
  BY InvariantCounts, Invariance, PTL

\* No pointer to a thread is followed after the thread was deleted, and no
\* thread is deleted by two others.
THEOREM PointersCorrect == Spec => []NoDanglingThread
  BY InvariantPointers, Invariance, PTL

\* Every zombie is left to somebody: its parent, or the next thread to run.
THEOREM CarcassesCorrect == Spec => []NoCarcassLost
  BY InvariantCarcasses, Invariance, PTL

-----------------------------------------------------------------------------
(* Fork, Exit and Wait implement the tree of processes *)

\* The processes of the tree that have exited, and those that are gone.
ExitedSet == {p \in born : \E q \in born : Contains(proc[q].ChildList, p)}

ReapedSet == {p \in born : Announced(p) /\ ~\E q \in born : Contains(proc[q].ChildList, p)}

ParentMap == [p \in born |-> proc[p].ParentPtr]

\* Half of the tree's state, per process: whether it is on a list is whether it
\* is on its parent's.
LEMMA ExitedListed ==
    ASSUME IInv
    PROVE  /\ \A p \in born, q \in born :
                 Contains(proc[q].ChildList, p) => /\ proc[p].ParentPtr = q /\ Announced(p)
                                                   /\ p \in ExitedSet
           /\ \A p \in born : p \in ExitedSet => Announced(p)
           /\ \A p \in born : ~Announced(p) => p \notin ExitedSet \cup ReapedSet
           /\ \A p \in born : Announced(p) <=> p \in ExitedSet \cup ReapedSet
  <1>1. ASSUME NEW p \in born, NEW q \in born, Contains(proc[q].ChildList, p)
        PROVE  proc[p].ParentPtr = q /\ Announced(p) /\ p \in ExitedSet
    BY <1>1 DEF IInv, Sound, ListsSound, Shape, Announced, ExitedSet
  <1> QED BY <1>1 DEF ExitedSet, ReapedSet

\* Steps that a user program cannot tell from nothing.
LEMMA TreeStutter ==
    ASSUME born' = born,
           \A p \in born : /\ proc'[p].ParentPtr = proc[p].ParentPtr
                           /\ proc'[p].ChildList = proc[p].ChildList
                           /\ Announced(p)' <=> Announced(p)
    PROVE  UNCHANGED Tree!tree
  <1>1. ParentMap' = ParentMap
    BY DEF ParentMap
  <1>2. ExitedSet' = ExitedSet
    BY DEF ExitedSet
  <1>3. ReapedSet' = ReapedSet
    BY DEF ReapedSet
  <1> QED BY <1>1, <1>2, <1>3 DEF Tree!tree, ParentMap, ExitedSet, ReapedSet

LEMMA LocalStutters ==
    ASSUME IInv, NEW p \in Thread,
           \/ Wait(p) \/ Exit(p) \/ WaitP(p) \/ Check(p) \/ Preempt(p)
           \/ \E inc \in NiceRange : Nice(p, inc)
    PROVE  UNCHANGED Tree!tree
  <1>1. proc \in [Thread -> Process] /\ born \in SUBSET Thread
    BY DEF IInv, Sound, Shape
  <1>2. born' = born
    BY DEF Wait, Exit, WaitP, Check, Preempt, Nice
  <1>3. CASE proc' = proc
    BY <1>2, <1>3, TreeStutter DEF Announced
  <1>4. CASE Wait(p) \/ Exit(p) \/ WaitP(p) \/ Check(p)
    <2>1. \A q \in Thread : q # p => proc'[q] = proc[q]
      BY <1>1, <1>4 DEF Wait, Exit, WaitP, Check
    <2>2. /\ proc'[p].ParentPtr = proc[p].ParentPtr /\ proc'[p].ChildList = proc[p].ChildList
          /\ proc'[p].pc \in {"check", "gone"} <=> proc[p].pc \in {"check", "gone"}
      <3>0. proc[p] \in Process
        BY <1>1
      <3>1. CASE Wait(p)
        <4>1. proc'[p] = [proc[p] EXCEPT !.pc = "P"] /\ proc[p].pc = "user"
          BY <1>1, <3>1 DEF Wait, InProgram
        <4> QED BY <3>0, <4>1 DEF Process
      <3>2. CASE Exit(p)
        <4>1. PICK x \in {"P", "notify"} :
                proc'[p] = [proc[p] EXCEPT !.exiting = TRUE, !.pc = x]
          BY <1>1, <3>2 DEF Exit
        <4>2. proc[p].pc = "user"
          BY <3>2 DEF Exit, InProgram
        <4> QED BY <3>0, <4>1, <4>2 DEF Process
      <3>3. CASE WaitP(p)
        <4>1. PICK x \in {"P", "reap"} : \E w :
                proc'[p] = [proc[p] EXCEPT !.ChildExited = w, !.pc = x]
          BY <1>1, <3>3 DEF WaitP
        <4>2. proc[p].pc = "P"
          BY <3>3 DEF WaitP
        <4> QED BY <3>0, <4>1, <4>2 DEF Process
      <3>4. CASE Check(p)
        <4>1. proc'[p] = [proc[p] EXCEPT !.pc = "gone"] /\ proc[p].pc = "check"
          BY <1>1, <3>4 DEF Check
        <4> QED BY <3>0, <4>1 DEF Process
      <3> QED BY <1>4, <3>1, <3>2, <3>3, <3>4
    <2>3. \A q \in born : /\ proc'[q].ParentPtr = proc[q].ParentPtr
                          /\ proc'[q].ChildList = proc[q].ChildList
                          /\ Announced(q)' <=> Announced(q)
      BY <1>1, <2>1, <2>2 DEF Announced
    <2> QED BY <1>2, <2>3, TreeStutter
  <1> QED BY <1>3, <1>4 DEF Preempt, Nice

LEMMA TreeInit == Init => Tree!Init
  <1> SUFFICES ASSUME Init PROVE Tree!Init
    OBVIOUS
  <1>1. /\ born = {Root} /\ \A p \in Thread : /\ proc[p].pc = "user"
                                              /\ proc[p].ParentPtr = NoThread
                                              /\ proc[p].ChildList = <<>>
    BY DEF Init, NewProcess
  <1>2. Root \in Thread
    BY RootAssumption
  <1>3. ~Contains(<<>>, Root)
    BY DEF Contains
  <1>4. ExitedSet = {} /\ ReapedSet = {}
    BY <1>1, <1>2, <1>3 DEF ExitedSet, ReapedSet, Announced
  <1>5. ParentMap = [p \in {Root} |-> NoThread]
    BY <1>1, <1>2 DEF ParentMap
  <1> QED BY <1>4, <1>5 DEF Tree!Init, ExitedSet, ReapedSet, ParentMap

LEMMA TreeFork ==
    ASSUME IInv, NEW p \in Thread, NEW c \in Thread, Fork(p, c)
    PROVE  Tree!Fork(p, c)
  <1>1. /\ proc \in [Thread -> Process] /\ born \in SUBSET Thread
        /\ Executing(k, p) /\ proc[p].pc = "user" /\ c \notin born /\ born' = born \cup {c}
        /\ proc' = [proc EXCEPT ![p] = Add_Child(@), ![c] = NewProcess(p)]
    BY DEF IInv, Sound, Shape, Fork, InProgram, MayProceed
  <1>2. p \in born /\ p # c /\ proc[p] \in Process
    BY <1>1, Running
  <1>3. /\ proc'[c] = NewProcess(p) /\ proc'[p] = Add_Child(proc[p])
        /\ \A t \in Thread : t # p /\ t # c => proc'[t] = proc[t]
    BY <1>1, <1>2
  <1>4. /\ proc'[c].ParentPtr = p /\ proc'[c].pc = "user" /\ proc'[c].ChildList = <<>>
    BY <1>3 DEF NewProcess
  <1>5. /\ proc'[p].ParentPtr = proc[p].ParentPtr /\ proc'[p].ChildList = proc[p].ChildList
        /\ proc'[p].pc = proc[p].pc
    BY <1>2, <1>3 DEF Add_Child, Process
  <1>6. \A t \in born : /\ proc'[t].ParentPtr = proc[t].ParentPtr
                        /\ proc'[t].ChildList = proc[t].ChildList
                        /\ Announced(t)' <=> Announced(t)
    BY <1>1, <1>3, <1>5 DEF Announced
  <1>7. \A t \in Thread : ~Contains(proc'[c].ChildList, t)
    <2>1. \A t : ~Contains(<<>>, t)
      BY DEF Contains
    <2> QED BY <1>4, <2>1
  <1>8. \A q \in born : ~Contains(proc[q].ChildList, c)
    BY <1>1 DEF IInv, Sound, ListsSound
  <1>9. \A x \in born' : (\E q \in born' : Contains(proc'[q].ChildList, x))
                         <=> x \in born /\ \E q \in born : Contains(proc[q].ChildList, x)
    BY <1>1, <1>6, <1>7, <1>8
  <1>10. ExitedSet' = ExitedSet
    BY <1>1, <1>9 DEF ExitedSet
  <1>11. ReapedSet' = ReapedSet
    <2>1. ~Announced(c)'
      BY <1>4 DEF Announced
    <2> QED BY <1>1, <1>6, <1>9, <2>1 DEF ReapedSet
  <1>12. ParentMap' = [q \in born \cup {c} |-> IF q = c THEN p ELSE ParentMap[q]]
    BY <1>1, <1>4, <1>6 DEF ParentMap
  <1>13. p \notin ExitedSet \cup ReapedSet
    BY <1>1, <1>2, ExitedListed DEF Announced
  <1>14. DOMAIN ParentMap = born
    BY DEF ParentMap
  <1> QED BY <1>1, <1>2, <1>10, <1>11, <1>12, <1>13, <1>14
          DEF Tree!Fork, Tree!Alive, ExitedSet, ReapedSet, ParentMap

\* Nobody is left in the tree below a process that has reached notify.
LEMMA NoChildrenLeft ==
    ASSUME IInv, NEW p \in born, proc[p].pc = "notify"
    PROVE  Tree!ChildrenOf(p) = {}
  <1>1. /\ proc[p].Children = 0
        /\ Unannounced(proc, born, p) = {} /\ proc[p].ChildList = <<>>
    BY ChildrenCounted DEF IInv, Sound, PhaseSound
  <1>2. ASSUME NEW c \in born, proc[c].ParentPtr = p PROVE c \in ReapedSet
    <2>1. Announced(c)
      BY <1>1, <1>2 DEF Unannounced, Announced
    <2>2. ~Contains(proc[p].ChildList, c)
      BY <1>1 DEF Contains
    <2>3. \A q \in born : Contains(proc[q].ChildList, c) => q = p
      BY <1>2, ExitedListed
    <2> QED BY <2>1, <2>2, <2>3 DEF ReapedSet
  <1> QED BY <1>2 DEF Tree!ChildrenOf, ReapedSet

LEMMA TreeExit ==
    ASSUME IInv, NEW p \in Thread, Notify(p)
    PROVE  Tree!Exit(p)
  <1> DEFINE q == proc[p].ParentPtr
  <1>1. /\ proc \in [Thread -> Process] /\ born \in SUBSET Thread
        /\ Executing(k, p) /\ proc[p].pc = "notify" /\ born' = born
    BY DEF IInv, Sound, Shape, Notify
  <1>2. p \in born /\ proc[p] \in Process
    BY <1>1, Running
  <1>3. p \in Tree!Alive
    <2>1. p \notin ExitedSet \cup ReapedSet
      BY <1>1, <1>2, ExitedListed DEF Announced
    <2> QED BY <1>2, <2>1 DEF Tree!Alive, ExitedSet, ReapedSet
  <1>4. Tree!ChildrenOf(p) = {}
    BY <1>1, <1>2, NoChildrenLeft
  <1>5. ParentMap[p] = q
    BY <1>2 DEF ParentMap
  <1>6. \A x \in born : ~Contains(proc[x].ChildList, p)
    BY <1>1, <1>2, ExitedListed DEF Announced
  <1>7. CASE q = NoThread
    <2>1. proc' = [proc EXCEPT ![p].pc = "gone"]
      BY <1>7 DEF Notify
    <2>2. proc'[p] = [proc[p] EXCEPT !.pc = "gone"]
          /\ \A t \in Thread : t # p => proc'[t] = proc[t]
      BY <1>1, <2>1
    <2>3. proc'[p].pc = "gone" /\ proc'[p].ParentPtr = proc[p].ParentPtr
          /\ proc'[p].ChildList = proc[p].ChildList
      BY <1>2, <2>2 DEF Process
    <2>4. \A t \in born : /\ proc'[t].ParentPtr = proc[t].ParentPtr
                          /\ proc'[t].ChildList = proc[t].ChildList
                          /\ Announced(t)' <=> Announced(t) \/ t = p
      BY <1>1, <2>2, <2>3 DEF Announced
    <2>5. ParentMap' = ParentMap /\ ExitedSet' = ExitedSet
      BY <1>1, <2>4 DEF ParentMap, ExitedSet
    <2>6. ReapedSet' = ReapedSet \cup {p}
      BY <1>1, <1>2, <1>6, <2>4 DEF ReapedSet
    <2> QED BY <1>3, <1>4, <1>5, <1>7, <2>5, <2>6
            DEF Tree!Exit, ExitedSet, ReapedSet, ParentMap
  <1>8. CASE q # NoThread
    <2>1. q \in born /\ q # p
      BY <1>2, <1>8 DEF IInv, Sound, ParentsSound
    <2> DEFINE w == V(k, proc[q].ChildExited).sem
    <2>2. proc' = [proc EXCEPT ![p].thread_exit_status = FALSE, ![p].pc = "check",
                     ![q] = Queue_Child(@, p), ![q].ChildExited = w]
      BY <1>8 DEF Notify
    <2> HIDE DEF w
    <2>3. proc[q] \in Process /\ q \in Thread
      BY <1>1, <2>1
    <2>4. /\ proc'[p] = [proc[p] EXCEPT !.thread_exit_status = FALSE, !.pc = "check"]
          /\ proc'[q] = [proc[q] EXCEPT !.ChildList = Append(proc[q].ChildList, p),
                                        !.ChildExited = w]
          /\ \A t \in Thread : t # p /\ t # q => proc'[t] = proc[t]
      <3> HIDE DEF q
      <3> QED BY <1>1, <2>1, <2>2, <2>3 DEF Queue_Child
    <2>5. /\ proc'[p].pc = "check" /\ proc'[p].ParentPtr = proc[p].ParentPtr
          /\ proc'[p].ChildList = proc[p].ChildList
      BY <1>2, <2>4 DEF Process
    <2>6. /\ proc'[q].pc = proc[q].pc /\ proc'[q].ParentPtr = proc[q].ParentPtr
          /\ proc'[q].ChildList = Append(proc[q].ChildList, p)
      BY <2>3, <2>4 DEF Process
    <2>7. \A x : Contains(Append(proc[q].ChildList, p), x)
                   <=> x = p \/ Contains(proc[q].ChildList, x)
      <3>1. proc[q].ChildList \in Seq(Thread)
        BY <2>3 DEF Process
      <3> QED BY <3>1, AppendContains
    <2> HIDE DEF q
    <2>8. \A t \in born : /\ proc'[t].ParentPtr = proc[t].ParentPtr
                          /\ Announced(t)' <=> Announced(t) \/ t = p
      BY <1>1, <2>4, <2>5, <2>6 DEF Announced
    <2>9. \A t \in born : (\E y \in born : Contains(proc'[y].ChildList, t))
                          <=> t = p \/ (\E y \in born : Contains(proc[y].ChildList, t))
      <3>1. \A y \in born, t \in born :
               Contains(proc'[y].ChildList, t)
                 <=> Contains(proc[y].ChildList, t) \/ (y = q /\ t = p)
        <4>1. \A y \in born : y # q => proc'[y].ChildList = proc[y].ChildList
          BY <1>1, <2>4, <2>5
        <4>2. \A t \in born : Contains(proc'[q].ChildList, t)
                                <=> t = p \/ Contains(proc[q].ChildList, t)
          BY <2>6, <2>7
        <4> QED BY <4>1, <4>2, Zenon
      <3> QED BY <2>1, <3>1
    <2>10. ParentMap' = ParentMap
      BY <1>1, <2>8 DEF ParentMap
    <2>11. ExitedSet' = ExitedSet \cup {p}
      BY <1>1, <1>2, <2>9 DEF ExitedSet
    <2>12. ReapedSet' = ReapedSet
      <3>1. ~Announced(p)
        BY <1>1 DEF Announced
      <3> QED BY <1>1, <2>8, <2>9, <3>1 DEF ReapedSet
    <2> QED BY <1>3, <1>4, <1>5, <1>8, <2>10, <2>11, <2>12
            DEF Tree!Exit, ExitedSet, ReapedSet, ParentMap
  <1> QED BY <1>7, <1>8

LEMMA TreeWait ==
    ASSUME IInv, NEW p \in Thread, Reap(p)
    PROVE  \E c \in Thread : Tree!Wait(p, c)
  <1> DEFINE list == proc[p].ChildList
             c == Head(list)
             x == IF ~proc[p].exiting THEN "user"
                  ELSE IF proc[p].Children > 1 THEN "P" ELSE "notify"
             z == proc[c].thread_exit_status \/ ~(k.status[c] = "ZOMBIE")
  <1>1. /\ proc \in [Thread -> Process] /\ born \in SUBSET Thread
        /\ Executing(k, p) /\ proc[p].pc = "reap" /\ born' = born /\ list # <<>>
        /\ proc' = [proc EXCEPT ![p] = Remove_Child(@), ![p].pc = x,
                      ![c].thread_exit_status = @ \/ ~(k.status[c] = "ZOMBIE")]
    BY DEF IInv, Sound, Shape, Reap, MayProceed
  <1>2. p \in born /\ proc[p] \in Process /\ list \in Seq(Thread) /\ Distinct(list)
    BY <1>1, Running DEF IInv, Sound, ListsSound, Process
  <1>3. c \in Thread /\ Contains(list, c)
        /\ \A y : Contains(Tail(list), y) <=> Contains(list, y) /\ y # c
    BY <1>1, <1>2, HeadTailProperties, TailContains
  <1>4. x \in {"user", "P", "notify"}
    OBVIOUS
  <1> HIDE DEF c, x
  <1>5. c \in born /\ c # p /\ proc[c].ParentPtr = p /\ Announced(c)
    BY <1>1, <1>3 DEF IInv, Sound, ListsSound, Announced
  <1>6. /\ proc'[p] = [proc[p] EXCEPT !.ChildList = Tail(list),
                                      !.Children = proc[p].Children - 1, !.pc = x]
        /\ proc'[c] = [proc[c] EXCEPT !.thread_exit_status = z]
        /\ \A t \in Thread : t # p /\ t # c => proc'[t] = proc[t]
    BY <1>1, <1>2, <1>3, <1>5 DEF Remove_Child, Process
  <1> HIDE DEF z
  <1>7. /\ proc'[p].pc = x /\ proc'[p].ParentPtr = proc[p].ParentPtr
        /\ proc'[p].ChildList = Tail(list)
    BY <1>2, <1>6 DEF Process
  <1>8. /\ proc'[c].pc = proc[c].pc /\ proc'[c].ParentPtr = proc[c].ParentPtr
        /\ proc'[c].ChildList = proc[c].ChildList
    <2>1. proc[c] \in Process
      BY <1>1, <1>3
    <2> QED BY <1>6, <2>1 DEF Process
  <1>9. \A t \in born : /\ proc'[t].ParentPtr = proc[t].ParentPtr
                        /\ Announced(t)' <=> Announced(t)
                        /\ t # p => proc'[t].ChildList = proc[t].ChildList
    BY <1>1, <1>4, <1>6, <1>7, <1>8 DEF Announced
  <1>10. \A t \in born : (\E y \in born : Contains(proc'[y].ChildList, t))
                         <=> t # c /\ (\E y \in born : Contains(proc[y].ChildList, t))
    <2>1. \A y \in born : Contains(proc[y].ChildList, c) => y = p
      BY <1>5, ExitedListed
    <2>2. \A y \in born, t \in born :
             Contains(proc'[y].ChildList, t) <=> Contains(proc[y].ChildList, t) /\ t # c
      BY <1>3, <1>7, <1>9, <2>1
    <2> QED BY <2>2
  <1>11. ParentMap' = ParentMap
    BY <1>1, <1>9 DEF ParentMap
  <1>12. ExitedSet' = ExitedSet \ {c}
    BY <1>1, <1>10 DEF ExitedSet
  <1>13. ReapedSet' = ReapedSet \cup {c}
    BY <1>1, <1>5, <1>9, <1>10 DEF ReapedSet
  <1>14. p \in Tree!Alive
    <2>1. p \notin ExitedSet \cup ReapedSet
      BY <1>1, <1>2, ExitedListed DEF Announced
    <2> QED BY <1>2, <2>1 DEF Tree!Alive, ExitedSet, ReapedSet
  <1>15. c \in ExitedSet /\ c \notin ReapedSet
    BY <1>2, <1>3, <1>5 DEF ExitedSet, ReapedSet
  <1>16. c \in Tree!ChildrenOf(p)
    BY <1>5, <1>15 DEF Tree!ChildrenOf, ReapedSet
  <1>17. Tree!Wait(p, c)
    BY <1>11, <1>12, <1>13, <1>14, <1>15, <1>16
       DEF Tree!Wait, ExitedSet, ReapedSet, ParentMap
  <1> QED BY <1>3, <1>17

LEMMA TreeStep == IInv /\ [Next]_vars => [Tree!Next]_(Tree!tree)
  <1> SUFFICES ASSUME IInv, [Next]_vars PROVE Tree!Next \/ UNCHANGED Tree!tree
    BY DEF Tree!tree
  <1>1. ASSUME NEW p \in Thread, NEW c \in Thread, Fork(p, c) PROVE Tree!Next
    BY <1>1, TreeFork DEF Tree!Next
  <1>2. ASSUME NEW p \in Thread, Notify(p) PROVE Tree!Next
    BY <1>2, TreeExit DEF Tree!Next
  <1>3. ASSUME NEW p \in Thread, Reap(p) PROVE Tree!Next
    BY <1>3, TreeWait DEF Tree!Next
  <1>4. CASE UNCHANGED vars
    BY <1>4, TreeStutter DEF vars, Announced
  <1> QED BY <1>1, <1>2, <1>3, <1>4, LocalStutters DEF Next

\* The system calls implement ProcessTree: Notify is where a process exits,
\* Reap is where its parent's Wait returns it, and all that the scheduler does
\* in between is invisible.
THEOREM Refinement == Spec => ForkExitWait
  BY TreeInit, TreeStep, Invariance, PTL DEF Spec, ForkExitWait, Tree!Spec

=============================================================================
