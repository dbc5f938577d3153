------------------------------ MODULE Devices ------------------------------
(***************************************************************************)
(* Simulated time, interrupts and the devices that cause them: the         *)
(* scheduling timer, the console and the disk, with the kernel routines    *)
(* that wait for them (ConsoleRead, ConsoleWrite, SynchDisk).              *)
(*                                                                         *)
(* Times in the list of pending interrupts are relative to the present:    *)
(* "when" is how far ahead the interrupt is, and is not positive once it   *)
(* is due.  Only differences of times matter to the code, so this loses    *)
(* nothing and keeps the state finite.                                     *)
(*                                                                         *)
(* Every routine that disables interrupts ends by enabling them, which     *)
(* passes a tick (OneTick); the tick runs the handlers that are due and    *)
(* may make the thread yield.  An action of a thread is its code up to its *)
(* next tick, or to where it falls asleep; each turn of the loop that runs *)
(* handlers is an action too, since a key may be typed at any time.        *)
(***************************************************************************)
EXTENDS Synch, FiniteSets

CONSTANTS
    SystemTick, UserTick,    \* time that passes at a tick, in the kernel and in a program
    ConsoleTime,             \* time to read or write a character
    TimerDelays,             \* times between timer interrupts: one, or several with -rs
    DiskLatencies,           \* times a disk request may take (see DiskHead)
    EOF, FLAG_EOF,           \* end of input, and the mark of an empty buffer
    MaxKeys, MaxCalls        \* bounds: keys typed, system calls made

ASSUME TimeAssumption ==
    /\ {SystemTick, UserTick, ConsoleTime} \cup TimerDelays \cup DiskLatencies \subseteq Nat \ {0}
    /\ UserTick <= SystemTick
    /\ MaxKeys \in Nat /\ MaxCalls \in Nat

ASSUME ThreadsAssumption == IsFiniteSet(Thread)

\* The keys typed are numbered.  The byte that FLAG_EOF denotes is not typed.
Key == 1 .. MaxKeys

ASSUME KeyAssumption == EOF \notin Key /\ FLAG_EOF \notin Key \cup {EOF}

VARIABLES
    m,        \* the machine and the kernel: see Init
    pc,       \* where each thread is: see Where
    left,     \* bytes each thread has left to read or write
    calls     \* system calls made so far

vars == <<m, pc, left, calls>>

IntType == {"TimerInt", "DiskInt", "ConsoleWriteInt", "ConsoleReadInt"}

\* "user": running its program.  In ConsoleWrite: "write", in P (consoleWrite);
\* "put", before PutChar or the end; "putwait", in P (consoleWriteDone).  In
\* ConsoleRead: "read", in P (consoleRead); "getwait", in P (consoleReadAvail);
\* "get", before GetChar.  In SynchDisk: "acquire"; "request"; "diskwait", in P;
\* "release".
Where == {"user", "write", "put", "putwait", "read", "getwait", "get",
          "acquire", "request", "diskwait", "release"}

-----------------------------------------------------------------------------
(* Interrupt *)

Advance(s, ticks) ==
    [s EXCEPT !.pending =
        [i \in DOMAIN s.pending |-> [s.pending[i] EXCEPT !.when = @ - ticks]]]

\* interruptOrder, and where SortedList::Insert puts an interrupt: after those
\* scheduled for the same time.
InterruptPosition(list, when) ==
    CHOOSE i \in 1 .. Len(list) + 1 :
        /\ \A j \in 1 .. i - 1 : list[j].when <= when
        /\ i <= Len(list) => when < list[i].when

\* Schedule, without the tick at its end when interrupts were enabled.
Schedule(s, type, arg, fromNow) ==
    [s EXCEPT !.pending =
        InsertAt(@, InterruptPosition(@, fromNow),
                 [type |-> type, arg |-> arg, when |-> fromNow])]

Vsem(s, name) ==
    LET r == V(s.k, s.sem[name])
    IN  [s EXCEPT !.k = r.k, !.sem[name] = r.sem]

\* Its test for IdleMode never succeeds: HandleIfDue has set the status to
\* SystemMode.  The working set it refreshes is Replacement's subject.
SchedTimerInterruptHandler(s) == [s EXCEPT !.yieldOnReturn = TRUE]

TimerExpired(s, delay) ==
    SchedTimerInterruptHandler(Schedule(s, "TimerInt", 0, delay))

\* Mutant of CheckCharAvail: a buffered character is overwritten.
CheckCharOverwrites(s) ==
    LET t == Schedule(s, "ConsoleReadInt", 0, ConsoleTime)
    IN  IF s.keyboard = <<>> THEN t
        ELSE Vsem([t EXCEPT !.incoming = Head(s.keyboard), !.keyboard = Tail(@)],
                  "readAvail")

CheckCharAvail(s) ==
    LET t == Schedule(s, "ConsoleReadInt", 0, ConsoleTime)
    IN  IF s.incoming # FLAG_EOF \/ s.keyboard = <<>> THEN t
        ELSE Vsem([t EXCEPT !.incoming = Head(s.keyboard), !.keyboard = Tail(@)],
                  "readAvail")

\* Mutant of ConsoleFinishWrite: the write handler is not called.
FinishWriteSilently(s, ch) ==
    [s EXCEPT !.screen = Append(@, ch), !.putBusy = FALSE]

WriteDone(s) == Vsem([s EXCEPT !.putBusy = FALSE], "writeDone")

ConsoleFinishWrite(s, ch) == WriteDone([s EXCEPT !.screen = Append(@, ch)])

RequestDone(s) == Vsem(s, "disk")

\* Disk::HandleInterrupt
DiskDone(s) == RequestDone([s EXCEPT !.active = FALSE])

Handler(s, e, delay) ==
    CASE e.type = "TimerInt"        -> TimerExpired(s, delay)
      [] e.type = "ConsoleReadInt"  -> CheckCharAvail(s)
      [] e.type = "ConsoleWriteInt" -> ConsoleFinishWrite(s, e.arg)
      [] e.type = "DiskInt"         -> DiskDone(s)

\* Mutant of HandleIfDue: an interrupt is due only at its very time.
HandleOnTheDot(s, idle, advanceClock, delay) ==
    LET e    == Head(s.pending)
        done == Handler([s EXCEPT !.pending = Tail(@)], e, delay)
    IN  IF e.when # 0 THEN [s |-> s, again |-> advanceClock]
        ELSE [s |-> done, again |-> Head(done.pending).when = e.when]

\* HandleIfDue: the state it leaves, and what it returns.  With no pending
\* interrupt the code reads through a null pointer, and Head is undefined here.
HandleIfDue(s, idle, advanceClock, delay) ==
    LET e    == Head(s.pending)
        rest == [s EXCEPT !.pending = Tail(@)]
        done == Handler(rest, e, delay)
    IN  IF e.when > 0 THEN [s |-> s, again |-> advanceClock]
        ELSE IF idle /\ e.type = "TimerInt" /\ rest.pending = <<>>
        THEN [s |-> s, again |-> FALSE]
        ELSE [s |-> done,
              again |-> done.pending # <<>> /\ Head(done.pending).when = e.when]

\* OneTick once all its handlers have run.  A thread that yields here is inside
\* Thread::Yield, and passes another tick when it has the processor again.
EndTick(s) ==
    LET t == s.k.currentThread
    IN  IF s.yieldOnReturn \/ s.k.needResched
        THEN [s EXCEPT !.loop = "none", !.yieldOnReturn = FALSE, !.k = Yield(s.k),
                       !.inYield = @ \cup {t}]
        ELSE [s EXCEPT !.loop = "none", !.inYield = @ \ {t}]

\* Idle once all its handlers have run, and the search of Thread::Sleep for a
\* thread to run.
EndIdle(s) ==
    [s EXCEPT !.loop = "none", !.yieldOnReturn = FALSE, !.k = Dispatch(s.k)]

-----------------------------------------------------------------------------

\* The objects Initialize creates.  The timer and the console have their first
\* interrupts pending.
Interrupt == [pending |-> <<>>, yieldOnReturn |-> FALSE]

Timer(s, delay) == Schedule(s, "TimerInt", 0, delay)

\* There is no character to write, and none has been typed.
Console(s) ==
    Schedule([s EXCEPT !.putBusy = FALSE, !.incoming = FLAG_EOF],
             "ConsoleReadInt", 0, ConsoleTime)

Disk == [active |-> FALSE]
SynchDisk == [lock |-> FreeLock]

Semaphore(initial) == [value |-> initial, queue |-> <<>>]

SemName == {"read", "write", "readAvail", "writeDone", "disk"}

Init ==
    \E main \in Thread : \E others \in SetToSeqs(Thread \ {main}) :
    \E delay \in TimerDelays :
        /\ m = Console(Timer(
               [k |-> [Boot(main) EXCEPT
                         !.status = [t \in Thread |-> IF t = main THEN "RUNNING" ELSE "READY"],
                         !.allThreads = <<main>> \o others,
                         !.readyList = others,
                         !.started = Thread],
                inYield |-> Thread \ {main},
                sem |-> [name \in SemName |->
                            Semaphore(IF name \in {"read", "write"} THEN 1 ELSE 0)],
                pending |-> Interrupt.pending,
                yieldOnReturn |-> Interrupt.yieldOnReturn,
                loop |-> "none",          \* running handlers, in "tick" or "idle"
                putBusy |-> FALSE,
                incoming |-> FLAG_EOF,
                keyboard |-> <<>>,        \* typed, not yet seen by the console
                screen |-> <<>>,          \* everything written
                taken |-> <<>>,           \* everything GetChar has returned
                active |-> Disk.active,
                lock |-> SynchDisk.lock,
                failed |-> FALSE],        \* an ASSERT of a device has failed
               delay))
        /\ pc = [t \in Thread |-> "user"]
        /\ left = [t \in Thread |-> 0]
        /\ calls = 0

\* t has the processor, outside ticks, and is not inside Yield.
Running(t) == Executing(m.k, t) /\ m.loop = "none"
At(t, label) == Running(t) /\ t \notin m.inYield /\ pc[t] = label

\* t, having come to s, begins a tick and goes on to label after it.
TickTo(t, s, ticks, label) ==
    /\ m' = [Advance(s, ticks) EXCEPT !.loop = "tick"]
    /\ pc' = [pc EXCEPT ![t] = label]

\* t, having come to s, is in P: it goes on to after, or sleeps at during.
Psem(t, s, name, during, after) ==
    LET r == TryP(s.k, s.sem[name])
        u == [s EXCEPT !.k = r.k, !.sem[name] = r.sem]
    IN  IF r.through THEN TickTo(t, u, SystemTick, after)
        ELSE m' = u /\ pc' = [pc EXCEPT ![t] = during]

EndCall(t, s, name) == TickTo(t, Vsem(s, name), SystemTick, "user")

-----------------------------------------------------------------------------
(* Threads *)

\* Thread::Yield returns: interrupts are enabled again.
ResumeYield(t) ==
    /\ Running(t) /\ t \in m.inYield
    /\ TickTo(t, m, SystemTick, pc[t])
    /\ UNCHANGED <<left, calls>>

\* An instruction of the user program.
UserInstruction(t) ==
    At(t, "user") /\ TickTo(t, m, UserTick, "user") /\ UNCHANGED <<left, calls>>

BeginCall(t, n) ==
    /\ At(t, "user") /\ calls < MaxCalls
    /\ calls' = calls + 1
    /\ left' = [left EXCEPT ![t] = n]

\* Mutant of ConsoleWrite: it does not wait for its turn.
ConsoleWriteUnguarded(t) ==
    /\ \/ \E n \in 1 .. 2 : BeginCall(t, n)
       \/ At(t, "write") /\ UNCHANGED <<left, calls>>
    /\ TickTo(t, m, SystemTick, "put")

\* A call of ConsoleWrite, or another turn in P.
ConsoleWrite(t) ==
    /\ \/ \E n \in 1 .. 2 : BeginCall(t, n)
       \/ At(t, "write") /\ UNCHANGED <<left, calls>>
    /\ Psem(t, m, "write", "write", "put")

\* PutChar, and the call's V after the last character.
PutChar(t) ==
    /\ At(t, "put")
    /\ IF left[t] = 0 THEN EndCall(t, m, "write")
       ELSE TickTo(t, Schedule([m EXCEPT !.failed = @ \/ m.putBusy, !.putBusy = TRUE],
                               "ConsoleWriteInt", <<t, left[t]>>, ConsoleTime),
                   SystemTick, "putwait")
    /\ UNCHANGED <<left, calls>>

PutWait(t) ==
    /\ At(t, "putwait")
    /\ Psem(t, m, "writeDone", "putwait", "put")
    /\ left' = [left EXCEPT ![t] = IF pc'[t] = "put" THEN @ - 1 ELSE @]
    /\ UNCHANGED calls

ConsoleRead(t) ==
    /\ \/ \E n \in 1 .. 2 : BeginCall(t, n)
       \/ At(t, "read") /\ UNCHANGED <<left, calls>>
    /\ Psem(t, m, "read", "read", "getwait")

GetWait(t) ==
    /\ At(t, "getwait")
    /\ Psem(t, m, "readAvail", "getwait", "get")
    /\ UNCHANGED <<left, calls>>

GetChar(s) == [s EXCEPT !.taken = Append(@, s.incoming), !.incoming = FLAG_EOF]

\* GetChar, and the next P or, after the last byte or at end of file, V.
Get(t) ==
    /\ At(t, "get")
    /\ left' = [left EXCEPT ![t] = IF m.incoming = EOF THEN 0 ELSE @ - 1]
    /\ IF left'[t] = 0 THEN EndCall(t, GetChar(m), "read")
       ELSE Psem(t, GetChar(m), "readAvail", "getwait", "get")
    /\ UNCHANGED calls

\* ReadSector and WriteSector of SynchDisk: they differ in the data only.
SectorCall(t) ==
    LET r == TryAcquire(m.k, m.lock)
        s == [m EXCEPT !.k = r.k, !.lock = r.lock]
    IN  /\ \/ BeginCall(t, 0)
           \/ At(t, "acquire") /\ UNCHANGED <<left, calls>>
        /\ IF r.through THEN TickTo(t, s, SystemTick, "request")
           ELSE m' = s /\ pc' = [pc EXCEPT ![t] = "acquire"]

\* Disk::ReadRequest and WriteRequest.  How long seek, rotation and transfer take is
\* left open here; DiskHead is about that.
DiskRequest(t) ==
    /\ At(t, "request")
    /\ \E latency \in DiskLatencies :
          TickTo(t, Schedule([m EXCEPT !.failed = @ \/ m.active, !.active = TRUE],
                             "DiskInt", 0, latency),
                 SystemTick, "diskwait")
    /\ UNCHANGED <<left, calls>>

\* Mutant of DiskWait: the thread goes on while the request is under way.
DiskNoWait(t) ==
    /\ At(t, "diskwait")
    /\ TickTo(t, m, SystemTick, "release")
    /\ UNCHANGED <<left, calls>>

DiskWait(t) ==
    /\ At(t, "diskwait")
    /\ Psem(t, m, "disk", "diskwait", "release")
    /\ UNCHANGED <<left, calls>>

DiskRelease(t) ==
    LET r == Release(m.k, m.lock)
    IN  /\ At(t, "release")
        /\ TickTo(t, [m EXCEPT !.k = r.k, !.lock = r.lock], SystemTick, "user")
        /\ UNCHANGED <<left, calls>>

\* A turn of "while (HandleIfDue(false))" in OneTick, and after the last one
\* the end of OneTick.
HandleInTick ==
    /\ m.loop = "tick"
    /\ \E delay \in TimerDelays :
          LET r == HandleIfDue(m, FALSE, FALSE, delay)
          IN  m' = IF r.again THEN r.s ELSE EndTick(r.s)
    /\ UNCHANGED <<pc, left, calls>>

\* Interrupt::Idle up to its loop: the clock is set to the time of the next
\* interrupt, which may lie in the past.
Idle ==
    /\ Idling(m.k) /\ ~m.k.halted /\ m.loop = "none"
    /\ \E delay \in TimerDelays :
          LET r == HandleIfDue(m, TRUE, TRUE, delay)
          IN  m' = IF r.again
                   THEN [Advance(r.s, Head(r.s.pending).when) EXCEPT !.loop = "idle"]
                   ELSE [r.s EXCEPT !.k.halted = TRUE]
    /\ UNCHANGED <<pc, left, calls>>

HandleInIdle ==
    /\ m.loop = "idle"
    /\ \E delay \in TimerDelays :
          LET r == HandleIfDue(m, TRUE, FALSE, delay)
          IN  m' = IF r.again THEN r.s ELSE EndIdle(r.s)
    /\ UNCHANGED <<pc, left, calls>>

\* Somebody types the next key; the last may be the end of input.
Type ==
    LET n == Len(m.taken) + Len(m.keyboard) + (IF m.incoming = FLAG_EOF THEN 0 ELSE 1)
    IN  /\ n < MaxKeys /\ ~m.k.halted
        /\ \E c \in {n + 1} \cup (IF n + 1 = MaxKeys THEN {EOF} ELSE {}) :
              m' = [m EXCEPT !.keyboard = Append(@, c)]
        /\ UNCHANGED <<pc, left, calls>>

ThreadStep ==
    \/ \E t \in Thread : ResumeYield(t)
    \/ \E t \in Thread : UserInstruction(t)
    \/ \E t \in Thread : ConsoleWrite(t)
    \/ \E t \in Thread : PutChar(t)
    \/ \E t \in Thread : PutWait(t)
    \/ \E t \in Thread : ConsoleRead(t)
    \/ \E t \in Thread : GetWait(t)
    \/ \E t \in Thread : Get(t)
    \/ \E t \in Thread : SectorCall(t)
    \/ \E t \in Thread : DiskRequest(t)
    \/ \E t \in Thread : DiskWait(t)
    \/ \E t \in Thread : DiskRelease(t)

Processor == ThreadStep \/ HandleInTick \/ Idle \/ HandleInIdle

Next == Processor \/ Type

\* The processor never stops by itself: it runs the current thread, a handler or
\* the idle loop until the machine halts.  This is WF_vars(Processor), with its
\* being enabled written as ~m.k.halted.
Fairness == []<>m.k.halted \/ []<><<Processor>>_vars

Spec == Init /\ [][Next]_vars /\ Fairness

-----------------------------------------------------------------------------
(* Properties *)

Pending(type) == {i \in DOMAIN m.pending : m.pending[i].type = type}

\* Every part of the state has the shape the code declares; in particular no
\* semaphore is ever negative.
TypeOK ==
    /\ m.k \in Kernel
    /\ \A i \in DOMAIN m.pending : m.pending[i].type \in IntType /\ m.pending[i].when \in Int
    /\ \A s \in DOMAIN m.sem : m.sem[s] \in KernelSemaphore
    /\ m.lock \in Lock
    /\ m.incoming \in Key \cup {EOF, FLAG_EOF}
    /\ pc \in [Thread -> Where]
    /\ left \in [Thread -> 0 .. 2]

InCall(label) == Cardinality({t \in Thread : pc[t] = label})

\* A request and its completion match, one to one: a thread that waits for the
\* console or the disk has its interrupt still to come or its V already done,
\* whichever came first, and no interrupt or V is left over from an earlier
\* request.  So the ASSERTs of PutChar, ReadRequest and WriteRequest, that the
\* device is not busy, never fail.
CompletionsExact ==
    /\ ~m.failed
    /\ InCall("putwait") = Cardinality(Pending("ConsoleWriteInt")) + m.sem.writeDone.value
    /\ InCall("diskwait") = Cardinality(Pending("DiskInt")) + m.sem.disk.value
    /\ m.putBusy <=> Pending("ConsoleWriteInt") # {}
    /\ m.active <=> Pending("DiskInt") # {}

\* The timer and the poll of the keyboard reschedule themselves from their own
\* handlers: there is always exactly one interrupt of each pending, so neither
\* dies out or multiplies, and HandleIfDue never finds the list empty, where it
\* would read through a null pointer.
PollersPending ==
    /\ Cardinality(Pending("TimerInt")) = 1
    /\ Cardinality(Pending("ConsoleReadInt")) = 1

\* Every key typed is read once, in the order typed, although the keyboard has
\* a buffer of one character and the poll that fills it, the reader that empties
\* it and the semaphore between them run at different times.
KeysInOrder ==
    LET buffered == IF m.incoming = FLAG_EOF THEN <<>> ELSE <<m.incoming>>
        typed    == m.taken \o buffered \o m.keyboard
    IN  /\ \A i \in DOMAIN typed : typed[i] \in {i, EOF}
        /\ Len(buffered) = m.sem.readAvail.value + InCall("get")

\* The characters of one ConsoleWrite come out together: between two of them
\* nobody else's are written.  (A character is the writer and what it had left.)
OutputUnbroken ==
    \A i \in 1 .. Len(m.screen) - 1 :
        m.screen[i][2] > 1 => m.screen[i + 1] = <<m.screen[i][1], m.screen[i][2] - 1>>

\* A tick handles only interrupts scheduled for one and the same time, so others
\* that are due are late; but the list stays in order of time, and an interrupt
\* is never late by more than a tick for each other source of interrupts.
LatenessBounded ==
    /\ \A i, j \in DOMAIN m.pending : i < j => m.pending[i].when <= m.pending[j].when
    /\ \A i \in DOMAIN m.pending :
          m.pending[i].when > -(SystemTick * Cardinality(IntType))

\* A character given to the console is written and its writer goes on, unless
\* the machine halts.
WriteReturns ==
    \A t \in Thread : pc[t] = "putwait" ~> (pc[t] # "putwait" \/ m.k.halted)

\* The comment of Interrupt::Idle says of the code that halts the machine: "if
\* there are no pending interrupts, and nothing is on the ready queue, it is
\* time to stop. If the console or the network is operating, there are *always*
\* pending interrupts, so this code is not reached" (interrupt.cc:250-253).
HaltOnlyWhenDone ==
    m.k.halted => /\ m.k.readyList = <<>>
                  /\ \A i \in DOMAIN m.pending : m.pending[i].type = "TimerInt"

=============================================================================
