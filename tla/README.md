# A TLA+ model of the Nachos kernel

Nachos is a small operating system that runs as one UNIX process: the kernel is
C++, user programs are MIPS binaries executed by a simulator. This directory
models the parts of `src/nachos` whose correctness depends on several actors
or on long sequences of calls: virtual memory with copy-on-write and swapping,
the scheduler and the synchronization routines, the life of processes,
interrupts and the devices, the file system, and the processor that runs the
programs, with its debugger. The build modelled is the one the Makefiles
produce: `USER_PROGRAM` and `USE_PTHREAD` defined, no TLB. That build has
`FILESYS_STUB`, whose file system is UNIX's; `FileSystem` models the repository's
own, the code under `FILESYS`, which does not compile as it stands (`openfile.h`
declares `ReadAt` with other parameters than `openfile.cc` defines).

## 1. Inventory

| component | state | operations | what makes it hard |
|---|---|---|---|
| virtual memory: `memmgr.cc`, `swapmgr.cc`, `addrspace.cc`, `translate.cc` | a page table per process; per frame and per swap slot a flag, its owners and their page number; contents | page fault, store (copy-on-write hit), fork, exec, exit, change of working-set size | one page is recorded in up to four places, by several processes; pageout rewrites the tables of others; memory, swap and working set run out |
| threads, scheduler: `thread.cc`, `scheduler.cc`, `list.cc` | status, priority, ready list, list of all threads, `threadToBeDestroyed`, `needResched` | new, delete, ready, dispatch, yield, sleep, finish, nice | preemption at every tick; who frees a dead thread |
| synchronization: `synch.cc`, `synchlist.cc` | value or owner, wait queue | P, V, Acquire, Release, Wait, Signal, Append, Remove | woken threads compete with newcomers; V from interrupt handlers |
| processes: `systemcall.cc`, `exception.cc` | parent, number of children, list of exited children, a semaphore, `thread_exit_status` | Fork, Wait, Exit, Nice, Yield, death by exception | a child can be preempted between telling its parent and becoming a zombie |
| interrupts, timer: `interrupt.cc`, `timer.cc` | level, pending list, simulated time | tick, schedule, idle | late and simultaneous interrupts |
| console, disk: `console.cc`, `disk.cc`, `synchdisk.cc` | busy flags, one request; where the disk's head is and since when | request, completion interrupt | completion races with the next request; the track buffer answers for sectors that have passed |
| file system and descriptors: `filesys/`, `systemcall.cc` | bitmap, directory, headers and data on disk; open files of each process | create, remove, open, read, write, close | several sector writes per operation, two of them for the directory; partial sectors; headers cached by open files |
| network: `post.cc`, `network.cc` | mailboxes, one packet in, one out | send, receive, delivery thread | lost packets, shared mailboxes |
| MIPS simulator: `mipssim.cc`, `machine.cc` | registers, delayed load, program counters | one instruction, exceptions, registers across switches, Fork and Exec | instructions restarted after a fault with a load pending; arithmetic edges |
| gdb stub: `nachos-stub.cc`, `breakpoint.cc` | breakpoint table, `singleStep`, its copy of the registers | set, clear, write, continue, step, detach, kill | stops must be exact and leave no trace in the program |
| statistics, DSUI scripts, tools, libraries | | | sequential, or reports only |

How they interact: a user instruction that misses in the page table raises
`PageFaultException`; `ExceptionHandler` calls `MemoryManager::pagein` on the
current thread's `AddrSpace`, which may call `pageout`, which calls
`SwapManager`. `Fork` and `Exec` work on the current `AddrSpace`; the `Thread`
destructor deletes it, and is called by a parent's `Wait` or by the next
thread to run. Everything that blocks goes through `KernelSemaphore` or `Lock`
to `Thread::Sleep` and the scheduler. `Interrupt::OneTick` is where time
passes: handlers run there, and there the current thread may be switched away.

Atomicity follows from this. The kernel switches threads only where a tick
happens (interrupts being re-enabled, or a user instruction having been
executed) and where it calls `Sleep`; between two such points kernel code is
one step of a model. The stub file system makes UNIX calls and never sleeps, so
a page fault is one step too.

`PROJECT.json` lists the hazards, each at its line, with the property that
would show it.

## 2. Modules

| module | models | composes |
|---|---|---|
| `PrivateMemory` | abstract: every process has a memory of its own | |
| `VirtualMemory` | page tables, frame table, swap file; faults, stores, fork, exit, working-set size | implements `PrivateMemory` |
| `VirtualMemoryExec` | the same with `Exec` | `VirtualMemory` |
| `VirtualMemoryProofs` | theorems about `VirtualMemory` | |
| `Replacement` | use and dirty bits, load times and reference history of one process's pages; FIFO, LRU, second chance; `refreshWss` | |
| `Scheduler` | thread objects, ready list, dispatch, sleep, yield, finish, as operators on a kernel state | |
| `Synch` | P, V, Acquire, Release as operators | `Scheduler` |
| `Contention` | threads and an interrupt handler that use a semaphore and a lock | `Synch` |
| `ProcessTree` | abstract: processes exit after their children and are waited for once | |
| `Processes` | the system calls Fork, Wait, Exit, Nice, Yield | `Synch`; implements `ProcessTree` |
| `ContextSwitch` | `SWITCH`, `ThreadRoot` and the deletion of threads over pthread mutexes and conditions | |
| `SchedulerProofs` | lemmas about the scheduler's lists and `Dispatch`, used by the next three | |
| `ContentionProofs`, `ProcessesProofs`, `DevicesProofs` | theorems about `Contention`, `Processes` and `Devices` | `SchedulerProofs` |
| `NumberLemmas` | lemmas about least elements, induction over a set of numbers, division, loops and powers of two, used by the next two | |
| `ReplacementProofs`, `FileSystemProofs` | theorems about `Replacement` and `FileSystem` | `NumberLemmas` |
| `Devices` | the interrupt queue and time, the timer, the console and the disk with `ConsoleRead`, `ConsoleWrite` and `SynchDisk` | `Synch` |
| `DiskHead` | how long a disk request takes: seek, rotation, track buffer | |
| `Files` | abstract: named files, each its own bytes | |
| `FileSystem` | bitmap, directory, headers, open files and the file system calls | implements `Files` |
| `Instructions` | what each MIPS instruction computes, on words of `W` bits | |
| `Decoding` | `Instruction::Decode` on words of 32 bits | |
| `Breakpoints` | the debugger's table | |
| `Isa` | abstract: each thread on a processor of its own, without faults, interrupts or switches | `Instructions` |
| `Processor` | `Machine::Run`, exceptions, registers across switches and system calls, the debugger's commands | `Instructions`, `Decoding`, `Breakpoints`; implements `Isa` |

The `MC` modules give the constants their values for TLC, and the symmetry and
view where a run uses one.

### Virtual memory

`vm` is one record with the page tables, the two managers and the contents of
memory and swap; `live` is the set of address spaces. A handler that calls
another is an operator from a machine state to the set of states it may return
in, so that one action is a whole handler: `PageFault` is
`ExceptionHandler` and `pagein` with the `pageout` inside it, `Write` is
`Machine::WriteMem` with `Translate` and, on a copy-on-write hit,
`duplicatePage`; `Fork` is `CopyFrom`; `Destroy` is `~AddrSpace`; `Exec` is
`ModifySpace`. The set of results is empty exactly where the code stops at an
`ASSERT` (swap file full, no victim).

The contents of a page are one value. Choices that depend on data the model
leaves out are open: which clear bit `BitMap::Find` returns, which of its pages
a process gives up under FIFO, LRU or second chance (`"LOCAL"`), which owner is
`owners[0]`, which size `refreshWss` computes. Whatever holds for every choice
holds for the code's. Owner arrays are sets; `Without` keeps the special case
of `release_page` and `release_frame`, which drop a single owner without
looking at who it is. `ClearCow` in `Release` and `ReleaseOld` looks at the
frame in entry 0, as the missing index in `addrspace.cc:330` and `:477` makes
the code do; the loops there are merged into one step, since every turn looks
at the same frame.

### Replacement

`Replacement` is about the choices `VirtualMemory` leaves open. It follows the
entries of one process; whether a frame is free or a store hits a copy-on-write
page is open, and the other processes page its pages out (`OtherEvicts`) and
shared ones in (`OtherLoads`). The three policies go over the page table in the
order of the code's loops (`Loop`). Masking with `deltaMask` is a comparison
(`InWindow`) and the shift a division (`Slide`), so the history can have any
width. A fault is one action with the victim it needs; a copy-on-write store is
one with `duplicatePage` and the reference that follows; the timer handler is
`Quantum` or `refreshWss`. `incrWssRefreshCounter` tests before it counts, so a
refresh comes at every eleventh quantum for a period of 10. A page copied by
`duplicatePage` gets load time 0, so under FIFO it goes before older ones.
`lastRef` is a history variable of the model.

### Threads

`Scheduler` and `Synch` are operators on a kernel record `k`, so that a
synchronization call and all it does to the scheduler (wakeup, `needResched`,
sleeping, choosing and running the next thread) is part of the caller's action.
`MayProceed` is the tick a thread passes: if `needResched` is set it has to
yield first, and it may be preempted there anyway (`Preempt`). A thread that
ran before resumes inside `Scheduler::Run` and deletes the finished thread; one
that runs for the first time starts in `ThreadRoot` and does not (`started`).
When nobody is ready the sleeping thread idles in `Sleep`'s loop until an
interrupt (`InterruptV`).

`Processes` splits `System_Wait` and `System_Exit` at the ticks inside them,
after `P` and after `V`; `pc` says where a process is. Thread identifiers are
not reused (`born`), so a pointer to a deleted thread can be told from one to
its successor. The wait queue and value of `ChildExited` are part of the
parent's record. Exit values are left out: no property is about them.

`ContextSwitch` is finer: host threads run in parallel, and an action is one
pthread call or the kernel code between two. Locking a mutex that `Finish` has
destroyed does nothing, which is what the host's library does (it returns an
error that nobody looks at). Waits do not return spuriously.

### Devices

Times in the pending list are relative to the present, so the state is finite
although time goes on. A thread's action ends where it begins a tick or falls
asleep; `HandleInTick`, `Idle` and `HandleInIdle` are the turns of the loops that
call `HandleIfDue`, one handler each. `EndTick` is the rest of `OneTick` with the
yield a handler asked for; a thread that yielded there passes another tick when it
comes back (`inYield`, `ResumeYield`). A thread in `P` or `Acquire` that is woken
takes the step again, as the loops in the code do. `screen`, `taken` and
`failed` are history variables. The keyboard is external: `Type` appends a key
at any time, the last perhaps the end of input. A key whose byte equals
`FLAG_EOF` is not typed: the code takes it for an empty buffer.

How long a disk request takes is open in `Devices` (`DiskLatencies`). `DiskHead` has
it as it is computed: `ComputeLatency` with `TimeToSeek`, `ModuloDiff` and the track
buffer, and `UpdateLast`, as functions of where the head is and since when.
`DisksAfter` is what a number of requests lead to, with pauses between them; a pause
is an interrupt handled late or an idle disk. `Earliest` is the reference, from the
times at which a sector passes under the head.

### File system

An action that changes the disk is one call of `WriteSector`, so the states in the
middle of an operation are the disks a halt can leave; `op` is the operation under
way, with what the kernel still has in memory. The header of `filesys.cc` says there
is no synchronization, so there is one operation at a time. The bitmap (1024 bits)
fits a sector. The directory, 10 entries of 20 bytes, takes two sectors of 128, and
entry 6 lies across the boundary: `inUse` and `sector` in the first, the name in the
second. So `Directory::WriteBack` is two actions (`CreateDirectory` and
`CreateDirectoryRest`, `RemoveDirectory` and `RemoveDirectoryRest`), the disk between
them is `FirstSectorWritten`, and `SplitEntry` says which entry is the one across.
`Seen` is the directory as the operations see it, with both sectors. Headers and data
share `block`; the system's files take the sectors 0 to 4. Reading a sector of the
wrong kind gives arbitrary bytes or an empty header. Descriptors 0 and 1 are the
console's and stay open. The model starts after formatting. A `Create` that fails has
written nothing and is no step.

`System_Unlink` removes a file whoever has it open, and an open file keeps its header
in memory. `unlinked` is a history variable: the descriptors of files removed since
they were opened. `Spec` is the system under any programs; `CarefulSpec` is about
programs that do not write to such a descriptor, though they may keep it open, read
from it and close it. Under `Spec` a write may change another file: the run
`stale_header`.

### Processor

Words have `W` bits, a byte a quarter of them, and addresses count words, so the
4 of the program counters is 1 and every access is aligned, which the simulator's
`ASSERT`s demand. `Decode` is a constant function from words to instructions;
`Decoding` has the tables and the field extraction for the words of 32 bits there are.
`at` says where in `Machine::Run` a thread is; `registers` is the machine's only
set. Which pages are in memory is open (`PageFault` may happen at any access and
any number of times), since `VirtualMemory` is about that. `Interrupt` and
`Switch` are the outcomes of `OneTick`: a handler that runs makes the pending load
happen first, as exceptions do. Of the system calls those that touch registers
are modelled: `Fork` (the child is fixed up when it first runs), `Exec`, `Exit`,
and the rest as a result in register 2, which for calls without one is whatever
`returnvalue` held.

Each command of the debugger is one step: its packets, with their checksums and
acknowledgements, are left out. `Z` takes any range, also one that overlaps another;
`separate` is a history variable that says whether that has happened. Apart from what
`Processor` meets, `TablesAfter` has every table that sequences of `Z` and `z` lead
to, with ranges of several lengths and types.

In `Isa` a load is done at once, and the instruction in its delay slot sees the old
or the new value; this is what the code guarantees, since an interrupt or a fault
in between makes the difference. The refinement maps a pending load to one done.

Some things the model shows that a reader of the code might not expect, all
kept as they are: a step from a breakpoint executes two instructions, since
`trapFlag` was read before the stop, although `machine.h:201-202` says "drop back into
the debugger after each simulated instruction"; with overlapping ranges `findAddr` can
pass by one that contains the address, although `breakpoint.cc:17-18` promises the
first that does; a step over `Exec` ends after the first
instruction of the new program; a register written with `P` is overwritten by
`RestoreRegisters` when the program goes on; `G` sets the program counter and not
the next one; `C` and `S` with a signal come straight back to the stub; `SRL` and
`SRLV` shift arithmetically, and are not among the instructions whose result is
compared with a reference; `JALR` writes its link before it reads its operand.

## 3. Runs

Sizes are distinct states; each run takes less than three minutes with two workers.

| run | instance | result |
|---|---|---|
| `paging` | 2 processes, 2 pages, 2 frames, 4 slots, 2 values, `DUMB` policy | passes, about 285,000 |
| `replacement` | 3 pages, 2 bits of history, window 2, sizes 1 and 2, all policies, with contraction | passes, about 485,000 |
| `contention` | 4 threads, semaphore up to 2, a lock, an interrupt handler | passes, about 188,000 |
| `processes` | 3 processes, priorities 0 to 2 | passes, about 8,700 |
| `devices` | 2 threads, 2 calls of up to 2 characters or a sector, 2 keys; 3 disk requests on 3 tracks of 4 sectors | passes, about 461,000 |
| `filesystem` | 3 names, 2 directory entries, the first across the boundary, 4 free sectors of 2 bytes, files of 0, 1 and 3 bytes | passes, about 106,000 |
| `machine` | 2 threads, 7 programs of 3 words, words of 4 bits, 2 changes by the debugger; tables after 6 commands | passes, about 720,000 |
| `exec_tight` | 2 processes, 2 executables, 2 frames | violation |
| `lock_handoff` | 2 threads | violation |
| `idle_halt` | 1 thread, the times of the code | violation |
| `context_switch` | 3 threads | violation |
| `stale_header` | 2 names, 2 directory entries, 4 free sectors | violation |

*paging.* Two frames for four pages make every fault and every copy-on-write
hit evict something, often a shared page; four slots are one for each page of
each process, what `SwapSuffices` needs. The properties say that the page
tables, the frame table and the swap records are inverses of each other
(`MappingsMatchOwners`, `FlagsMatchOwners`, `SwapMatchesOwners`), that sharers
agree and are copy-on-write (`SharersAgree`, `SharedIsCow`), that dropping a
clean page is safe (`EvictionLosesNothing`), and that the whole implements
`PrivateMemory` (`PagingIsInvisible`). `MCView` removes from the state only
what no step reads before writing it; `Symmetry` permutes processes and swap
slots, which the specification treats alike except for slot 0.

*exec_tight.* With few frames, `ModifySpace` evicts its own old frames while the
new page table is installed: `pageout` changes the new entries, the old ones stay
valid, and the loop at the end releases frames the new program has just been
given. This is reported as a finding.

*replacement.* Three pages are enough for a victim, a page that is passed over and
a page that must stay, and two bits of history for a page to be referenced now,
one interval ago or longer. `VictimsMatchReference` says what each loop computes
without a loop (for second chance: the oldest page of the best kind, although
unused pages can fall into the branch for used ones). `HistoryTellsRecency` ties
the history byte to when the page was last referenced, so that `refreshWss`
counts exactly the pages of its window, and `LruEvictsLeastRecent` says that LRU
deserves its name. `FaultRespectsWorkingSet`: `TooManyFrames` tests with `>`
before the new page is counted, so the limit that really holds under the local
policies is `wSetSize + 1`. `MCView` renumbers load times without changing their order,
since nothing but their order is read, and blanks fields of absent pages that
`pagein` overwrites.

*contention.* Four threads are enough for one in the lock, one woken, one asleep
and a newcomer. `NoLostWakeup`: the woken thread does not own the unit it was
woken for, and a newcomer may take it; still every unit is matched by an awake
thread while others sleep. `MaxValue` bounds V. Deadlock is not checked: because
of the next item all threads may come to wait for the lock.

*lock_handoff.* `Release` makes the waiter the owner, and `Acquire`'s loop waits
for there to be no owner: a contended lock is never obtained. Mutual exclusion
holds; progress does not. Finding.

*processes.* Three processes give a chain and a pair of siblings; every
interleaving at ticks is explored, with `Nice` reordering the ready list.
Deletion happens once (`NoDanglingThread`, `NoCarcassLost`), the counters of
`System_Wait` agree with its asserts (`WaitFindsChild`), the whole implements
`ProcessTree`, and the machine halts (`AllExit`). Deadlock is not checked
because a halted machine takes no step.

*devices.* Two threads and two calls give every pair of calls at the same time:
two writers, two readers, two users of the disk, and a call of one kind beside
another. The times are small and have no common divisor, so that interrupts of
all kinds meet, and are late, in every order. `CompletionsExact` ties each
waiter to the interrupt or the V that will end its wait, and is what makes the
devices' `ASSERT`s hold; `KeysInOrder` does so for the buffer of one key;
`OutputUnbroken` is what `consoleWrite` is for; `LatenessBounded` says how late an
interrupt may be although a tick takes those of one time only. `WriteReturns` is
liveness, unless the machine halts: see the next item. Deadlock is not checked
because a halted machine takes no step, and two users of the disk may end as in
`lock_handoff`. `LatencyIsPhysical` depends on no state and is evaluated in the
initial one: on every disk that two requests lead to, each request ends when its
sector has passed the head, and as soon as that; two are enough for the head to come
to a track and for a read there to be answered from the buffer, and pauses of 0 to 5
ticks with a sector passing in 3 for every phase of the rotation.

*idle_halt.* `Idle` takes "no handler asked for another turn" for "nothing to do".
With the code's tick, console time and default time slice of 110 ticks, a write to
the console ends with the machine halting under it. Finding. (Only `idle_halt` uses the real times; they make long
behaviours and few interleavings.)

*filesystem.* Three names for two entries and four free sectors let sectors, entries
and names pass from a removed file to a new one, while the old one is still open. The
first entry is the one across the boundary, so that a file of the name it held before
can be in the entry after it, and be hidden by a directory written by half if `Create`
took another entry than the first unused one. A size of 0, a partial sector and one
sector and a half, with reads and writes of 1 to 3 bytes at every position, give
`WriteAt` each combination of aligned and unaligned ends. Contents of free sectors and
unused entries are left out of the view, but for the stale name of the split entry,
since a new file may hold anything. `NoSectorLost` is about the disk after an
operation, `HaltHurtsOneFile` about the disk between any two writes. It admits one
wrong entry: between the two sectors of the directory the entry across the boundary may
show the new file under a name that was removed earlier, on sectors not yet marked; a
search for any other file does not stop there. (`filesys.cc:38-40` says itself that a
crash in the middle of an operation "may corrupt the disk".) `WritesAreExact` is about
the bytes of a write, and `FilesAreIndependent` says that the whole implements `Files`.

*stale_header.* The same system under any programs. A program writes through a
descriptor of a removed file, whose header names sectors that another file has now, and
that file changes. Finding.

*machine.* The seven programs have between them every kind of instruction, with a
load before an instruction that uses its register, before a store, a jump, a
system call and another load; memory wraps, so a branch and its delay slot may
be anywhere. `RunsAsIsa` is the implementation of `Isa`. `InstructionsExact`
compares the decoding of 32-bit words with the encodings of the manual, and the
arithmetic with the integers' for all pairs of words; 4 bits have
the same edges as 32 (sign, carry, the most negative word, parts of a quarter
and a half). `QueriesAreExact`: in the tables that up to six commands can make of
separate ranges of one or two bytes, of two types, on five addresses (up to five
entries), every access finds what the set of breakpoints says. Both are evaluated in
the initial states. `StopsWhenAsked`: as long as no range was set that overlaps another
one the stops at breakpoints are exact, and a step goes over at most one instruction
(none, if that faults). It claims nothing of a step from a breakpoint, which goes over
two. Deadlock is not checked: programs end.

*context_switch.* The finishing thread still has to read its own status when the
next thread, running already, deletes it. Finding.

### Fairness

A thread inside kernel code that has the processor goes on: weak fairness of the
resuming steps. The steps that begin after a tick are enabled only when the
thread was not made to yield there, and are lost again when it is preempted, so
they have strong fairness: a thread that gets the processor again and again
gets past the tick. The scheduling timer goes on interrupting (strong fairness
of `Preempt`), which with the ready list in priority order lets equal
priorities alternate. Programs are assumed to call Exit in the end in
`AllExit`, and lock holders to release in `AcquireReturns`; nobody is assumed
to do V, to fork or to wait. In `Devices` the processor never stops until the
machine halts (weak fairness of everything but the keyboard); nothing is assumed
of any thread or key.

## 4. Proofs

Six modules are each about one component. Each proves, for every value of the
constants, an inductive invariant `IInv` (for most stated as `Invariance`:
`Spec => []IInv`; for the file system `CarefulSpec => []IInv`) and from it the invariants of a run, for three of them
that they implement their abstract specification, and for `Replacement` an
action property. `SchedulerProofs` and `NumberLemmas` hold lemmas.

### Virtual memory

`VirtualMemoryProofs`, for any number of processes, pages, frames, swap slots and
executables and either kind of policy:

* `TypeCorrect`, `MappingsCorrect`, `FlagsCorrect`, `SharersCorrect`,
  `CowCorrect`, `SwapCorrect`, `EvictionCorrect`: the invariants of the run
  `paging`;
* `SwapCapacity`: `SwapSuffices`, when processes and slots are finite and there is
  a slot for each page of each process. Its hypothesis is part of the theorem; with
  fewer slots the code does stop at its `ASSERT`. The argument counts: every slot
  in use is the slot of some entry and the entry to be written has none;
* `Refinement`: `Spec => PagingIsInvisible`, the implementation of
  `PrivateMemory`.

`IInv` is `TypeOK`, the relations between the tables (`Linked`) and `FlagsOwned`.
None of the invariants is inductive alone. That the frame table matches the page
tables survives a page-in from swap only because the swap record names the
processes whose entries point at the slot; that record is written by `pageout`
from the frame's owners, and is right only because the owners agree; a clean
page may be dropped only if it equals its backing, which a copy-on-write store
preserves only because a frame that is not copy-on-write has one owner. `Linked`
is the conjunction of these, with `Unused` (a process that does not exist has an
empty table).

There is one lemma per handler: `PageoutLinked`, `TakeFrameLinked`,
`LoadLinked`, `PageinLinked`, `DuplicateLinked`, `StoreLinked`,
`CopyFromLinked`, `ReleaseLinked`. Each says that the handler keeps `Linked` and
what happens to `View`, the memory a process sees: nothing for paging, one page
for a store, a copy for a fork, nothing left for an exit. The actions, and the
refinement, follow from them.

Assumptions, all checked by TLC on the instances: the named pages are pages,
the stack is zero-filled and the text is not, there are at least two frames,
`NULL`, the swap file and the executables are different files.

### Scheduler and synchronization

`SchedulerProofs` has what the three modules below need of `Scheduler`: that
inserting by priority keeps a list in order and adds one thread, that taking the
head removes one, and that `Dispatch` keeps the ready list exact and leaves the
other threads alone.

`ContentionProofs` proves, for any number of threads, the invariants of
`contention`: `TypeCorrect`, `PlacesCorrect` (`OnePlace`), `LockCorrect`
(`MutualExclusion`) and `WakeupsCorrect` (`NoLostWakeup`). These are
inductive only together and with `KernelSound` (the ready list is exact, nobody
is a zombie) and `QueuesSound` (a thread is in a queue at most once and only
inside the routine that put it there): `V` may take the head of a queue for a
sleeping thread, and so keep `NoLostWakeup`, only if nobody is in two queues, and
`Sleep` keeps `OnePlace` only if the caller was not queued before.

### Processes

`ProcessesProofs`, for any number of processes and any priorities:
`TypeCorrect`, `SchedulerCorrect`, `WaitCorrect` (`WaitFindsChild`),
`PointersCorrect` (`NoDanglingThread`), `CarcassesCorrect` (`NoCarcassLost`), and
`Refinement`, `Spec => ForkExitWait`, the implementation of `ProcessTree`.

The inductive invariant `Sound` adds to the scheduler's lists: where a process is
in its program agrees with its status (`PhaseSound`); parents exist
(`ParentsSound`); a child on a list has announced itself to its parent and to no
one else (`ListsSound`); somebody will delete whoever has finished or is about to
(`CarcassSound`); and the counters count (`CountsSound`: the length of the list is
the semaphore's value, one more while its owner is between `P` and taking a child
off; `Children` is that length and the number of children that have yet to exit).
The last is what makes `System_Wait`'s asserts hold, and it is kept by
`System_Exit` only because the parent cannot have gone: a parent that has
announced itself has no children (`PhaseSound`). `NoDanglingThread` needs in
addition that a thread on a list is never `threadToBeDestroyed`.

### Devices

`DevicesProofs`, for any number of threads and calls, any keys and any times:
`TypeCorrect`, `PollersCorrect`, `OutputCorrect`, `LatenessCorrect`,
`CompletionsCorrect` and `KeysCorrect`: the invariants of `devices` that are about
its states, and `PollersPending`, which keeps `HandleIfDue` away from the null pointer
of an empty list and is only proved.

Of the kernel the devices need only its shape (`QuietKernel`), and that is the
reason for the first lemmas. `Sound` is about the rest: the list of pending
interrupts is in order, has at most one of each type and always the timer's and
the poll's (`PendingSound`); one thread at a time is inside each console routine,
and whoever waits for a completion has an interrupt pending or a V done, not both
(`OutputSound`, `InputSound`, `SectorsSound`). The busy flags follow from the
second, and with them the devices' `ASSERT`s. For `OutputUnbroken` the invariant
says what the next character will be (`Continues`); for `KeysInOrder`, that the
buffer is full exactly while its key is announced to the semaphore or to the
reader that came through it.

`LatenessBounded` is not inductive: an interrupt that is as late as allowed could
be passed over in the next tick. `InTime` bounds each interrupt by its place in
the list: with `n` sources the one at place `i` is less than `n - i` ticks late,
one more while handlers run. A tick takes at least the head, so each of the others
moves up by a place as it gets a tick later, and what is inserted anew is not late.
A tick in a program must be no longer than one in the kernel for this
(`UserTick <= SystemTick`; 1 and 10 in `stats.h`). The other assumptions
are that times are positive, there are finitely many threads, and the marks for
end of input and for an empty buffer are no keys. Each handler, and each step of a
thread, has a lemma that says which parts of `Sound` it touches; the others are
carried over by what the old and the new state agree on (`SameOutput`, `SameInput`,
`SameDisk`).

### File system

`FileSystemProofs`, for any number of sectors, directory entries, names,
processes and descriptors, any sector size, any sizes of files and any entry across the
boundary: `FreeMapTrue` (`NoSectorLost`), `HaltContained` (`HaltHurtsOneFile`),
`WriteChangesItsBytes` (`WritesAreExact`), `WriteKeepsOtherFiles`
(`WriteModifiesItsFile`, which `stale_header` finds false of `Spec`), and `Refinement`,
`CarefulSpec => FilesAreIndependent`, the implementation of `Files`. All are about
`CarefulSpec`: files may be removed while they are open, and programs do not write to
them then. The other assumptions are that there are more sectors than the five of the
system and at least one directory entry, that sizes fit a header, and that there is a
byte.

The invariant has two parts. `OnDisk` is about the directory on the disk, which
between the two writes of `WriteBack` is neither the old nor the new one: its entries
are those of a sound table, except that the entry across the boundary may have a stale
name (`Torn`), and a search for the name of a file that the operation is not about stops
at the right entry. That holds because of `StaleSound`: the stale name in an unused
split entry is that of no entry after it, since `Add` takes the first unused one.
`Sound` is about the rest, with the directory as operations see it (`Seen`), in every
state between two writes to the disk:

* the directory and the headers are right (`DiskSound`): entries have different
  names, a header has the sectors its size needs, each once, and no two files
  share a sector or have one of the system's;
* the free map marks the sectors in use, but for the file being created or
  removed while its entry is on disk and its sectors are not marked (`Unmarked`): `Create` writes the directory before the map, and `Remove`
  the map before the directory;
* the header in each open file is the one on disk, unless the file was removed
  (`FilesSound`), and after a removal every descriptor of that name is among those
  known to be stale (`OpenRemoved`); a write uses a header that is the one on disk;
* what the kernel has in memory for the rest of the operation is what it is
  about to make true (`CreateSound`, `RemoveSound`, `WriteSound`). For a write,
  the sectors before `next` hold the new bytes and the others the old ones, and
  the buffer holds, for each byte, the new one if the call gave it and the one read
  from the disk if not (`BytesSound`).

`NoSectorLost` and `HaltHurtsOneFile` follow from the first two. For the bytes,
`ReadRight` and `BufferRight` say what `ReadAt` and the buffer of `WriteAt`
contain, from the quotient and remainder of each position by the sector size;
the cases of aligned and unaligned ends, which the run enumerates for sectors of
two bytes, are the branches of that proof. In the refinement a write to one
sector changes at most the bytes of one file (`OneSector`), since a sector is in
one file only, and is a step of `Files` or, when another operation's tables are
written, none.

### Replacement

`ReplacementProofs`, for any number of pages, any width of the history, any
window and any limits of the working set: `TypeCorrect`, `HistoryIsRecency`
(`HistoryTellsRecency`), `VictimsAreTheReferences` (`VictimsMatchReference`),
`LruIsLru` (`LruEvictsLeastRecent`) and the action property
`FaultsKeepToWorkingSet` (`FaultRespectsWorkingSet`).

`IInv` is `TypeOK` (proved, and not among the properties of the run) with
`HistoryTellsRecency`; the two are inductive together: sliding the window turns a window of `n` into one of `n - 1` only because the history is
below `2^HistoryBits` (`SlideKeeps`), and `Touch` stays below it only because it
adds the top bit to a history that lacks it (`TouchKeeps`). The rest follows in a
state. `FifoFindsOldest`, `LruFindsLeastUsed` and `ChoicesAreSound` are about the
loops: what has been found among the first `n` pages is the right page of them.
For second chance the last two of the four choices can be wrong while there are
pages of a better kind, because of the branch unused pages fall into; they are
right when they are needed (`ChoicesSound`). LRU's victim has the smallest history,
and of two pages the one referenced longer ago cannot have the larger
(`LruIsLeastRecent`). A fault finds a victim of the process's own because a
process with more pages than a size of at least one has one
(`FaultKeepsToWorkingSet`, `VictimsAreCandidates`).

Three ways around what the provers do not have, all in `NumberLemmas`. Induction on
a number is stated of a set that contains 0 and each successor (`SetInduction`),
from the well-foundedness of the numbers. That a recursive function over an
interval has the values its equation says is proved once for a loop given as a
table of functions (`LoopRuns`). Powers of two are numbers of subsets, so that
they double and grow (`PowerDoubles`, `PowersGrow`).

### Only model-checked

* The liveness properties (`SemaphoreProgress`, `AllExit`, `WriteReturns`):
  the proof system does not treat fairness.
* `Processor` and `Isa`, with `InstructionsExact`, `QueriesAreExact`, `RunsAsIsa` and
  `StopsWhenAsked`: they are built on the bitwise operators, which are recursive and
  which the proof system cannot expand. What `Mult`, the decoder, the bisection and, in `DiskHead`,
  `ComputeLatency` compute is compared with a reference over all words, tables or
  requests of the instance.
* `FileSystem` with programs that write to removed files: `WriteModifiesItsFile` is
  false of `Spec` (`stale_header`).
* `Exec`, a contended lock, `Idle`'s halt and `ContextSwitch`: what is stated about
  them is false of the code, and the runs show how.

## 5. Not modelled, and the plan

Not modelled:

* condition variables and `SynchList`: `Signal` and `Broadcast` acquire the lock
  that their caller holds, so no call returns and nothing in the running kernel
  can use them;
* network and post office: `Thread::Fork` does not make a thread ready in this
  version, so the postal worker never runs, and a mailbox is a `SynchList`;
* programs that die of an exception, as processes: their parent is not told, and
  `Finish` may overwrite a `threadToBeDestroyed` not yet deleted; `Processes` has
  programs that end by `Exit`;
* in the simulator and the stub: byte order, stops on data watchpoints, the
  selection of a thread by the debugger (`H`, `ForceYield`), which lets two
  threads stop in one stub, commands that only read, packets with their checksums
  and acknowledgements, the socket, a debugger that detaches with breakpoints set, `DIV` of the most negative word
  by -1, which traps in the host;
* in virtual memory: the contraction of `refreshWss` (option `cwss`). `Replacement` has
  it for the entries of one process. As read in the code (`thread.cc:234`), it pages
  victims out and leaves their page flags set, so that the frames are lost;
* in the replacement policies: the values LRU's search starts from (0xFF and the
  largest time) are `NoPage`, which every page beats, as in the code;
* in the file system: mounting a disk without formatting it, `List`, `Print`;
* the copying between user and kernel memory, `Echo`, `NameThread`, user events;
* the ELF parsing in `ReadHeaders`, host wrappers, statistics, scripts, tools and
  libraries: sequential, or nothing in the kernel reads their result.

What would come next: the processes that die of an exception, and the debugger's table
and the disk's latency proved, which needs the loops as functions apart from the
recursive operators.
