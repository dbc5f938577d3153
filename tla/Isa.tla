-------------------------------- MODULE Isa ---------------------------------
(***************************************************************************)
(* The machine as a user program sees it: threads with registers and       *)
(* memory of their own that run instruction by instruction, with a branch  *)
(* delay slot and a load delay slot.  There are no page faults, no time    *)
(* slices and no stops in it.                                              *)
(*                                                                         *)
(* As in the architecture, what an instruction in the delay slot of a load *)
(* finds in the loaded register is either of its two values, and if it     *)
(* writes that register either value may remain.                           *)
(***************************************************************************)
EXTENDS Instructions, FiniteSets

CONSTANTS
    Thread, Root,        \* the processes, and the first of them
    Reg,                 \* the registers in use
    MemSize,             \* words of an address space
    Decode,              \* the instruction that a word encodes
    Images,              \* the first program: contents of its address space
    Executables          \* the programs that are started with Exec

VARIABLES
    status,   \* of each thread: "absent", "running", "held" by a debugger, "dead"
    mem,      \* its memory
    gp,       \* its registers
    pc,       \* the instruction to run
    next,     \* the one after it
    shadow    \* the register the last instruction loaded, with its old value

isaVars == <<status, mem, gp, pc, next, shadow>>

Address == 0 .. MemSize - 1
NoShadow == [reg |-> 0, old |-> 0]
Blank == [r \in Reg |-> 0]
NoMemory == [a \in Address |-> 0]

IsaInit ==
    /\ status = [t \in Thread |-> IF t = Root THEN "running" ELSE "absent"]
    /\ \E image \in Images :
           mem = [t \in Thread |-> IF t = Root THEN image ELSE NoMemory]
    /\ gp = [t \in Thread |-> Blank]
    /\ pc = [t \in Thread |-> 0]
    /\ next = [t \in Thread |-> IF t = Root THEN 1 ELSE 0]
    /\ shadow = [t \in Thread |-> NoShadow]

\* The instruction reads the registers with the last load done, or before it.
View(t, late) == IF late THEN [gp[t] EXCEPT ![shadow[t].reg] = shadow[t].old] ELSE gp[t]

\* In the second case the load is done after the instruction.
After(t, late, written) ==
    LET reg == shadow[t].reg
    IN  [IF late THEN [written EXCEPT ![reg] = gp[t][reg]] ELSE written EXCEPT ![0] = 0]

Instruction(t) == Decode[mem[t][pc[t]]]

Advance(t, after) ==
    /\ pc' = [pc EXCEPT ![t] = next[t]]
    /\ next' = [next EXCEPT ![t] = after]

Calculate(t, late) ==
    LET i == Instruction(t)
        view == View(t, late)
        written == Written(i, view, next[t])
    IN  /\ i.op \in Arithmetic \cup Branches \cup Jumps
        /\ gp' = [gp EXCEPT ![t] = After(t, late, written)]
        /\ Advance(t, PcAfter(i, written, next[t]))
        /\ shadow' = [shadow EXCEPT ![t] = NoShadow]
        /\ UNCHANGED <<status, mem>>

Load(t, late) ==
    LET i == Instruction(t)
        a == Add(View(t, late)[i.rs], i.extra)
        before == After(t, late, View(t, late))
    IN  /\ i.op \in Loads /\ a \in Address
        /\ gp' = [gp EXCEPT ![t] = [before EXCEPT ![i.rt] = Loaded(i.op, mem[t][a], gp[t][i.rt]), ![0] = 0]]
        /\ shadow' = [shadow EXCEPT ![t] =
               IF i.rt = 0 THEN NoShadow ELSE [reg |-> i.rt, old |-> before[i.rt]]]
        /\ Advance(t, ToWord(next[t] + 1))
        /\ UNCHANGED <<status, mem>>

Store(t, late) ==
    LET i == Instruction(t)
        view == View(t, late)
        a == Add(view[i.rs], i.extra)
    IN  /\ i.op \in Stores /\ a \in Address
        /\ mem' = [mem EXCEPT ![t][a] = Stored(i.op, @, view[i.rt])]
        /\ gp' = [gp EXCEPT ![t] = After(t, late, view)]
        /\ shadow' = [shadow EXCEPT ![t] = NoShadow]
        /\ Advance(t, ToWord(next[t] + 1))
        /\ UNCHANGED status

Execute(t) ==
    /\ status[t] = "running" /\ pc[t] \in Address
    /\ \E late \in {FALSE} \cup {shadow[t].reg # 0} :
           Calculate(t, late) \/ Load(t, late) \/ Store(t, late)

AtSyscall(t) ==
    status[t] = "running" /\ pc[t] \in Address /\ Instruction(t).op = "SYSCALL"
    /\ shadow[t] = NoShadow

\* A system call ends: its result is in register 2 and nothing else changed.
SysReturn(t) ==
    /\ AtSyscall(t)
    /\ \E result \in Word : gp' = [gp EXCEPT ![t][2] = result]
    /\ Advance(t, ToWord(next[t] + 1))
    /\ UNCHANGED <<status, mem, shadow>>

\* During a Fork the child appears: a copy of the caller, behind the call, with
\* 0 for the result.
Spawn(t, u) ==
    /\ AtSyscall(t) /\ status[u] = "absent"
    /\ status' = [status EXCEPT ![u] = "running"]
    /\ mem' = [mem EXCEPT ![u] = mem[t]]
    /\ gp' = [gp EXCEPT ![u] = [gp[t] EXCEPT ![2] = 0]]
    /\ pc' = [pc EXCEPT ![u] = next[t]]
    /\ next' = [next EXCEPT ![u] = ToWord(next[t] + 1)]
    /\ UNCHANGED shadow

\* Exec: another program from its beginning.
Become(t) ==
    /\ AtSyscall(t)
    /\ \E image \in Executables : mem' = [mem EXCEPT ![t] = image]
    /\ gp' = [gp EXCEPT ![t] = Blank]
    /\ pc' = [pc EXCEPT ![t] = 0]
    /\ next' = [next EXCEPT ![t] = 1]
    /\ UNCHANGED <<status, shadow>>

\* The program has nothing to run, or what it would run is an error.
Wrong(t) ==
    \/ pc[t] \notin Address
    \/ LET i == Instruction(t)
       IN  \/ i.op \in {"RES", "UNIMP", "BREAK", "SYSCALL"}
           \/ \E late \in BOOLEAN :
                 LET view == View(t, late)
                 IN  \/ Overflows(i.op, view[i.rs],
                                  IF i.op = "ADDI" THEN i.extra ELSE view[i.rt])
                     \/ i.op \in Loads \cup Stores /\ Add(view[i.rs], i.extra) \notin Address

\* The thread is gone: it exits (a system call), does what is wrong, or the
\* debugger that holds it ends it.
Die(t) ==
    /\ \/ status[t] = "running" /\ Wrong(t)
       \/ status[t] = "held"
    /\ status' = [status EXCEPT ![t] = "dead"]
    /\ mem' = [mem EXCEPT ![t] = NoMemory]
    /\ gp' = [gp EXCEPT ![t] = Blank]
    /\ pc' = [pc EXCEPT ![t] = 0]
    /\ next' = [next EXCEPT ![t] = 0]
    /\ shadow' = [shadow EXCEPT ![t] = NoShadow]

\* The last load becomes final.
Settle(t) ==
    /\ shadow' = [shadow EXCEPT ![t] = NoShadow]
    /\ UNCHANGED <<status, mem, gp, pc, next>>

\* A debugger stops the thread, between two instructions, changes what it likes
\* while it is stopped, and lets it go.
Hold(t) ==
    /\ status[t] = "running"
    /\ status' = [status EXCEPT ![t] = "held"]
    /\ shadow' = [shadow EXCEPT ![t] = NoShadow]
    /\ UNCHANGED <<mem, gp, pc, next>>

Edit(t) ==
    /\ status[t] = "held"
    /\ \A u \in Thread \ {t} : mem'[u] = mem[u] /\ gp'[u] = gp[u] /\ pc'[u] = pc[u]
    /\ UNCHANGED <<status, next, shadow>>

Release(t) ==
    /\ status[t] = "held"
    /\ status' = [status EXCEPT ![t] = "running"]
    /\ \A u \in Thread \ {t} : pc'[u] = pc[u]
    /\ UNCHANGED <<mem, gp, next, shadow>>

IsaNext ==
    \E t \in Thread :
        \/ Execute(t) \/ SysReturn(t) \/ Become(t)
        \/ \E u \in Thread : Spawn(t, u)
        \/ Die(t) \/ Settle(t) \/ Hold(t) \/ Edit(t) \/ Release(t)

IsaSpec == IsaInit /\ [][IsaNext]_isaVars

=============================================================================
