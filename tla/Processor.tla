----------------------------- MODULE Processor ------------------------------
(***************************************************************************)
(* The simulated MIPS processor running the user programs (mipssim.cc,     *)
(* machine.cc), its exceptions and the system calls that touch registers,  *)
(* context switches, and the stub of the remote debugger (nachos-stub.cc). *)
(*                                                                         *)
(* There is one set of registers.  A thread that is switched out has its   *)
(* own in userRegisters, and is somewhere in the loop of Machine::Run:     *)
(*   "loop"    at the top of the loop                                      *)
(*   "exec"    about to call OneInstruction                                *)
(*   "fault"   in the handler of a page fault                              *)
(*   "call"    in the handler of a system call                             *)
(*   "return"  there too, with only the result to deliver                  *)
(*   "tick"    in OneTick, after OneInstruction                            *)
(*   "stopped" in the debugger stub                                        *)
(* or "none" before it exists, "forked" before it first runs, and "dead".  *)
(* Interrupts, and so context switches, happen in OneTick and in handlers. *)
(***************************************************************************)
EXTENDS Instructions, Decoding, Breakpoints, TLC

CONSTANTS
    Thread, Root, Reg, MemSize, Decode, Images, Executables,   \* as in Isa
    Call,          \* the system call that a word in register 2 selects
    Results,       \* what system calls return
    Ranges,        \* the breakpoints the debugger sets
    Edits,         \* the words it writes
    MaxCommands,   \* bound: how often it changes something
    TableRanges,   \* the ranges that its table is tried with, set and accessed
    MaxTableCommands   \* bound: commands in such a trial

ASSUME ProgramAssumption ==
    /\ Root \in Thread /\ {0, 2} \subseteq Reg
    /\ MemSize \in 1 .. 2^W
    /\ Decode \in [Word -> [op : STRING, rs : Reg, rt : Reg, rd : Reg, extra : Word]]
    /\ Images \cup Executables \subseteq [0 .. MemSize - 1 -> Word]
    /\ DOMAIN Call = Word /\ Results \cup Edits \subseteq Word
    /\ MaxCommands \in Nat /\ MaxTableCommands \in Nat

VARIABLES
    mem,             \* the memory of each process
    registers,       \* of the machine
    userRegisters,   \* of each thread, while it is switched out
    at,              \* where each thread is
    trapFlag,        \* the local variable of Run, of each thread
    currentThread,
    singleStep,
    breakpoints,     \* the table
    stub,            \* the debugger's registers, and where control returns to
    attached,        \* whether there is a remoteDebugger
    commands,        \* changes the debugger has made
    inserted,        \* history: the breakpoints set and not removed
    separate,        \* history: none was set that overlaps another one
    stepping         \* history: instructions that the last step command has left

vars == <<mem, registers, userRegisters, at, trapFlag, currentThread, singleStep,
          breakpoints, stub, attached, commands, inserted, separate, stepping>>
debugVars == <<singleStep, breakpoints, stub, attached, commands, inserted, separate>>

Address == 0 .. MemSize - 1
Blank == [r \in Reg |-> 0]
NoMemory == [a \in Address |-> 0]
NoRegisters == [gp |-> Blank, pc |-> 0, next |-> 0, load |-> 0, value |-> 0]
NoStub == [gp |-> Blank, pc |-> 0, ret |-> "none"]
NotStepping == [thread |-> "none", left |-> 0, atBreakpoint |-> FALSE]

\* AddrSpace::InitRegisters
InitRegisters == [NoRegisters EXCEPT !.next = 1]

\* If there is a debugger to wait for, it starts by stepping (Initialize).
GDBRemoteDebugger == attached \in BOOLEAN /\ singleStep = attached

Init ==
    /\ \E image \in Images :
           mem = [t \in Thread |-> IF t = Root THEN image ELSE NoMemory]
    /\ registers = InitRegisters
    /\ userRegisters = [t \in Thread |-> NoRegisters]
    /\ at = [t \in Thread |-> IF t = Root THEN "loop" ELSE "none"]
    /\ trapFlag = [t \in Thread |-> FALSE]
    /\ currentThread = Root
    /\ GDBRemoteDebugger
    /\ breakpoints = <<>>
    /\ stub = NoStub
    /\ commands = 0
    /\ inserted = {}
    /\ separate = TRUE
    /\ stepping = NotStepping

-----------------------------------------------------------------------------
(* Registers *)

\* The load that is pending is done, and another one takes its place.
DelayedLoad(r, nextReg, nextValue) ==
    [r EXCEPT !.gp = [@ EXCEPT ![r.load] = r.value, ![0] = 0],
              !.load = nextReg, !.value = nextValue]

AdvancePCs(r, pcAfter) == [r EXCEPT !.pc = r.next, !.next = pcAfter]

\* Bug: the load that is pending is cancelled.
FlushCancels(r) == [r EXCEPT !.load = 0, !.value = 0]

\* What RaiseException and HandleIfDue do before they call a handler.
Flush(r) == DelayedLoad(r, 0, 0)

\* The child of a Fork, when it first runs.
Fix_Fork_Registers(r) ==
    [AdvancePCs(Flush(r), ToWord(r.next + 1)) EXCEPT !.gp[2] = 0]

\* The registers that thread t continues with.
RestoreUserState(t) ==
    IF at[t] = "forked" THEN Fix_Fork_Registers(userRegisters[t]) ELSE userRegisters[t]

Current(t, where) == t = currentThread /\ at[t] = where

Instruction == Decode[mem[currentThread][registers.pc]]

\* The instruction is done; the loop of Run goes on with OneTick.
Retire(t, r) ==
    /\ registers' = r
    /\ at' = [at EXCEPT ![t] = "tick"]
    /\ stepping' = IF stepping.thread = t THEN [stepping EXCEPT !.left = @ - 1] ELSE stepping

-----------------------------------------------------------------------------
(* Context switches *)

Ready(t) == t # currentThread /\ at[t] \in {"forked", "tick", "fault", "call", "return"}

\* Scheduler::Run saves the registers of the one and restores those of the other; a
\* child that runs for the first time goes through Do_Fork to the top of Run.
SwitchTo(u, place) ==
    /\ currentThread' = u
    /\ registers' = RestoreUserState(u)
    /\ at' = [place EXCEPT ![u] = IF @ = "forked" THEN "loop" ELSE @]

\* A handler has asked for a switch in OneTick, or the thread gives up the processor
\* in a handler: there is no load pending.
Switch(t, u) ==
    /\ t = currentThread /\ at[t] \in {"tick", "fault", "call", "return"}
    /\ Ready(u)
    /\ SwitchTo(u, at)
    /\ userRegisters' = [userRegisters EXCEPT ![t] = Flush(registers), ![u] = NoRegisters]
    /\ UNCHANGED <<mem, trapFlag, debugVars, stepping>>

\* An interrupt in OneTick whose handler asks for no switch.
Interrupt(t) ==
    /\ Current(t, "tick")
    /\ registers' = Flush(registers)
    /\ UNCHANGED <<mem, userRegisters, at, trapFlag, currentThread, debugVars, stepping>>

\* Thread::Finish: the address space goes, and another thread runs if there is one.
Finish(t) ==
    /\ mem' = [mem EXCEPT ![t] = NoMemory]
    /\ IF \E u \in Thread : Ready(u)
       THEN \E u \in Thread :
               /\ Ready(u)
               /\ SwitchTo(u, [at EXCEPT ![t] = "dead"])
               /\ userRegisters' = [userRegisters EXCEPT ![u] = NoRegisters]
       ELSE /\ at' = [at EXCEPT ![t] = "dead"]
            /\ UNCHANGED <<registers, userRegisters, currentThread>>

-----------------------------------------------------------------------------
(* Exceptions *)

SaveRegisters(r, ret) == [gp |-> r.gp, pc |-> r.pc, ret |-> ret]

\* The stub reports the exception to the debugger and waits for its commands.  When
\* it is done, control goes on at ret.
HandleException(t, r, ret) ==
    /\ registers' = r
    /\ at' = [at EXCEPT ![t] = "stopped"]
    /\ stub' = SaveRegisters(r, ret)
    /\ stepping' = NotStepping
    /\ UNCHANGED <<mem, userRegisters, currentThread>>

\* RaiseException of anything but a page fault or a system call: the debugger's stub
\* has it, or else the process ends.
Unexpected(t, ret) ==
    \/ attached /\ HandleException(t, Flush(registers), ret)
    \/ ~attached /\ Finish(t) /\ UNCHANGED <<stub, stepping>>

\* The top of the loop: a breakpoint at the instruction stops it.
LoopTop(t) ==
    /\ Current(t, "loop")
    /\ trapFlag' = [trapFlag EXCEPT ![t] = singleStep]
    /\ IF queryBreakpoint(breakpoints, registers.pc, 1, "SoftwareBp")
       THEN Unexpected(t, "exec")
       ELSE /\ at' = [at EXCEPT ![t] = "exec"]
            /\ UNCHANGED <<mem, registers, userRegisters, currentThread, stub, stepping>>
    /\ UNCHANGED <<singleStep, breakpoints, attached, commands, inserted, separate>>

\* The end of the loop: a step stops there.
LoopEnd(t) ==
    /\ Current(t, "tick")
    /\ IF singleStep /\ trapFlag[t]
       THEN Unexpected(t, "loop")
       ELSE /\ at' = [at EXCEPT ![t] = "loop"]
            /\ UNCHANGED <<mem, registers, userRegisters, currentThread, stub, stepping>>
    /\ UNCHANGED <<trapFlag, singleStep, breakpoints, attached, commands, inserted, separate>>

\* ReadMem or WriteMem, for the instruction or for its data, meets a page that is not
\* in memory.  Which pages are is left open: any access may fault, and fault again.
PageFault(t) ==
    /\ Current(t, "exec") /\ registers.pc \in Address
    /\ registers' = Flush(registers)
    /\ at' = [at EXCEPT ![t] = "fault"]
    /\ UNCHANGED <<mem, userRegisters, trapFlag, currentThread, debugVars, stepping>>

\* pagein is done: OneInstruction returns without having executed anything.
PageFaultDone(t) ==
    /\ Current(t, "fault")
    /\ at' = [at EXCEPT ![t] = "tick"]
    /\ UNCHANGED <<mem, registers, userRegisters, trapFlag, currentThread, debugVars, stepping>>

-----------------------------------------------------------------------------
(* OneInstruction *)

DataAddress(i) == Add(registers.gp[i.rs], i.extra)

\* The exceptions an instruction raises instead of being executed.
Faulty(i) ==
    \/ i.op \in {"RES", "UNIMP"}
    \/ Overflows(i.op, registers.gp[i.rs], IF i.op = "ADDI" THEN i.extra ELSE registers.gp[i.rt])
    \/ i.op \in Loads \cup Stores /\ DataAddress(i) \notin Address

Raise(t) ==
    /\ Current(t, "exec")
    /\ registers.pc \in Address => Faulty(Instruction)
    /\ Unexpected(t, "tick")
    /\ UNCHANGED <<trapFlag, singleStep, breakpoints, attached, commands, inserted, separate>>

\* A BREAK in the program: the stub runs, and then the program counters are set
\* back, so that the instruction is executed again.
BreakInstruction(t) ==
    /\ Current(t, "exec") /\ registers.pc \in Address /\ Instruction.op = "BREAK"
    /\ Unexpected(t, "tick")
    /\ UNCHANGED <<trapFlag, singleStep, breakpoints, attached, commands, inserted, separate>>

Runs(t, ops) ==
    Current(t, "exec") /\ registers.pc \in Address /\ Instruction.op \in ops
    /\ ~Faulty(Instruction)

\* The rest of the instructions end with the delayed load and the program counters.
Calculate(t) ==
    LET i == Instruction
        written == Written(i, registers.gp, registers.next)
        after == PcAfter(i, written, registers.next)
    IN  /\ Runs(t, Arithmetic \cup Branches \cup Jumps)
        /\ ~HostTraps(i.op, registers.gp[i.rs], registers.gp[i.rt])
        /\ Retire(t, AdvancePCs(DelayedLoad([registers EXCEPT !.gp = written], 0, 0), after))
        /\ UNCHANGED <<mem, userRegisters, trapFlag, currentThread, debugVars>>

LoadInstruction(t) ==
    LET i == Instruction
        old == IF registers.load = i.rt THEN registers.value ELSE registers.gp[i.rt]
        value == Loaded(i.op, mem[t][DataAddress(i)], old)
    IN  /\ Runs(t, Loads)
        /\ Retire(t, AdvancePCs(DelayedLoad(registers, i.rt, value),
                                ToWord(registers.next + 1)))
        /\ UNCHANGED <<mem, userRegisters, trapFlag, currentThread, debugVars>>

StoreInstruction(t) ==
    LET i == Instruction
    IN  /\ Runs(t, Stores)
        /\ mem' = [mem EXCEPT ![t][DataAddress(i)] = Stored(i.op, @, registers.gp[i.rt])]
        /\ Retire(t, AdvancePCs(Flush(registers), ToWord(registers.next + 1)))
        /\ UNCHANGED <<userRegisters, trapFlag, currentThread, debugVars>>

-----------------------------------------------------------------------------
(* System calls *)

SystemCall(t) ==
    /\ Runs(t, {"SYSCALL"})
    /\ registers' = Flush(registers)
    /\ at' = [at EXCEPT ![t] = "call"]
    /\ UNCHANGED <<mem, userRegisters, trapFlag, currentThread, debugVars, stepping>>

InCall(t, call) == Current(t, "call") /\ Call[registers.gp[2]] = call

\* The child has a copy of the address space and of the registers, which still have
\* the program counters at the call.
System_Fork(t, u) ==
    /\ InCall(t, "Fork") /\ at[u] = "none"
    /\ mem' = [mem EXCEPT ![u] = mem[t]]
    /\ userRegisters' = [userRegisters EXCEPT ![u] = registers]
    /\ at' = [at EXCEPT ![t] = "return", ![u] = "forked"]
    /\ UNCHANGED <<registers, trapFlag, currentThread, debugVars, stepping>>

\* A new image, and Machine::Run from within the call, which never returns: a step
\* over Exec ends after the first instruction of the new program.
System_Exec(t) ==
    /\ InCall(t, "Exec")
    /\ \E image \in Executables : mem' = [mem EXCEPT ![t] = image]
    /\ registers' = InitRegisters
    /\ at' = [at EXCEPT ![t] = "loop"]
    /\ UNCHANGED <<userRegisters, trapFlag, currentThread, debugVars, stepping>>

System_Exit(t) ==
    /\ InCall(t, "Exit")
    /\ Finish(t)
    /\ UNCHANGED <<trapFlag, debugVars, stepping>>

\* The other calls, and a Fork or Exec that fails: there is only the result.
OtherCall(t) ==
    /\ Current(t, "call") /\ Call[registers.gp[2]] # "Exit"
    /\ at' = [at EXCEPT ![t] = "return"]
    /\ UNCHANGED <<mem, registers, userRegisters, trapFlag, currentThread, debugVars, stepping>>

\* do_system_call writes register 2, and OneInstruction advances the program counters.
\* Of the calls without a result, the value is whatever returnvalue held.
SystemCallReturn(t) ==
    /\ Current(t, "return")
    /\ \E result \in Results :
           Retire(t, AdvancePCs(Flush([registers EXCEPT !.gp[2] = result]),
                                ToWord(registers.next + 1)))
    /\ UNCHANGED <<mem, userRegisters, trapFlag, currentThread, debugVars>>

-----------------------------------------------------------------------------
(* The debugger: the commands of Handshake.  A packet with a wrong checksum *)
(* is asked for again, and a reply sent again until it is acknowledged, so  *)
(* each command is one step.  Commands that only read are left out.         *)

Command(t) == Current(t, "stopped") /\ commands < MaxCommands /\ commands' = commands + 1

SetBreakpoint(t, b) ==                                              \* Z
    /\ Command(t)
    /\ breakpoints' = addBreakpoint(breakpoints, b)
    /\ inserted' = inserted \cup {b}
    /\ separate' = (separate /\ \A c \in inserted : ~Overlap(b, c))
    /\ UNCHANGED <<mem, registers, userRegisters, at, trapFlag, currentThread,
                   singleStep, stub, attached, stepping>>

ClearBreakpoint(t, b) ==                                            \* z
    /\ Command(t) /\ b \in inserted
    /\ breakpoints' = removeBreakpoint(breakpoints, b)
    /\ inserted' = inserted \ {b}
    /\ UNCHANGED <<mem, registers, userRegisters, at, trapFlag, currentThread,
                   singleStep, stub, attached, separate, stepping>>

\* G writes the stub's registers, the program counter among them; P one of the
\* machine's; M memory.
WriteRegisters(t) ==                                                \* G
    /\ Command(t)
    /\ \E v \in Edits : stub' \in {[stub EXCEPT !.gp[1] = v], [stub EXCEPT !.pc = v]}
    /\ UNCHANGED <<mem, registers, userRegisters, at, trapFlag, currentThread,
                   singleStep, breakpoints, attached, inserted, separate, stepping>>

WriteRegister(t) ==                                                 \* P
    /\ Command(t)
    /\ \E v \in Edits : registers' = [registers EXCEPT !.gp[1] = v]
    /\ UNCHANGED <<mem, userRegisters, at, trapFlag, currentThread, singleStep,
                   breakpoints, stub, attached, inserted, separate, stepping>>

WriteMemory(t) ==                                                   \* M
    /\ Command(t)
    /\ \E a \in Address, v \in Edits : mem' = [mem EXCEPT ![t][a] = v]
    /\ UNCHANGED <<registers, userRegisters, at, trapFlag, currentThread, singleStep,
                   breakpoints, stub, attached, inserted, separate, stepping>>

\* ReturnFromException.  An address in the command is one written with G first.
RestoreRegisters == [registers EXCEPT !.gp = stub.gp, !.pc = stub.pc]

Resume(t, step) ==
    /\ registers' = RestoreRegisters
    /\ at' = [at EXCEPT ![t] = stub.ret]
    /\ stub' = NoStub
    /\ singleStep' = step
    /\ UNCHANGED <<mem, userRegisters, trapFlag, currentThread, breakpoints, commands,
                   inserted, separate>>

Continue(t) ==                                                      \* c
    /\ Current(t, "stopped")
    /\ Resume(t, FALSE)
    /\ stepping' = NotStepping
    /\ UNCHANGED attached

\* At a breakpoint, trapFlag has been read already.
StepOne(t) ==                                                       \* s
    /\ Current(t, "stopped")
    /\ Resume(t, TRUE)
    /\ stepping' = [thread |-> t, left |-> 1,
                    atBreakpoint |-> stub.ret = "exec" /\ ~trapFlag[t]]
    /\ UNCHANGED attached

\* C and S: the stub raises the exception that the signal stands for, which none
\* handles but the stub itself, and is back at once with the registers restored.
ComputeException(t, step) ==
    /\ Current(t, "stopped")
    /\ HandleException(t, Flush(RestoreRegisters), stub.ret)
    /\ singleStep' = step
    /\ UNCHANGED <<trapFlag, breakpoints, attached, commands, inserted, separate>>

ContinueWithSignal(t) == ComputeException(t, FALSE)
StepWithSignal(t) == ComputeException(t, TRUE)

\* The debugger takes its breakpoints out before it detaches.
Detach(t) ==                                                        \* D
    /\ Current(t, "stopped") /\ inserted = {}
    /\ Resume(t, FALSE)
    /\ attached' = FALSE
    /\ stepping' = NotStepping

Kill(t) ==                                                          \* k
    /\ Current(t, "stopped")
    /\ Finish(t)
    /\ stub' = NoStub
    /\ UNCHANGED <<trapFlag, singleStep, breakpoints, attached, commands, inserted, separate,
                   stepping>>

-----------------------------------------------------------------------------

OneInstruction(t) ==
    \/ PageFault(t) \/ Raise(t) \/ BreakInstruction(t)
    \/ Calculate(t) \/ LoadInstruction(t) \/ StoreInstruction(t) \/ SystemCall(t)

Handler(t) ==
    \/ Interrupt(t) \/ PageFaultDone(t) \/ System_Exec(t) \/ System_Exit(t) \/ OtherCall(t)
    \/ SystemCallReturn(t)
    \/ \E u \in Thread : System_Fork(t, u) \/ Switch(t, u)

Handshake(t) ==
    \/ \E b \in Ranges : SetBreakpoint(t, b) \/ ClearBreakpoint(t, b)
    \/ WriteRegisters(t) \/ WriteRegister(t) \/ WriteMemory(t)
    \/ Continue(t) \/ StepOne(t) \/ ContinueWithSignal(t) \/ StepWithSignal(t)
    \/ Detach(t) \/ Kill(t)

Next ==
    \E t \in Thread :
        LoopTop(t) \/ OneInstruction(t) \/ LoopEnd(t) \/ Handler(t) \/ Handshake(t)

Spec == Init /\ [][Next]_vars

-----------------------------------------------------------------------------
(* Properties *)

\* Words of 32 bits are decoded to the instructions of the manual with their operands,
\* the immediate ones with their sign, and no other word passes for an instruction
\* (memory holds small words here, and Decode stands for any part of this).  And the
\* instructions compute what integer arithmetic says, for every pair of words: ADD,
\* ADDI and SUB trap exactly when the result does not fit and are right when it does,
\* the loop of Mult yields the double word product, signed and unsigned, with the most
\* negative word too, and divisions and partial loads and stores are exact.  This and
\* the next depend on no state: they are evaluated in the initial ones.
InstructionsExact ==
    Init => /\ DecodesInstructions /\ DecodesNothingElse
            /\ \A a, b \in Word : ExactOn(a, b)

\* After any sequence of Z and z, as long as no range is set that overlaps another
\* one, ReadMem, WriteMem and Run find in the table what is in the set of breakpoints:
\* the bisection ends at the right place however the table came about, so that no
\* insertion breaks its order, a removal takes out its own range and no other, and an
\* access of several bytes finds the breakpoints beyond the first one that are of a
\* type to stop it.
QueriesAreExact ==
    Init => \A t \in TablesAfter(TableRanges, MaxTableCommands) :
                AnswersExactly(t, TableRanges)

\* The registers of a thread as the program will find them.
RegistersOf(t) ==
    IF t # currentThread THEN RestoreUserState(t)
    ELSE IF at[t] = "stopped" THEN RestoreRegisters
    ELSE IF at[t] = "dead" THEN NoRegisters
    ELSE registers

\* A pending load counts as done, and its register's old value as the shadow.
Isa == INSTANCE Isa WITH
    status <- [t \in Thread |->
        CASE at[t] = "none" -> "absent" [] at[t] = "dead" -> "dead"
          [] at[t] = "stopped" -> "held" [] OTHER -> "running"],
    gp <- [t \in Thread |-> DelayedLoad(RegistersOf(t), 0, 0).gp],
    pc <- [t \in Thread |-> RegistersOf(t).pc],
    next <- [t \in Thread |-> RegistersOf(t).next],
    shadow <- [t \in Thread |->
        LET r == RegistersOf(t)
        IN  [reg |-> r.load, old |-> IF r.load = 0 THEN 0 ELSE r.gp[r.load]]]

\* Page faults at any access with the instruction restarted, a load pending at that
\* time, preemption in OneTick and in handlers, Fork with the child fixed up when it
\* first runs, and stops in the debugger are invisible to a program: each thread runs
\* as on a processor of its own that has none of them.
RunsAsIsa == Isa!IsaSpec

\* The debugger has control when it asked for it.  As long as it has set no range
\* that overlaps another one, the loop goes past its top to an instruction without a
\* stop exactly when none of the breakpoints set, and not cleared since, covers it.
\* And a step goes over no more than one instruction (over none, if that faults), as
\* machine.h:201-202 says of singleStep: "drop back into the debugger after each
\* simulated instruction".  For a step from a breakpoint this is false, and nothing is
\* claimed: Run has read singleStep before the stub sets it, and the end of the loop
\* asks for both, so that such a step goes over two.
StopsWhenAsked ==
    [][\A t \in Thread :
          /\ separate /\ Current(t, "loop") =>
                 (at'[t] = "exec" <=> ~\E b \in inserted : Covers(b, registers.pc))
          /\ ~stepping'.atBreakpoint => stepping'.left >= 0]_vars

=============================================================================
