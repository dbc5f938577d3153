---------------------------- MODULE MCProcessor -----------------------------
EXTENDS Processor

I(op, rs, rt, rd, extra) == [op |-> op, rs |-> rs, rt |-> rt, rd |-> rd, extra |-> extra]

MCReg == {0, 1, 2, 31}

\* One instruction of each kind, in the encodings 0 to 9.
MCDecode ==
    [w \in Word |->
        CASE w = 0 -> I("ADDI", 1, 1, 0, 5)       \* overflows after a while
          [] w = 1 -> I("LW", 1, 1, 0, 0)
          [] w = 2 -> I("SW", 0, 1, 0, 2)
          [] w = 3 -> I("BNE", 1, 0, 0, 15)
          [] w = 4 -> I("JALR", 1, 0, 1, 0)
          [] w = 5 -> I("SYSCALL", 0, 0, 0, 0)
          [] w = 6 -> I("BREAK", 0, 0, 0, 0)
          [] w = 7 -> I("ADDU", 1, 1, 2, 0)
          [] w = 8 -> I("LWR", 1, 1, 0, 0)
          [] w = 9 -> I("SWR", 0, 1, 0, 1)
          [] OTHER -> I("RES", 0, 0, 0, 0)]

MCCall == [w \in Word |->
    CASE w = 0 -> "Fork" [] w = 1 -> "Exec" [] w = 2 -> "Exit" [] OTHER -> "Yield"]

MCImages == {[a \in 0 .. 2 |-> p[a + 1]] : p \in
    {<<1, 7, 5>>, <<1, 4, 5>>, <<0, 3, 10>>, <<2, 6, 5>>, <<1, 5, 10>>,
     <<5, 5, 10>>, <<1, 8, 9>>}}

MCExecutables == {[a \in 0 .. 2 |-> IF a = 0 THEN 0 ELSE 10]}

MCRanges == {Breakpoint(2, 1, "SoftwareBp"), Breakpoint(0, 2, "SoftwareBp"),
             Breakpoint(1, 1, "HardwareBp")}

MCTableRanges ==
    {b \in {Breakpoint(address, length, type) :
               address \in 0 .. 4, length \in 1 .. 2, type \in {"ReadWp", "AccessWp"}} :
        b.end <= 4}

=============================================================================
