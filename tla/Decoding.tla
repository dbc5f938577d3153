------------------------------ MODULE Decoding ------------------------------
(***************************************************************************)
(* Instruction::Decode (mipssim.cc) and its tables (mipssim.h), for words  *)
(* of 32 bits.  A word is a pair of its high and its low 16 bits, so that  *)
(* TLC's integers can hold it.                                             *)
(***************************************************************************)
EXTENDS Integers, Sequences

Times(n, op) == [i \in 1 .. n |-> op]

\* By bits 31:26.
opTable ==
    <<"SPECIAL", "BCOND", "J", "JAL", "BEQ", "BNE", "BLEZ", "BGTZ",
      "ADDI", "ADDIU", "SLTI", "SLTIU", "ANDI", "ORI", "XORI", "LUI">>
    \o Times(4, "UNIMP") \o Times(12, "RES")
    \o <<"LB", "LH", "LWL", "LW", "LBU", "LHU", "LWR", "RES",
         "SB", "SH", "SWL", "SW", "RES", "RES", "SWR", "RES">>
    \o Times(4, "UNIMP") \o Times(4, "RES") \o Times(4, "UNIMP") \o Times(4, "RES")

Format(major) == CASE major = 0 -> "RFMT" [] major \in {2, 3} -> "JFMT" [] OTHER -> "IFMT"

\* By bits 5:0 of a SPECIAL instruction, with REMOTE_USER_PROGRAM_DEBUGGING.
specialTable ==
    <<"SLL", "RES", "SRL", "SRA", "SLLV", "RES", "SRLV", "SRAV",
      "JR", "JALR", "RES", "RES", "SYSCALL", "BREAK", "RES", "RES",
      "MFHI", "MTHI", "MFLO", "MTLO">> \o Times(4, "RES")
    \o <<"MULT", "MULTU", "DIV", "DIVU">> \o Times(4, "RES")
    \o <<"ADD", "ADDU", "SUB", "SUBU", "AND", "OR", "XOR", "NOR",
         "RES", "RES", "SLT", "SLTU">> \o Times(20, "RES")

BranchOp(rt) ==
    CASE rt = 0 -> "BLTZ" [] rt = 1 -> "BGEZ" [] rt = 16 -> "BLTZAL" [] rt = 17 -> "BGEZAL"
      [] OTHER -> "UNIMP"

\* extra & 0x8000: the sign is copied into the upper half of an int.
Immediate(lo) == IF lo >= 2^15 THEN lo - 2^16 ELSE lo

DecodeWord(w) ==
    LET major == w.hi \div 2^10
        rt == w.hi % 2^5
        first == opTable[major + 1]
    IN  [op |-> CASE first = "SPECIAL" -> specialTable[(w.lo % 2^6) + 1]
                  [] first = "BCOND"   -> BranchOp(rt)
                  [] OTHER             -> first,
         rs |-> (w.hi \div 2^5) % 2^5,
         rt |-> rt,
         rd |-> w.lo \div 2^11,
         extra |-> CASE Format(major) = "IFMT" -> Immediate(w.lo)
                     [] Format(major) = "RFMT" -> (w.lo \div 2^6) % 2^5
                     [] Format(major) = "JFMT" -> (w.hi % 2^10) * 2^16 + w.lo]

-----------------------------------------------------------------------------
(* The encodings of the R4000 User's Manual that the tables refer to, from  *)
(* the instruction to the word.                                             *)

MajorOf ==
    [J |-> 2, JAL |-> 3, BEQ |-> 4, BNE |-> 5, BLEZ |-> 6, BGTZ |-> 7, ADDI |-> 8,
     ADDIU |-> 9, SLTI |-> 10, SLTIU |-> 11, ANDI |-> 12, ORI |-> 13, XORI |-> 14,
     LUI |-> 15, LB |-> 32, LH |-> 33, LWL |-> 34, LW |-> 35, LBU |-> 36, LHU |-> 37,
     LWR |-> 38, SB |-> 40, SH |-> 41, SWL |-> 42, SW |-> 43, SWR |-> 46]

FunctOf ==
    [SLL |-> 0, SRL |-> 2, SRA |-> 3, SLLV |-> 4, SRLV |-> 6, SRAV |-> 7, JR |-> 8,
     JALR |-> 9, SYSCALL |-> 12, BREAK |-> 13, MFHI |-> 16, MTHI |-> 17, MFLO |-> 18,
     MTLO |-> 19, MULT |-> 24, MULTU |-> 25, DIV |-> 26, DIVU |-> 27, ADD |-> 32,
     ADDU |-> 33, SUB |-> 34, SUBU |-> 35, AND |-> 36, OR |-> 37, XOR |-> 38,
     NOR |-> 39, SLT |-> 42, SLTU |-> 43]

BranchOf == [BLTZ |-> 0, BGEZ |-> 1, BLTZAL |-> 16, BGEZAL |-> 17]

Field == {0, 1, 15, 16, 31}
Sample(width) == {0, 1, 2^(width - 1) - 1, 2^(width - 1), 2^width - 1}

\* Every instruction of the manual is decoded to its operation and its operands, an
\* immediate operand as a signed number of 16 bits.
DecodesInstructions ==
    \A rs, rt, rd \in Field :
        /\ \A op \in DOMAIN FunctOf, shift \in Field :
               DecodeWord([hi |-> rs * 32 + rt, lo |-> rd * 2048 + shift * 64 + FunctOf[op]])
               = [op |-> op, rs |-> rs, rt |-> rt, rd |-> rd, extra |-> shift]
        /\ \A op \in DOMAIN MajorOf \ {"J", "JAL"}, n \in Sample(16) :
               LET i == DecodeWord([hi |-> MajorOf[op] * 1024 + rs * 32 + rt, lo |-> n])
               IN  /\ <<i.op, i.rs, i.rt>> = <<op, rs, rt>>
                   /\ i.extra \in -(2^15) .. 2^15 - 1 /\ (i.extra - n) % 2^16 = 0
        /\ \A op \in DOMAIN BranchOf, n \in Sample(16) :
               LET i == DecodeWord([hi |-> 1024 + rs * 32 + BranchOf[op], lo |-> n])
               IN  /\ <<i.op, i.rs>> = <<op, rs>>
                   /\ i.extra \in -(2^15) .. 2^15 - 1 /\ (i.extra - n) % 2^16 = 0
        /\ \A op \in {"J", "JAL"}, n \in Sample(26) :
               LET i == DecodeWord([hi |-> MajorOf[op] * 1024 + n \div 2^16, lo |-> n % 2^16])
               IN  <<i.op, i.extra>> = <<op, n>>

\* And no other word is taken for one of them.
DecodesNothingElse ==
    \A major, funct \in 0 .. 63, rt \in Field \cup {2, 17} :
        LET op == DecodeWord([hi |-> major * 1024 + rt, lo |-> funct]).op
        IN  CASE op \in DOMAIN FunctOf  -> major = 0 /\ funct = FunctOf[op]
              [] op \in DOMAIN BranchOf -> major = 1 /\ rt = BranchOf[op]
              [] op \in DOMAIN MajorOf  -> major = MajorOf[op]
              [] OTHER -> op \in {"RES", "UNIMP"}

=============================================================================
