---------------------------- MODULE Instructions ----------------------------
(***************************************************************************)
(* What each MIPS instruction computes in the simulator (mipssim.cc), over *)
(* words of W bits.  A word is a number in 0 .. 2^W - 1, read as signed by *)
(* Signed; a byte is W/4 bits of it and a half word W/2.  Addresses count  *)
(* words, so the constant 4 of the program counters is 1 here, and every   *)
(* access is aligned, as the ASSERTs of LWL, LWR, SWL and SWR demand.      *)
(***************************************************************************)
EXTENDS Integers, Bitwise

CONSTANTS W

ASSUME WordAssumption == W \in Nat \ {0} /\ W % 4 = 0

Word == 0 .. 2^W - 1
Signed(w) == IF w >= 2^(W - 1) THEN w - 2^W ELSE w
ToWord(n) == n % 2^W

\* w & SIGN_BIT
Negative(w) == w >= 2^(W - 1)

R31 == 31
HiReg == 32
LoReg == 33

-----------------------------------------------------------------------------
(* Arithmetic *)

Add(a, b) == ToWord(a + b)
Subtract(a, b) == ToWord(a - b)

\* The tests of OP_ADD, OP_ADDI and OP_SUB for a result of the wrong sign.
Overflows(op, a, b) ==
    CASE op = "ADD"  -> ~Negative(a ^^ b) /\ Negative(a ^^ Add(a, b))
      [] op = "ADDI" -> ~Negative(a ^^ b) /\ Negative(b ^^ Add(a, b))
      [] op = "SUB"  -> Negative(a ^^ b) /\ Negative(a ^^ Subtract(a, b))
      [] OTHER       -> FALSE

\* Bug: the carry out of the low word is lost.
MultTurnNoCarry(a, i, p) ==
    LET set == (a \div 2^i) % 2 = 1
    IN  [lo |-> IF set THEN ToWord(p.lo + p.bLo) ELSE p.lo,
         hi |-> IF set THEN ToWord(p.hi + p.bHi) ELSE p.hi,
         bLo |-> ToWord(2 * p.bLo),
         bHi |-> ToWord(2 * p.bHi) + (IF Negative(p.bLo) THEN 1 ELSE 0)]

\* One turn of Mult's loop: add the shifted b if the next bit of a is set, with
\* the carry out of the low word.  The turns after the early exit add nothing.
MultTurn(a, i, p) ==
    LET set == (a \div 2^i) % 2 = 1
        lo == ToWord(p.lo + p.bLo)
        carry == IF lo < p.bLo THEN 1 ELSE 0
        hi == ToWord(p.hi + carry + p.bHi)
    IN  [lo |-> IF set THEN lo ELSE p.lo, hi |-> IF set THEN hi ELSE p.hi,
         bLo |-> ToWord(2 * p.bLo),
         bHi |-> ToWord(2 * p.bHi) + (IF Negative(p.bLo) THEN 1 ELSE 0)]

Mult(a, b, signedArith) ==
    LET Magnitude(w) == IF signedArith /\ Negative(w) THEN ToWord(-w) ELSE w
        negative == signedArith /\ Negative(a) # Negative(b)
        start == [lo |-> 0, hi |-> 0, bLo |-> Magnitude(b), bHi |-> 0]
        turns[i \in 0 .. W] ==
            IF i = 0 THEN start ELSE MultTurn(Magnitude(a), i - 1, turns[i - 1])
        p == turns[W]
        lo == ToWord(-p.lo)
    IN  IF a = 0 \/ b = 0 THEN [hi |-> 0, lo |-> 0]
        ELSE IF ~negative THEN [hi |-> p.hi, lo |-> p.lo]
        ELSE [hi |-> ToWord(2^W - 1 - p.hi + (IF lo = 0 THEN 1 ELSE 0)), lo |-> lo]

\* The division of C, which rounds towards zero.
Quotient(n, d) ==
    LET Abs(x) == IF x < 0 THEN -x ELSE x
        q == Abs(n) \div Abs(d)
    IN  IF (n < 0) = (d < 0) THEN q ELSE -q

Div(a, b, signedArith) ==
    LET n == IF signedArith THEN Signed(a) ELSE a
        d == IF signedArith THEN Signed(b) ELSE b
    IN  IF b = 0 THEN [hi |-> 0, lo |-> 0]
        ELSE [hi |-> ToWord(n - d * Quotient(n, d)), lo |-> ToWord(Quotient(n, d))]

\* The quotient does not fit: the host traps, which ends the simulator.
HostTraps(op, a, b) == op = "DIV" /\ Signed(a) = -(2^(W - 1)) /\ Signed(b) = -1

ShiftLeft(a, n) == ToWord(a * 2^n)

\* Both SRA and SRL shift an int: the sign is copied in.
ShiftRight(a, n) == ToWord(Signed(a) \div 2^n)

\* The low n bits of a word read from memory, with or without their sign.
Extend(w, n, signedLoad) ==
    LET low == w % 2^n
    IN  IF signedLoad /\ low >= 2^(n - 1) THEN ToWord(low - 2^n) ELSE low

-----------------------------------------------------------------------------
(* Operations *)

Overwrites == {"MULT", "MULTU", "DIV", "DIVU"}      \* Hi and Lo
ToRt == {"ADDI", "ADDIU", "ANDI", "LUI", "ORI", "SLTI", "SLTIU", "XORI"}
ToRd == {"ADD", "ADDU", "AND", "MFHI", "MFLO", "NOR", "OR", "SLL", "SLLV", "SLT",
         "SLTU", "SRA", "SRAV", "SRL", "SRLV", "SUB", "SUBU", "XOR"}
Branches == {"BEQ", "BNE", "BGEZ", "BGEZAL", "BGTZ", "BLEZ", "BLTZ", "BLTZAL"}
Jumps == {"J", "JAL", "JR", "JALR"}
Arithmetic == Overwrites \cup ToRt \cup ToRd \cup {"MTHI", "MTLO"}
Loads == {"LB", "LBU", "LH", "LHU", "LW", "LWL", "LWR"}
Stores == {"SB", "SH", "SW", "SWL", "SWR"}

\* The value an instruction of ToRt or ToRd computes from its two registers and
\* its extra field.
Compute(op, a, b, extra) ==
    LET low == extra % 2^(W \div 2)
    IN  CASE op \in {"ADD", "ADDU"}   -> Add(a, b)
          [] op \in {"ADDI", "ADDIU"} -> Add(a, extra)
          [] op \in {"SUB", "SUBU"}   -> Subtract(a, b)
          [] op = "AND"  -> a & b
          [] op = "ANDI" -> a & low
          [] op = "OR"   -> a | b
          [] op = "ORI"  -> a | low
          [] op = "XOR"  -> a ^^ b
          [] op = "XORI" -> a ^^ low
          [] op = "NOR"  -> 2^W - 1 - (a | b)
          [] op = "LUI"  -> ShiftLeft(extra, W \div 2)
          [] op = "SLL"  -> ShiftLeft(b, extra)
          [] op = "SLLV" -> ShiftLeft(b, a % W)
          [] op \in {"SRA", "SRL"}    -> ShiftRight(b, extra)
          [] op \in {"SRAV", "SRLV"}  -> ShiftRight(b, a % W)
          [] op = "SLT"   -> IF Signed(a) < Signed(b) THEN 1 ELSE 0
          [] op = "SLTI"  -> IF Signed(a) < Signed(extra) THEN 1 ELSE 0
          [] op = "SLTU"  -> IF a < b THEN 1 ELSE 0
          [] op = "SLTIU" -> IF a < extra THEN 1 ELSE 0

\* The registers after the instruction, before the delayed load: links first.
Written(i, gp, next) ==
    LET a == gp[i.rs]
        b == gp[i.rt]
        pair == IF i.op \in {"MULT", "MULTU"} THEN Mult(a, b, i.op = "MULT")
                                              ELSE Div(a, b, i.op = "DIV")
    IN  CASE i.op \in Overwrites -> [gp EXCEPT ![HiReg] = pair.hi, ![LoReg] = pair.lo]
          [] i.op = "MTHI" -> [gp EXCEPT ![HiReg] = a]
          [] i.op = "MTLO" -> [gp EXCEPT ![LoReg] = a]
          [] i.op = "MFHI" -> [gp EXCEPT ![i.rd] = gp[HiReg]]
          [] i.op = "MFLO" -> [gp EXCEPT ![i.rd] = gp[LoReg]]
          [] i.op \in ToRt -> [gp EXCEPT ![i.rt] = Compute(i.op, a, b, i.extra)]
          [] i.op \in ToRd \ {"MFHI", "MFLO"} ->
                 [gp EXCEPT ![i.rd] = Compute(i.op, a, b, i.extra)]
          [] i.op \in {"JAL", "BGEZAL", "BLTZAL"} -> [gp EXCEPT ![R31] = ToWord(next + 1)]
          [] i.op = "JALR" -> [gp EXCEPT ![i.rd] = ToWord(next + 1)]
          [] OTHER -> gp

Taken(i, gp) ==
    LET a == gp[i.rs]
    IN  CASE i.op = "BEQ"  -> a = gp[i.rt]
          [] i.op = "BNE"  -> a # gp[i.rt]
          [] i.op = "BGTZ" -> Signed(a) > 0
          [] i.op = "BLEZ" -> Signed(a) <= 0
          [] i.op \in {"BGEZ", "BGEZAL"} -> ~Negative(a)
          [] i.op \in {"BLTZ", "BLTZAL"} -> Negative(a)
          [] OTHER -> FALSE

\* pcAfter: where control goes after the delay slot, for the registers as Written
\* leaves them.
PcAfter(i, gp, next) ==
    CASE i.op \in {"J", "JAL"}   -> i.extra
      [] i.op \in {"JR", "JALR"} -> gp[i.rs]
      [] OTHER -> ToWord(next + (IF Taken(i, gp) THEN i.extra ELSE 1))

\* LWR on an aligned word: its first byte replaces the last of the register.
LastByte(old, w) == LET byte == 2^(W \div 4)
                    IN  old - (old % byte) + (w \div 2^(W - W \div 4))

\* What a load of the word w delivers to a register that holds old.
Loaded(op, w, old) ==
    CASE op \in {"LB", "LBU"} -> Extend(w, W \div 4, op = "LB")
      [] op \in {"LH", "LHU"} -> Extend(w, W \div 2, op = "LH")
      [] op = "LWR" -> LastByte(old, w)
      [] OTHER -> w

\* SWR on an aligned word: the last byte of the register replaces its first.
FirstByte(old, w) == LET rest == 2^(W - W \div 4)
                     IN  (old % rest) + (w % 2^(W \div 4)) * rest

\* What a store of w leaves in a word that was old.
Stored(op, old, w) ==
    LET Merge(n) == old - (old % 2^n) + (w % 2^n)
    IN  CASE op = "SB" -> Merge(W \div 4)
          [] op = "SH" -> Merge(W \div 2)
          [] op = "SWR" -> FirstByte(old, w)
          [] OTHER -> w

-----------------------------------------------------------------------------
(* The arithmetic against that of the integers *)

Fits(n) == n \in -(2^(W - 1)) .. 2^(W - 1) - 1

AdditionExact(a, b) ==
    /\ \A op \in {"ADD", "ADDI"} :
           /\ Overflows(op, a, b) <=> ~Fits(Signed(a) + Signed(b))
           /\ ~Overflows(op, a, b) =>
                  Signed(Compute(op, a, b, b)) = Signed(a) + Signed(b)
    /\ Overflows("SUB", a, b) <=> ~Fits(Signed(a) - Signed(b))
    /\ ~Overflows("SUB", a, b) => Signed(Compute("SUB", a, b, 0)) = Signed(a) - Signed(b)

ProductExact(a, b) ==
    LET Double(p) == p.hi * 2^W + p.lo
    IN  /\ Double(Mult(a, b, TRUE)) = (Signed(a) * Signed(b)) % 2^(2 * W)
        /\ Double(Mult(a, b, FALSE)) = a * b

\* The quotient and the remainder make up the dividend, and the remainder is
\* smaller than the divisor and has the dividend's sign.
DivisionExact(a, b) ==
    LET s == Div(a, b, TRUE)
        u == Div(a, b, FALSE)
        r == Signed(s.hi)
        d == Signed(b)
    IN  b # 0 =>
        /\ a = u.lo * b + u.hi /\ u.hi < b
        /\ ~HostTraps("DIV", a, b) =>
               /\ Signed(a) = Signed(s.lo) * d + r
               /\ r * r < d * d /\ r * Signed(a) >= 0

\* A load of part of a word keeps the value of that part, signed or not, and the
\* store of it back changes nothing else; SWR and LWR move the same byte.
PartsExact(a, b) ==
    LET Exact(load, loadU, store, n) ==
            LET signed == Signed(Loaded(load, a, 0))
                stored == Stored(store, a, b)
            IN  /\ Loaded(loadU, a, 0) = a % 2^n
                /\ (signed - a) % 2^n = 0 /\ signed \in -(2^(n - 1)) .. 2^(n - 1) - 1
                /\ stored \div 2^n = a \div 2^n
                /\ Loaded(loadU, stored, 0) = b % 2^n
        moved == Stored("SWR", a, b)
    IN  /\ Exact("LB", "LBU", "SB", W \div 4) /\ Exact("LH", "LHU", "SH", W \div 2)
        /\ Loaded("LWR", moved, b) = b
        /\ moved % 2^(W - W \div 4) = a % 2^(W - W \div 4)

ExactOn(a, b) ==
    AdditionExact(a, b) /\ ProductExact(a, b) /\ DivisionExact(a, b) /\ PartsExact(a, b)

=============================================================================
