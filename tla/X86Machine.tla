----------------------------- MODULE X86Machine -----------------------------
(***************************************************************************)
(* The processor, for the instructions that X86Moves and X86Code select:   *)
(* external to the repository, one instruction a step.                     *)
(***************************************************************************)
EXTENDS Integers, TypeLayout

CONSTANT Top        \* bytes of memory; the stack starts there

VARIABLES
    text,   \* the instructions of every function
    items,  \* the address of every data item
    reg,    \* the registers
    mem,    \* the bytes
    flags,  \* zf, and lt: the sign flag differs from the overflow flag
    at,     \* the next instruction: function, and index
    calls,  \* ghost: what every caller expects back
    status  \* "ready", "running", "over", "fault"

machine == <<text, items, reg, mem, flags, at, calls, status>>

Registers ==
    {"rax", "rcx", "rdx", "rbx", "rsp", "rbp", "rsi", "rdi",
     "r8", "r9", "r10", "r11", "r12", "r13", "r14", "r15"}

\* What a function has to leave as it was.
Preserved == {"rbx", "rbp", "rsi", "rdi", "r12"}

\* A byte as 64 bits that are all that byte, and back.
Everywhere(byte) == byte * 21845

Bytes(w) == [i \in 1 .. w \div 8 |-> i - 1]

Read(a, w) == FoldLeft(LAMBDA n, i : n + mem[a + i] * 4 ^ i, 0, Bytes(w))

Written(bytes, a, w, n) == FoldLeft(LAMBDA m, i : [m EXCEPT ![a + i] = (n \div 4 ^ i) % 4], bytes, Bytes(w))

Address(o) ==
    (reg[o.base] + o.disp + (IF o.index = "none" THEN 0 ELSE reg[o.index] * o.scale)) % Values(64)

\* The condition of an instruction that sets a byte.
Holds(cc) ==
    CASE cc = "e" -> flags.zf
      [] cc = "ne" -> ~flags.zf
      [] cc = "l" -> flags.lt
      [] cc = "ge" -> ~flags.lt
      [] cc = "le" -> flags.lt \/ flags.zf
      [] cc = "g" -> ~flags.lt /\ ~flags.zf

Operand(o, w) ==
    CASE o.k = "reg" -> reg[o.r] % Values(w)
      [] o.k = "mem" -> Read(Address(o), w)
      [] o.k = "imm" -> o.n % Values(w)
      [] o.k = "item" -> items[o.i + 1] + o.n
      [] o.k = "cc" -> IF Holds(o.cc) THEN 1 ELSE 0

\* A register after a write of w bits: 32 bits clear the upper half, fewer do not.
Merged(old, w, n) == IF w >= 32 THEN n ELSE (old \div Values(w)) * Values(w) + n

Current == text[at[1]][at[2]]

Reaches(o, w) == o.k = "mem" => Address(o) + w \div 8 <= Top

Inside(ins) == ins.op = "lea" \/ (Reaches(ins.dst, ins.w) /\ Reaches(ins.src, ins.from))

Step(ops) == status = "running" /\ Current.op \in ops /\ Inside(Current)

Goes == at' = <<at[1], at[2] + 1>>

Put(o, w, n) ==
    IF o.k = "reg" THEN reg' = [reg EXCEPT ![o.r] = Merged(@, w, n)] /\ UNCHANGED mem
    ELSE mem' = Written(mem, Address(o), w, n) /\ UNCHANGED reg

\* Every byte is garbage but the return address, on which the stack ends; a call
\* finds the stack aligned to 16.
Entry == Top - 72

Outside == 0

StartRegisters(garbage) == [r \in Registers |-> IF r = "rsp" THEN Entry ELSE Everywhere(garbage)]
StartMemory(garbage) == [a \in 0 .. Top - 1 |-> IF a \in Entry .. Entry + 7 THEN 0 ELSE garbage]

Moves ==
    /\ Step({"mov", "set"})
    /\ Put(Current.dst, Current.w, Operand(Current.src, Current.w))
    /\ Goes /\ UNCHANGED <<text, items, flags, calls, status>>

Extends ==
    /\ Step({"movzx", "movsx"})
    /\ LET n == Operand(Current.src, Current.from)
       IN Put(Current.dst, Current.w, IF Current.op = "movzx" THEN n ELSE Signed(n, Current.from) % Values(Current.w))
    /\ Goes /\ UNCHANGED <<text, items, flags, calls, status>>

Leas ==
    /\ Step({"lea"})
    /\ Put(Current.dst, 64, Address(Current.src))
    /\ Goes /\ UNCHANGED <<text, items, flags, calls, status>>

\* For the conjunction and disjunction of the bits of two numbers.
RECURSIVE Bitwise2(_, _, _)
Bitwise2(op, x, y) ==
    IF x = 0 /\ y = 0 THEN 0
    ELSE 2 * Bitwise2(op, x \div 2, y \div 2)
         + CASE op = "and" -> Min({x % 2, y % 2}) [] op = "or" -> Max({x % 2, y % 2}) [] op = "xor" -> (x + y) % 2

\* The number the result stands for; lt is whether that is negative.
Exact(op, x, y, w) ==
    CASE op = "add" -> Signed(x, w) + Signed(y, w)
      [] op \in {"sub", "cmp"} -> Signed(x, w) - Signed(y, w)
      [] op = "neg" -> -Signed(x, w)
      [] op \in {"and", "or", "xor"} -> Signed(Bitwise2(op, x, y), w)

Computes ==
    /\ Step({"add", "sub", "and", "or", "xor", "neg", "cmp"})
    /\ LET w == Current.w
           y == IF Current.op = "neg" THEN 0 ELSE Operand(Current.src, w)
           n == Exact(Current.op, Operand(Current.dst, w), y, w)
       IN /\ flags' = [zf |-> n % Values(w) = 0, lt |-> n < 0]
          /\ IF Current.op = "cmp" THEN UNCHANGED <<reg, mem>> ELSE Put(Current.dst, w, n % Values(w))
    /\ Goes /\ UNCHANGED <<text, items, calls, status>>

\* The low half of x * y: no code reads the upper one, or the flags.
Low(x, y) == (((x \div 256) * y % 256) * 256 + (x % 256) * y) % 65536

Multiplies ==
    /\ Step({"mul", "imul"})
    /\ LET w == Current.w
       IN Put([k |-> "reg", r |-> "rax"], w, Low(reg["rax"] % Values(w), Operand(Current.dst, w)) % Values(w))
    /\ Goes /\ UNCHANGED <<text, items, flags, calls, status>>

ExtendsRax ==
    /\ Step({"cqo"})
    /\ reg' = [reg EXCEPT !["rdx"] = IF Signed(reg["rax"], 64) < 0 THEN Values(64) - 1 ELSE 0]
    /\ Goes /\ UNCHANGED <<text, items, mem, flags, calls, status>>

\* rdx:rax at width w; of 8 bits, ax.  Of 64 bits, rdx is all sign or zero.
Dividend(op, w) ==
    LET low == reg["rax"] % Values(w)
        high == reg["rdx"] % Values(w)
    IN CASE w = 8 /\ op = "div" -> reg["rax"] % 16
         [] w = 8 /\ op = "idiv" -> Signed(reg["rax"] % 16, 16)
         [] w = 64 -> IF high = 0 THEN low ELSE low - Values(64)
         [] w \in {16, 32} /\ op = "div" -> high * Values(w) + low
         [] w \in {16, 32} /\ op = "idiv" -> Signed(high, w) * Values(w) + low

Divisor == IF Current.op = "idiv" THEN Signed(Operand(Current.dst, Current.w), Current.w) ELSE Operand(Current.dst, Current.w)

Quotient == Toward0(Dividend(Current.op, Current.w), Divisor)

\* The processor traps on a zero divisor, and a quotient that does not fit.
Divides(w) ==
    /\ Divisor # 0
    /\ IF Current.op = "idiv" THEN Quotient \in -(Values(w) \div 2) .. Values(w) \div 2 - 1 ELSE Quotient < Values(w)

Divide ==
    /\ Step({"div", "idiv"}) /\ Divides(Current.w)
    /\ LET w == Current.w
           q == Quotient % Values(w)
           r == (Dividend(Current.op, w) - Quotient * Divisor) % Values(w)
       IN reg' = IF w = 8 THEN [reg EXCEPT !["rax"] = Merged(@, 16, r * 4 + q)]
                 ELSE [reg EXCEPT !["rax"] = Merged(@, w, q), !["rdx"] = Merged(@, w, r)]
    /\ Goes /\ UNCHANGED <<text, items, mem, flags, calls, status>>

\* rep movs
Copies ==
    /\ Step({"movs"})
    /\ LET n == reg["rcx"] * (Current.w \div 8)
       IN /\ reg["rsi"] + n <= Top /\ reg["rdi"] + n <= Top
          /\ mem' = [a \in DOMAIN mem |-> IF a \in reg["rdi"] .. reg["rdi"] + n - 1 THEN mem[reg["rsi"] + a - reg["rdi"]] ELSE mem[a]]
          /\ reg' = [reg EXCEPT !["rcx"] = 0, !["rsi"] = @ + n, !["rdi"] = @ + n]
    /\ Goes /\ UNCHANGED <<text, items, flags, calls, status>>

Push(n) ==
    /\ reg' = [reg EXCEPT !["rsp"] = @ - 8]
    /\ mem' = Written(mem, reg["rsp"] - 8, 64, n)

Pushes ==
    /\ Step({"push"}) /\ reg["rsp"] >= 8
    /\ Push(Operand(Current.dst, 64))
    /\ Goes /\ UNCHANGED <<text, items, flags, calls, status>>

Pops ==
    /\ Step({"pop"}) /\ reg["rsp"] + 8 <= Top
    /\ reg' = [reg EXCEPT !["rsp"] = @ + 8, ![Current.dst.r] = Read(reg["rsp"], 64)]
    /\ Goes /\ UNCHANGED <<text, items, mem, flags, calls, status>>

\* A return address: of instruction i of function f.  Outside is that of main.
ReturnTo(f, i) == f * 256 + i

Expected(back) == [back |-> back, rsp |-> reg["rsp"] - 8, kept |-> [r \in Preserved |-> reg[r]]]

Calls ==
    /\ Step({"call"}) /\ reg["rsp"] >= 8
    /\ Push(ReturnTo(at[1], at[2] + 1))
    /\ at' = <<Current.dst.fn, 1>>
    /\ calls' = Append(calls, Expected(ReturnTo(at[1], at[2] + 1)))
    /\ UNCHANGED <<text, items, flags, status>>

IsInstruction(n) == n \div 256 \in DOMAIN text /\ n % 256 \in DOMAIN text[n \div 256]

Returns ==
    /\ Step({"ret"}) /\ reg["rsp"] + 8 <= Top
    /\ LET n == Read(reg["rsp"], 64)
       IN /\ status' = IF n = Outside THEN "over" ELSE IF IsInstruction(n) THEN "running" ELSE "fault"
          /\ at' = IF IsInstruction(n) THEN <<n \div 256, n % 256>> ELSE at
    /\ reg' = [reg EXCEPT !["rsp"] = @ + 8]
    /\ calls' = Front(calls)
    /\ UNCHANGED <<text, items, mem, flags>>

\* A jump over nothing.
Jumps == Step({"jmp"}) /\ Goes /\ UNCHANGED <<text, items, reg, mem, flags, calls, status>>

Traps ==
    /\ status = "running"
    /\ \/ ~Inside(Current)
       \/ Current.op \in {"div", "idiv"} /\ Inside(Current) /\ ~Divides(Current.w)
       \/ Current.op = "movs" /\ Max({reg["rsi"], reg["rdi"]}) + reg["rcx"] * (Current.w \div 8) > Top
    /\ status' = "fault"
    /\ UNCHANGED <<text, items, reg, mem, flags, at, calls>>

Executes ==
    \/ Moves \/ Extends \/ Leas \/ Computes \/ Multiplies \/ ExtendsRax \/ Divide \/ Copies
    \/ Pushes \/ Pops \/ Calls \/ Returns \/ Jumps \/ Traps
=============================================================================
