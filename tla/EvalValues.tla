----------------------------- MODULE EvalValues -----------------------------
(***************************************************************************)
(* The evaluator of constants (src/eval.c) on the ops of IrValues: numbers *)
(* without branches, calls or variables.  IrEval has the control flow.     *)
(*                                                                         *)
(* A register holds 64 bits, whatever the type of its value.               *)
(***************************************************************************)
EXTENDS IrValues

As64(n) == n % Values(64)
Ones == Values(64) - 1

\* The registers; whether an assertion, a todo or a trap ended the compiler; and
\* whether a register was read before it was set.
NewRun(regs) == [regs |-> regs, stop |-> FALSE, unset |-> FALSE]

Stopped(s) == [s EXCEPT !.stop = TRUE]
SetRegister(s, v, n) == [s EXCEPT !.regs[v.n + 1] = As64(n)]

\* ll_eval_get_value
Get(s, g, v) ==
    CASE v.t = "imm" -> v.n
      [] v.t = "lit" -> g.literals[v.n + 1]
      [] v.t = "reg" -> s.regs[v.n + 1]

Number(n, ty) == IF ty.k \in {"int", "anyint"} THEN Signed(n, 64) ELSE n

\* No quotient: by zero, or of the least number by -1, which does not fit 64 bits.
NoQuotient(m, n) == n = 0 \/ (m = -(Values(64) \div 2) /\ n = -1)

\* ADD to MOD.  What is no number is a todo, as is the remainder of a number that has
\* no type of its own; where there is no quotient the division is a trap.
EvalSum(s, op, dst, ty, x, y) ==
    LET m == Number(x, ty)
        n == Number(y, ty)
    IN CASE ty.k \notin {"int", "uint", "char", "anyint"} \/ (op = "MOD" /\ ty.k = "anyint") -> Stopped(s)
         [] op \in {"DIV", "MOD"} /\ NoQuotient(m, n) -> Stopped(s)
         [] op = "ADD" -> SetRegister(s, dst, m + n)
         [] op = "SUB" -> SetRegister(s, dst, m - n)
         [] op = "MUL" -> SetRegister(s, dst, m * n)
         [] op = "DIV" /\ ~NoQuotient(m, n) -> SetRegister(s, dst, Toward0(m, n))
         [] op = "MOD" /\ ~NoQuotient(m, n) /\ ty.k # "anyint" -> SetRegister(s, dst, m - n * Toward0(m, n))

\* A comparison looks at the type of its result, a boolean: it takes the numbers as
\* unsigned.  It reads the registers with the numbers of its operands, whatever
\* kind these are.
EvalCompare(s, op, dst, l, r) ==
    LET x == s.regs[l.n + 1]
        y == s.regs[r.n + 1]
        holds == CASE op = "EQ" -> x = y [] op = "NEQ" -> x # y [] op = "LT" -> x < y
                   [] op = "LTE" -> x <= y [] op = "GT" -> x > y [] op = "GTE" -> x >= y
    IN IF l.n >= dst.n \/ r.n >= dst.n THEN [s EXCEPT !.unset = TRUE]
       ELSE SetRegister(s, dst, IF holds THEN 1 ELSE 0)

\* The truth of a number has all bits set.
EvalTest(s, dst, ty, x) ==
    SetRegister(s, dst, IF ty.k = "bool" THEN x ELSE IF x # 0 THEN Ones ELSE 0)

\* & and | of what a TEST has left, or of 0 and 1.
EvalLogic(s, op, dst, x, y) ==
    LET both == IF x = Ones THEN y ELSE IF y = Ones THEN x ELSE IF x < y THEN x ELSE y
        any == Larger(x, y)
    IN SetRegister(s, dst, IF op = "AND" THEN both ELSE any)

\* ll_eval_get_value has no case for the register of a number that has no type of its
\* own; loads and comparisons do not use it.
Comparing == {"EQ", "NEQ", "LT", "LTE", "GT", "GTE"}
IsTodo(g, op) ==
    /\ op.op \notin {"LOAD", "CAST"} \union Comparing
    /\ \E i \in 2 .. Len(op.args) : op.args[i].t = "reg" /\ g.regs[op.args[i].n + 1].k = "anyint"

\* ll_eval_block
EvalOp(s, g, op) ==
    LET dst == op.args[1]
        ty == g.regs[dst.n + 1]
        Nth(i) == Get(s, g, op.args[i])
    IN CASE IsTodo(g, op) -> Stopped(s)
         [] op.op \in {"LOAD", "CAST"} -> SetRegister(s, dst, Nth(2))
         [] op.op = "NEG" /\ ~IsTodo(g, op) -> IF ty.k = "int" THEN SetRegister(s, dst, -Nth(2)) ELSE Stopped(s)
         [] op.op \in {"ADD", "SUB", "MUL", "DIV", "MOD"} /\ ~IsTodo(g, op) -> EvalSum(s, op.op, dst, ty, Nth(2), Nth(3))
         [] op.op \in Comparing -> EvalCompare(s, op.op, dst, op.args[2], op.args[3])
         [] op.op = "TEST" /\ ~IsTodo(g, op) -> EvalTest(s, dst, ty, Nth(2))
         [] op.op \in {"AND", "OR"} /\ ~IsTodo(g, op) -> EvalLogic(s, op.op, dst, Nth(2), Nth(3))

(***************************************************************************)
(* ll_eval_node: the code of the expression, run.  A result that is neither*)
(* an immediate operand nor a register is not taken, and the value is one  *)
(* that was never set; nor is the operand of a negative number.            *)
(***************************************************************************)
RunOps(g) ==
    LET Step(s, op) == Strict(LAMBDA q : IF q.stop THEN q ELSE EvalOp(q, g, op), s)
    IN FoldLeft(Step, NewRun([i \in DOMAIN g.regs |-> 0]), g.ops)

ConstantIs(e, r, s) ==
    LET taken == r.v.t \in {"imm", "reg"}
    IN [stop |-> s.stop \/ (r.g.gaveup /\ ~(e.k \in {"constant", "const"} /\ e.ty.k = "int")),
        known |-> taken /\ ~s.unset,
        v |-> IF taken THEN Get(s, r.g, r.v) ELSE 0]

EvalNode(e) ==
    LET Ran(r) == Strict(LAMBDA s : ConstantIs(e, r, s), IF r.g.gaveup THEN NewRun(<<>>) ELSE RunOps(r.g))
    IN CHOOSE c \in {Ran(r) : r \in {Value(NewFunction(<<>>), e)}} : TRUE
=============================================================================
