-------------------------------- MODULE IrGen -------------------------------
(***************************************************************************)
(* From a typed body to IR (backends/ir.c): variables, assignments, sums,  *)
(* comparisons, calls, do-blocks, conditionals, loops, breaks and returns  *)
(* over integers.  Aggregates, pointers, casts and strings are left out.   *)
(*                                                                         *)
(* An expression is a record with its kind k.  A break names the construct *)
(* it leaves by its position outwards, 1 for the innermost: the typer has  *)
(* resolved it.  Every function has a pool of blocks of its own here, with *)
(* the entry at 1; IrBlocks shows that sharing one pool makes no difference*)
(***************************************************************************)
EXTENDS IrPool, IrOperands, SequencesExt

NoExpr == [k |-> "none"]

(***************************************************************************)
(* The function being generated: its blocks with their ops and did_branch, *)
(* current_block, the numbers of registers and locals, the 64-bit literals,*)
(* the local of every variable, and for every construct around the current *)
(* place its break_block_ref and break_value.                              *)
(***************************************************************************)
NewFunction ==
    [pool |-> FunctionEntry(EmptyPool), ops |-> << <<>> >>, did_branch |-> <<FALSE>>, cur |-> 1,
     regs |-> 0, locals |-> 0, literals |-> <<>>, var |-> <<>>, scopes |-> <<>>]

Into(g, b) == [g EXCEPT !.cur = b]

Append1(g, op, args) == [g EXCEPT !.ops[g.cur] = Append(@, [op |-> op, args |-> args])]

\* IR_APPEND_OP_DST: a new register for the result.
AppendDst(g, op, args) ==
    [g |-> [Append1(g, op, <<Reg(g.regs)>> \o args) EXCEPT !.regs = @ + 1], v |-> Reg(g.regs)]

\* ir_create_block(append); the new block is FreshBlock(g.pool).
ir_create_block(g) ==
    [g EXCEPT !.pool = ir_create_block_after(@, g.cur), !.ops = Append(@, <<>>),
              !.did_branch = Append(@, FALSE)]

NewLocal(g) == [g EXCEPT !.locals = @ + 1]

LoadImmediate(r) == IF r.v.t = "imm" THEN AppendDst(r.g, "LOAD", <<r.v>>) ELSE r

\* ir_generate_expression and ir_generate_statement, which has no value.
RECURSIVE ir_generate(_, _)

ir_generate_statements(g, body) ==
    FoldLeft(LAMBDA h, s : Strict(LAMBDA r : r.g, ir_generate(h, s)), g, body)

\* The construct is around the body only.
InScope(g, body, blk, value) ==
    [ir_generate_statements([g EXCEPT !.scopes = <<[block |-> blk, value |-> value]>> \o @], body)
        EXCEPT !.scopes = g.scopes]

GenInt(g, v) ==
    IF v < ImmediateLimit THEN [g |-> g, v |-> Imm(v)]
    ELSE [g |-> [g EXCEPT !.literals = Append(@, v)], v |-> Literal64(Len(g.literals))]

GenSum(g, e) ==
    LET l == LoadImmediate(ir_generate(g, e.l))
        r == LoadImmediate(ir_generate(l.g, e.r))
    IN AppendDst(r.g, "ADD", <<l.v, r.v>>)

\* A comparison generates its right side first.
GenLess(g, e) ==
    LET r == LoadImmediate(ir_generate(g, e.r))
        l == LoadImmediate(ir_generate(r.g, e.l))
    IN AppendDst(l.g, "LT", <<l.v, r.v>>)

GenAssign(g, e) ==
    LET r == ir_generate(g, e.e)
    IN [g |-> Append1(r.g, "STORE", <<Local(g.var[e.name]), r.v>>), v |-> r.v]

\* A call: the register of the result comes before those of the arguments.
GenInvoke(g, e) ==
    LET Argument(r, a) ==
            LET x == LoadImmediate(ir_generate(r.g, a))
            IN [g |-> x.g, v |-> Append(r.v, x.v)]
        args == FoldLeft(Argument, [g |-> [g EXCEPT !.regs = @ + 1], v |-> <<>>], e.args)
    IN [g |-> Append1(args.g, "INVOKEVALUE", <<Reg(g.regs), e.fn, args.v>>), v |-> Reg(g.regs)]

\* A do-block: control falls from its last block into break_block.
GenBlock(g, e) ==
    LET value == Local(g.locals)
        break_block == FreshBlock(g.pool)
        body == InScope(ir_create_block(NewLocal(g)), e.body, break_block, value)
    IN AppendDst(Into(body, break_block), "LOAD", <<value>>)

\* Mutant: all of them behind the block they start from.
BlocksAtOnce(g, n) ==
    LET add[i \in 0 .. n] ==
            IF i = 0 THEN [g |-> g, b |-> <<>>]
            ELSE [g |-> ir_create_block(add[i - 1].g), b |-> Append(add[i - 1].b, FreshBlock(add[i - 1].g.pool))]
    IN add[n]

\* The n blocks of a conditional or a loop, each made behind the one before.
BlocksBehind(g, n) ==
    LET With(r, b) == [g |-> Into(ir_create_block(r.g), b), b |-> Append(r.b, b)]
        add[i \in 0 .. n] ==
            IF i = 0 THEN [g |-> g, b |-> <<>>] ELSE With(add[i - 1], FreshBlock(add[i - 1].g.pool))
    IN add[n]

AppendBranchCond(cond, then, else) == Append1(cond.g, "BRANCH_COND", <<cond.v, then, else>>)

\* What is not a bool is compared with 0.
GenCondition(g, cond) ==
    LET r == LoadImmediate(ir_generate(g, cond))
    IN IF cond.k = "less" THEN r ELSE AppendDst(r.g, "NEQ", <<r.v, Imm(0)>>)

\* The blocks are those of the body, of the else part, and of what follows.
GenIf(g, s) ==
    LET n == IF s.else = <<>> THEN 2 ELSE 3
        Part(h, body, blk, end) == Append1(ir_generate_statements(Into(h, blk), body), "BRANCH", <<end>>)
        Parts(bl) ==
            LET cond == GenCondition(Into(bl.g, g.cur), s.cond)
                body == Part(AppendBranchCond(cond, bl.b[1], bl.b[2]), s.body, bl.b[1], bl.b[n])
            IN Into(IF n = 2 THEN body ELSE Part(body, s.else, bl.b[2], bl.b[n]), bl.b[n])
    IN Strict(Parts, BlocksBehind(g, n))

\* Mutant: the update comes before the body.
LoopBodyUpdateFirst(g, e) ==
    ir_generate_statements(ir_generate_statements(g, e.update), e.body)

LoopBody(g, e) == ir_generate_statements(ir_generate_statements(g, e.body), e.update)

\* for and while, with the value of a break when the loop is used for one.  The
\* blocks are those of the condition, of the body, of the break and of the end.
GenLoop(g, e) ==
    LET Branch(cond, b) == IF e.cond = NoExpr THEN cond.g ELSE AppendBranchCond(cond, b[2], b[4])
        Around(h, b) == [h EXCEPT !.scopes = <<[block |-> b[3], value |-> Local(h.locals)]>> \o @]
        After(h, b) == Into([Append1(h, "BRANCH", <<b[1]>>) EXCEPT !.scopes = g.scopes], b[4])
        Parts(bl) ==
            LET around == Around(bl.g, bl.b)
                made == IF e.value THEN NewLocal(around) ELSE around
                cond == Branch(ir_generate(Into(made, bl.b[1]), e.cond), bl.b)
                end == After(LoopBody(Into(cond, bl.b[2]), e), bl.b)
            IN IF e.value THEN AppendDst(end, "LOAD", <<Local(bl.g.locals)>>) ELSE [g |-> end, v |-> None]
    IN Strict(Parts, BlocksBehind(ir_generate_statements(g, e.init), 4))

\* The code behind a break gets a block that nothing branches to.
BreakBlock(g) ==
    [g EXCEPT !.pool = InsertDeadBlock(@, g.cur), !.cur = FreshBlock(g.pool),
              !.ops = Append(@, <<>>), !.did_branch = Append(@, FALSE)]

GenBreak(g, s) ==
    LET scope == g.scopes[s.out]
        r == ir_generate(g, s.e)
        stored == IF s.e = NoExpr THEN g ELSE Append1(r.g, "STORE", <<scope.value, r.v>>)
    IN BreakBlock(Append1(stored, "BRANCH", <<scope.block>>))

GenReturn(g, s) ==
    LET r == ir_generate(g, s.e)
        h == Append1(r.g, "RETVALUE", <<r.v>>)
    IN [h EXCEPT !.did_branch[h.cur] = TRUE]

\* A block that is a statement makes no block of IR: the scope it has keeps the
\* null block as its break_block_ref.
GenPlainBlock(g, s) == InScope(g, s.body, NoBlock, None)

\* A declaration makes its local before its value.
GenDeclare(g, s) ==
    LET h == NewLocal([g EXCEPT !.var = (s.name :> g.locals) @@ @])
        r == ir_generate(h, s.e)
    IN Append1(r.g, "STORE", <<Local(g.locals), r.v>>)

Statement(g) == [g |-> g, v |-> None]

ir_generate(g, e) ==
    CASE e.k = "none" -> [g |-> g, v |-> None]
      [] e.k = "int" -> GenInt(g, e.v)
      [] e.k = "var" -> AppendDst(g, "LOAD", <<Local(g.var[e.name])>>)
      [] e.k = "param" -> AppendDst(g, "LOAD", <<Parameter(e.i)>>)
      [] e.k = "sum" -> GenSum(g, e)
      [] e.k = "less" -> GenLess(g, e)
      [] e.k = "assign" -> GenAssign(g, e)
      [] e.k = "invoke" -> GenInvoke(g, e)
      [] e.k = "do" -> GenBlock(g, e)
      [] e.k = "loop" -> GenLoop(g, e)
      [] e.k = "declare" -> Statement(GenDeclare(g, e))
      [] e.k = "block" -> Statement(GenPlainBlock(g, e))
      [] e.k = "if" -> Statement(GenIf(g, e))
      [] e.k = "break" -> Statement(GenBreak(g, e))
      [] e.k = "return" -> Statement(GenReturn(g, e))

\* The declaration of a function: a RET unless its last block has returned.
GenFunction(body) ==
    LET g == GenPlainBlock(NewFunction, [k |-> "block", body |-> body])
    IN IF g.did_branch[g.cur] THEN g ELSE Append1(g, "RET", <<>>)
=============================================================================
