-------------------------------- MODULE MCX86Ir -------------------------------
(* X86Layout on the programs of MCX86Layout and on what IrGen generates:       *)
(* functions with conditionals, loops and do-blocks in one another, with       *)
(* breaks out of them.                                                         *)
EXTENDS MCX86Layout, IrGen

\* The chain of the blocks of function g from block b on.
RECURSIVE ChainFrom(_, _)
ChainFrom(g, b) == IF b = 0 THEN <<>> ELSE <<b>> \o ChainFrom(g, g.pool.next[b])

PlaceOf(chain, b) == CHOOSE i \in DOMAIN chain : chain[i] = b

\* The bytes of an op that is no branch or call: some that are not all the same.
BytesOf(op) == CASE op = "LOAD" -> 7 [] op = "STORE" -> 10 [] op = "ADD" -> 11 [] OTHER -> 9

Lower(op, chain) ==
    CASE op.op = "BRANCH" -> [op |-> "branch", to |-> PlaceOf(chain, op.args[1])]
      [] op.op = "BRANCH_COND" ->
            [op |-> "cond", n |-> 0, then |-> PlaceOf(chain, op.args[2]), else |-> PlaceOf(chain, op.args[3])]
      [] op.op = "INVOKEVALUE" -> [op |-> "invoke", n |-> 12, fn |-> op.args[2]]
      [] op.op \in {"RET", "RETVALUE"} -> [op |-> "return", n |-> 5]
      [] OTHER -> [op |-> "code", n |-> BytesOf(op.op)]

InOrder(g, chain) ==
    [kind |-> "code", head |-> 20, tail |-> 15, was |-> Invalid,
     blocks |-> [i \in DOMAIN chain |->
                     [k \in DOMAIN g.ops[chain[i]] |-> Lower(g.ops[chain[i]][k], chain)]]]

Chained(g) == InOrder(g, ChainFrom(g, 1))

Compiled(body) == Chained(GenFunction(body))

Number(n) == [k |-> "int", v |-> n]
x == [k |-> "var", name |-> "x"]
Sum(l, r) == [k |-> "sum", l |-> l, r |-> r]
Less(l, r) == [k |-> "less", l |-> l, r |-> r]
Assign(e) == [k |-> "assign", name |-> "x", e |-> e]
Do(body) == [k |-> "do", body |-> body]
If(c, body, else) == [k |-> "if", cond |-> c, body |-> body, else |-> else]
BreakTo(out, e) == [k |-> "break", out |-> out, e |-> e]
While(c, body) == [k |-> "loop", init |-> <<>>, cond |-> c, body |-> body, update |-> <<>>, value |-> FALSE]
CallTo(f) == [k |-> "invoke", fn |-> f, args |-> <<x>>]

Leaf(depth) == {<<Assign(Sum(x, Number(1)))>>, <<Assign(CallTo(1))>>, <<Assign(CallTo(2))>>}
    \union IF depth = 0 THEN {} ELSE {<<BreakTo(depth, NoExpr)>>}

Conds == {Less(x, Number(3)), x, Less(Do(<<BreakTo(1, x)>>), Number(2))}

Shapes(depth) ==
    {If(c, t, e) : c \in Conds, t \in Leaf(depth), e \in Leaf(depth) \union {<<>>}}

Bodies ==
    {<<s>> : s \in Shapes(0)}
    \union {<<While(c, <<s>>)>> : c \in Conds \ {x}, s \in Shapes(1)}
    \union {<<While(Less(x, Number(3)), <<While(Less(x, Number(2)), <<s>>)>>)>> : s \in Shapes(2)}
    \union {<<Assign(Do(<<s, BreakTo(1, x)>>))>> : s \in Shapes(1)}

Whole(body) == <<[k |-> "declare", name |-> "x", e |-> Number(0)]>> \o body \o <<[k |-> "return", e |-> x]>>

AllPrograms == MCPrograms \union
    {<<Compiled(Whole(b)), Compiled(<<[k |-> "return", e |-> Number(0)]>>)>> : b \in Bodies}
=============================================================================
