------------------------------ MODULE MCIrEval -----------------------------
(* IrEval on constants built from one or two statements between the          *)
(* declaration of x and a break with a sum of x and 10.                      *)
EXTENDS IrEval

Number(n) == [k |-> "int", v |-> n]
Var(x) == [k |-> "var", name |-> x]
Param(i) == [k |-> "param", i |-> i]
Sum(l, r) == [k |-> "sum", l |-> l, r |-> r]
Less(l, r) == [k |-> "less", l |-> l, r |-> r]
Assign(x, e) == [k |-> "assign", name |-> x, e |-> e]
Call1(f, a) == [k |-> "invoke", fn |-> f, args |-> <<a>>]
Do(body) == [k |-> "do", body |-> body]
Declare(x, e) == [k |-> "declare", name |-> x, e |-> e]
Block(body) == [k |-> "block", body |-> body]
If(c, body, else) == [k |-> "if", cond |-> c, body |-> body, else |-> else]
BreakTo(out, e) == [k |-> "break", out |-> out, e |-> e]
ReturnOf(e) == [k |-> "return", e |-> e]

\* for i = 0; i < 2; i = i + 1
For(i, value, body) ==
    [k |-> "loop", init |-> <<Declare(i, Number(0))>>, cond |-> Less(Var(i), Number(2)), body |-> body,
     update |-> <<Assign(i, Sum(Var(i), Number(1)))>>, value |-> value]

x == Var("x")
AddTo(n) == Assign("x", Sum(x, Number(n)))

\* Ways to end a part of a construct `depth' constructs inside the do-block.
Simple == {AddTo(1), Assign("x", Number(1))}
Parts(depth) == {<<s>> : s \in Simple} \union {<<BreakTo(depth, x)>>, <<AddTo(1), BreakTo(depth, Number(5))>>}
Conds == {Less(x, Number(1)), Less(Number(1), x), Less(Do(<<AddTo(1), BreakTo(1, x)>>), Number(2))}

Ifs(depth) ==
    {If(c, t, e) : c \in Conds, t \in Parts(depth), e \in Parts(depth) \union {<<>>}}

\* An inner do-block, left with its value or with that of the outer one.
Dos == {Assign("x", Do(<<s, BreakTo(1, Number(3))>>)) :
            s \in Simple \union {If(Less(x, Number(1)), <<BreakTo(out, Sum(x, Number(4)))>>, <<>>) : out \in {1, 2}}}

\* Loops as statements and for their value, with breaks out of both constructs,
\* and a loop in a loop.
Bodies == {<<s>> : s \in Simple}
    \union {<<If(Less(Number(0), Var("i")), <<b>>, <<>>), AddTo(1)>> :
                b \in {BreakTo(1, NoExpr), BreakTo(2, x)}}
    \union {<<AddTo(1), If(Less(Var("i"), Number(1)), <<AddTo(2)>>, <<BreakTo(1, NoExpr)>>)>>}
NestedBodies == {<<s>> : s \in Simple}
    \union {<<If(Less(Number(0), Var("j")), <<b>>, <<>>), AddTo(1)>> :
                b \in {BreakTo(1, NoExpr), BreakTo(2, NoExpr), BreakTo(3, x)}}
ValueBodies == {<<AddTo(1), BreakTo(1, x)>>,
                <<If(Less(Var("i"), Number(1)), <<AddTo(1)>>, <<>>), BreakTo(1, Sum(x, Var("i")))>>,
                <<If(Less(Number(0), Var("i")), <<BreakTo(2, x)>>, <<BreakTo(1, Number(2))>>)>>}
Loops == {For("i", FALSE, b) : b \in Bodies} \union {Assign("x", For("i", TRUE, b)) : b \in ValueBodies}
    \union {For("i", FALSE, <<For("j", FALSE, b)>>) : b \in NestedBodies}

Statements == Simple \union Ifs(1) \union Dos \union Loops

Constant(body) == Do(<<Declare("x", Number(0))>> \o body \o <<BreakTo(1, Sum(x, Number(10)))>>)

\* Constants without calls.
Straight ==
    {[fns |-> <<>>, constant |-> Constant(<<s>>)] : s \in Statements}
    \union {[fns |-> <<>>, constant |-> Constant(<<s, AddTo(1), t>>)] : s \in Loops \union Dos, t \in Dos \union Loops}
    \union {[fns |-> <<>>, constant |-> e] : e \in {Number(1), Sum(Number(1), Number(2)), Less(Number(1), Number(2))}}
    \union {[fns |-> <<>>, constant |-> Constant(<<If(Less(x, Number(1)), <<s>>, <<>>), AddTo(1)>>)] : s \in Loops \union Dos}

\* An integer as a condition, when the first register of the constant holds 0.
ByInteger(first, plus, part) ==
    [fns |-> <<>>,
     constant |-> Constant(<<Assign("x", Number(first)), Declare("y", Sum(x, Number(plus))), If(Var("y"), part, <<>>)>>)]
IntegerConds == {ByInteger(0, plus, part) : plus \in {0, 1}, part \in Parts(1)}

\* Constants that are the call of a function, which returns at its end, on every
\* path once.
FunctionBody(s) == <<Declare("x", Param(0)), s, ReturnOf(Sum(x, Number(10)))>>
BothReturn == <<If(Less(Param(0), Number(1)), <<ReturnOf(Number(5))>>, <<ReturnOf(Param(0))>>)>>
InFunction == Simple \union {For("i", FALSE, <<AddTo(2)>>), Assign("x", Do(<<BreakTo(1, Number(3))>>))}
Calling ==
    {[fns |-> <<FunctionBody(s)>>, constant |-> Call1(1, Number(n))] : s \in InFunction, n \in {0, 1}}
    \union {[fns |-> <<BothReturn>>, constant |-> Call1(1, Number(n))] : n \in {0, 1}}

\* Constants that go on after a call, or hand a call to a call; functions that
\* call one another; and a number too long for an operand.
Twice == <<ReturnOf(Call1(2, Sum(Param(0), Number(1))))>>
Going ==
    {[fns |-> <<FunctionBody(For("i", FALSE, <<AddTo(1)>>)), <<ReturnOf(Param(0))>>, Twice>>, constant |-> c] :
        c \in {Constant(<<Assign("x", Call1(f, Number(1)))>>) : f \in 1 .. 3}
           \union {Constant(<<AddTo(1), Assign("x", Sum(x, Call1(f, x)))>>) : f \in 1 .. 3}
           \union {Call1(f, Call1(g, Number(1))) : f, g \in 1 .. 3}
           \union {Sum(Call1(1, Number(1)), Number(2)), Sum(Number(2), Call1(2, Number(1)))}
           \union {Constant(<<Assign("x", Number(200))>>)}}
    \union {[fns |-> <<<<ReturnOf(Number(0))>>>>, constant |-> Constant(<<AddTo(3), Assign("x", Call1(1, Number(1)))>>)]}

\* A constant that uses a variable after a call of a function with enough
\* registers for its argument and its result.
AfterCall == {[fns |-> <<<<ReturnOf(Sum(Sum(Param(0), Number(1)), Number(1)))>>>>,
               constant |-> Constant(<<AddTo(3), Declare("y", Call1(1, Number(1)))>>)]}
MCPrograms == Straight \union Calling \union IntegerConds \union Going
=============================================================================
