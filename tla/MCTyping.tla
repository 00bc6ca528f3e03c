------------------------------ MODULE MCTyping ------------------------------
(* Sources for X86Program: what the typer makes of numbers. *)
EXTENDS TypeLayout

Lit(n) == [k |-> "int", v |-> n]
Name(x) == [k |-> "name", name |-> x]
Minus(e) == [k |-> "neg", e |-> e]
Number1(n) == IF n < 0 THEN Minus(Lit(-n)) ELSE Lit(n)
Expr2(k, op, l, r) == [k |-> k, op |-> op, l |-> l, r |-> r]
Sum2(op, l, r) == Expr2("sum", op, l, r)
Add(l, r) == Sum2("ADD", l, r)
Cmp(op, l, r) == Expr2("compare", op, l, r)
To(t, e) == [k |-> "cast", to |-> t, e |-> e]
Const(e) == [k |-> "const", e |-> e]
Becomes(x, e) == [k |-> "assign", l |-> Name(x), r |-> e]
Let(x, t, e) == [k |-> "declare", name |-> x, ty |-> t, const |-> FALSE, e |-> e]
LetConst(x, t, e) == [k |-> "declare", name |-> x, ty |-> t, const |-> TRUE, e |-> e]
Result1(e) == [k |-> "return", e |-> e]
Source(ret, body) == [ret |-> ret, body |-> body]

S8 == SignedOf(8)
S16 == SignedOf(16)
S32 == SignedOf(32)
S64 == SignedOf(64)
U8 == UnsignedOf(8)
U16 == UnsignedOf(16)
U32 == UnsignedOf(32)
Types8 == <<S8, S16, S32, S64, U8, U16, U32, UnsignedOf(64)>>

\* The i-th of a sequence that starts again at its end.
Nth(s, i) == s[(i % Len(s)) + 1]

Ops == <<"ADD", "SUB", "MUL", "DIV", "MOD">>
Relations == <<"EQ", "NEQ", "LT", "LTE", "GT", "GTE">>

\* A number that needs its whole type, and a small one.
Large(t) == CASE t.w = 8 -> IF t.k = "int" THEN -2 ELSE 3
              [] t.w = 16 -> IF t.k = "int" THEN -8 ELSE 15
              [] OTHER -> IF t.k = "int" THEN -60 ELSE 63
Small1(t) == IF t.w = 8 THEN 1 ELSE 3

X2(t, u) == <<Let("x", t, Number1(Large(t))), Let("y", u, Number1(Small1(u)))>>

\* Numbers of two types, for a result of a third one.
Mixed ==
    [i \in 1 .. 64 |->
        LET t == Nth(Types8, i)
            u == Nth(Types8, i \div 8)
        IN Source(S64, X2(t, u) \o <<Result1(Sum2(Nth(Ops, i + i \div 5), Name("x"), Name("y")))>>)]

MixedComparisons ==
    [i \in 1 .. 64 |->
        LET t == Nth(Types8, i)
            u == Nth(Types8, i \div 8)
        IN Source(Bool, X2(t, u) \o <<Result1(Cmp(Nth(Relations, i + i \div 7), Name("x"), Name("y")))>>)]

Assignments ==
    [i \in 1 .. 64 |->
        LET t == Nth(Types8, i)
            u == Nth(Types8, i \div 8)
        IN Source(u, X2(t, u) \o <<Becomes("y", Name("x")), Result1(Name("y"))>>)]

\* Constants of every type.
A2(t) == <<LetConst("a", t, Lit(Small1(t))), LetConst("b", t, Lit(1))>>
Folds ==
    [i \in 1 .. 40 |->
        LET t == Nth(Types8, i)
        IN Source(t, A2(t) \o <<LetConst("c", t, Sum2(Nth(Ops, i \div 8), Name("a"), Name("b"))), Result1(Name("c"))>>)]

Markers ==
    [i \in 1 .. 40 |->
        LET t == Nth(Types8, i)
        IN Source(S64, A2(t) \o <<Let("x", t, Const(Sum2(Nth(Ops, i \div 8), Name("a"), Name("b")))), Result1(Add(Name("x"), Lit(1)))>>)]

\* A constant, given to a variable of another type.
Narrowed ==
    [i \in 1 .. 64 |->
        LET t == Nth(Types8, i)
            u == Nth(Types8, i \div 8)
        IN Source(u, <<LetConst("a", t, Lit(Small1(t))), Let("x", u, Name("a")), Result1(Name("x"))>>)]

abc == <<LetConst("a", S32, Lit(5)), LetConst("b", S32, Lit(7)), Let("x", S32, Lit(9))>>
One(ret, e) == Source(ret, abc \o <<Result1(e)>>)
TwoOf(ret, s, e) == Source(ret, abc \o <<s, Result1(e)>>)

Others ==
  << One(S32, Sum2("MUL", Add(Name("a"), Name("b")), Name("x"))),
     One(S32, Add(Sum2("MUL", Lit(2), Lit(3)), Name("x"))),
     One(S32, Sum2("SUB", Lit(5), Lit(3))),
     One(S32, Sum2("SUB", Name("a"), Name("b"))),
     One(S32, Sum2("SUB", Name("x"), Name("b"))),
     TwoOf(S32, LetConst("c", S32, Sum2("SUB", Lit(5), Lit(3))), Name("c")),
     One(S32, Sum2("SUB", Name("x"), Minus(Lit(3)))),
     One(S32, Const(Minus(Lit(3)))),
     TwoOf(S32, LetConst("c", S32, Const(Minus(Lit(3)))), Add(Name("c"), Name("x"))),
     One(S32, Const(Add(Minus(Lit(3)), Name("b")))),
     One(S32, Const(Sum2("DIV", Minus(Lit(9)), Const(Lit(2))))),
     One(S32, Const(Sum2("MOD", Minus(Lit(9)), Minus(Lit(2))))),
     One(S32, Add(Name("x"), Const(Add(Lit(1), Lit(2))))),
     One(S32, Add(Name("x"), Const(Add(Add(Lit(1), Lit(2)), Lit(3))))),
     One(S32, Const(Add(Add(Lit(1), Lit(2)), Lit(3)))),
     One(S32, Const(Lit(100))),
     One(S32, Const(Add(Lit(100), Lit(1)))),
     TwoOf(S64, LetConst("c", S64, Lit(1000)), Add(Name("c"), Name("x"))),
     TwoOf(S64, LetConst("c", S64, Lit(1000)), Const(Name("c"))),
     One(S32, To(S32, To(S8, Name("x")))),
     One(S8, Const(To(S8, Name("b")))),
     One(S8, To(S8, Name("x"))),
     One(S32, Const(To(S32, Lit(6)))),
     One(S64, To(S64, Sum2("MUL", Name("x"), Name("x")))),
     One(Bool, Cmp("LT", Name("a"), Name("b"))),
     One(Bool, Cmp("LT", Name("a"), Name("x"))),
     One(Bool, Cmp("LT", Lit(3), Name("x"))),
     One(Bool, Const(Cmp("LT", Minus(Lit(1)), Name("b")))),
     One(Bool, Const(Cmp("GT", Const(Add(Lit(1), Lit(2))), Minus(Minus(Lit(1)))))),
     One(Bool, Expr2("logic", "AND", Cmp("LT", Name("a"), Name("x")), Cmp("LT", Name("x"), Name("b")))),
     One(Bool, Expr2("logic", "OR", Name("x"), Name("b"))),
     One(Bool, Const(Expr2("logic", "AND", Cmp("LT", Minus(Minus(Lit(1))), Name("b")), Cmp("LT", Minus(Minus(Lit(1))), Name("b"))))),
     One(Bool, Const(Expr2("logic", "AND", Minus(Lit(1)), Minus(Lit(1))))),
     One(Bool, Const(Expr2("logic", "AND", To(S32, Lit(5)), To(S32, Lit(6))))),
     One(Bool, Const(Expr2("logic", "OR", To(S32, Lit(0)), Cmp("LT", Minus(Minus(To(S32, Lit(1)))), Name("b"))))),
     One(Bool, [k |-> "bool", v |-> TRUE]),
     Source(Bool, <<Let("p", Bool, [k |-> "bool", v |-> TRUE]), Result1(Cmp("EQ", Name("p"), Name("p")))>>),
     One(S32, Minus(Name("x"))),
     One(S32, Add(Name("x"), Becomes("x", Lit(1)))),
     Source(S32, X2(S8, S32) \o <<Result1(Minus(Name("x")))>>),
     Source(S8, X2(S32, S8) \o <<Let("z", S8, Minus(Name("y"))), Result1(Name("z"))>>),
     Source(S32, X2(S8, S32) \o <<Expr2("opassign", "ADD", Name("y"), Name("x")), Result1(Name("y"))>>),
     Source(S16, X2(S16, S16) \o <<Expr2("opassign", "SUB", Name("x"), Lit(1)), Result1(Name("x"))>>),
     Source(S8, <<Let("x", S8, Lit(0)), Let("y", S32, Lit(1)), Expr2("opassign", "ADD", Name("x"), Name("y")), Result1(Name("x"))>>),
     Source(S8, <<Let("x", S8, Lit(100)), Result1(Name("x"))>>),
     Source(S32, <<LetConst("a", S8, Lit(100)), Result1(Name("a"))>>),
     Source(S32, X2(S8, S8) \o <<Result1(Sum2("MUL", Name("x"), Name("x")))>>),
     Source(Bool, X2(S8, S16) \o <<Result1(Cmp("LT", Sum2("MUL", Name("x"), Name("x")), Name("y")))>>),
     Source(S32, X2(U32, S8) \o <<Let("z", S32, Lit(1)), Result1(Add(Name("z"), Name("y")))>>),
     Source(S32, abc \o <<Result1(Becomes("x", Add(Name("x"), Lit(1))))>>),
     Source(S32, X2(S8, S8) \o <<Result1(Becomes("x", Lit(1)))>>),
     Source(S32, abc \o <<Result1(Add(Becomes("x", Lit(1)), Name("x")))>>),
     Source(Bool, <<Let("x", Bool, Const(Cmp("EQ", Minus(Lit(3)), Minus(Lit(3))))), Result1(Name("x"))>>) >>

MCSources == Mixed \o MixedComparisons \o Assignments \o Folds \o Markers \o Narrowed \o Others
=============================================================================
