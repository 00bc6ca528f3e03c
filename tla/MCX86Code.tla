----------------------------- MODULE MCX86Code -----------------------------
(* Programs for X86Program: every integer type, pointers, arrays, structs,
   slices and calls. *)
EXTENDS X86Program, MCTyping

V(x, t) == [k |-> "var", name |-> x, ty |-> t]
P(j, t) == [k |-> "param", i |-> j, ty |-> t]
N(n, t) == [k |-> "int", v |-> n, ty |-> t]
Un(k, e, t) == [k |-> k, e |-> e, ty |-> t]
Num(n, t) == IF n < 0 THEN Un("neg", N(-n, t), t) ELSE N(n, t)
Bin(k, op, l, r, t) == [k |-> k, op |-> op, l |-> l, r |-> r, ty |-> t]
Set(l, r) == [k |-> "assign", l |-> l, r |-> r, ty |-> l.ty]
Call(f, args, t) == [k |-> "invoke", fn |-> f, args |-> args, ty |-> t]
Declare(x, t, e) == [k |-> "declare", name |-> x, ty |-> t, e |-> e]
Give(e) == [k |-> "return", e |-> e]
Func(params, ret, body) == [params |-> params, ret |-> ret, body |-> body]
Main(ret, body) == Func(<<>>, ret, body)

IntTypes == <<SignedOf(8), SignedOf(16), SignedOf(32), SignedOf(64),
              UnsignedOf(8), UnsignedOf(16), UnsignedOf(32), UnsignedOf(64)>>

\* Values at the boundaries of a type.
Edges(t) ==
    IF t.k = "int" THEN (CASE t.w = 8 -> <<-2, 1>> [] t.w = 16 -> <<-8, 7>> [] t.w = 32 -> <<-50, 63>> [] t.w = 64 -> <<-60, 1000>>)
    ELSE CASE t.w = 8 -> <<3, 1>> [] t.w = 16 -> <<7, 15>> [] t.w = 32 -> <<1, 63>> [] t.w = 64 -> <<1, 1000>>

Pairs(A, B) == [i \in 1 .. Len(A) * Len(B) |-> <<A[((i - 1) \div Len(B)) + 1], B[((i - 1) % Len(B)) + 1]>>]

Casts ==
    LET Types == Append(IntTypes, Char)
    IN [i \in 1 .. Len(Types) * Len(Types) |->
        LET f == Pairs(Types, Types)[i][1]
            t == Pairs(Types, Types)[i][2]
        IN <<Main(t, <<Declare("x", f, Num(Edges(f)[1], f)), Give(Un("cast", V("x", f), t))>>)>>]

I8 == SignedOf(8)
I16 == SignedOf(16)
I32 == SignedOf(32)
I64 == SignedOf(64)
U64 == UnsignedOf(64)

Sums ==
    [i \in 1 .. 80 |->
        LET t == IntTypes[((i - 1) % 8) + 1]
            op == <<"ADD", "SUB", "MUL", "DIV", "MOD">>[((i - 1) \div 16) + 1]
            e == IF (i - 1) % 16 < 8 THEN Edges(t) ELSE Reverse(Edges(t))
        IN <<Main(t, <<Declare("x", t, Num(e[1], t)), Declare("y", t, Num(e[2], t)),
                       Give(Bin("sum", op, V("x", t), V("y", t), t))>>)>>]

Comparisons ==
    [i \in 1 .. 48 |->
        LET t == IntTypes[((i - 1) % 8) + 1]
            op == <<"EQ", "NEQ", "LT", "LTE", "GT", "GTE">>[((i - 1) \div 8) + 1]
        IN <<Main(Bool, <<Declare("x", t, Num(Edges(t)[1], t)), Declare("y", t, Num(Edges(t)[2], t)),
                          Give(Bin("compare", op, V("x", t), V("y", t), Bool))>>)>>]

x32 == V("x", I32)
y32 == V("y", I32)
Less(l, r) == Bin("compare", "LT", l, r, Bool)
Plus(l, r) == Bin("sum", "ADD", l, r, l.ty)
Body32(body) == <<Main(I32, <<Declare("x", I32, N(5, I32)), Declare("y", I32, N(7, I32))>> \o body)>>
BodyBool(body) == <<Main(Bool, <<Declare("x", I32, N(5, I32)), Declare("y", I32, N(7, I32))>> \o body)>>

Expressions ==
  << BodyBool(<<Give(Bin("logic", "AND", Less(x32, y32), Less(y32, x32), Bool))>>),
     BodyBool(<<Give(Bin("logic", "OR", Less(x32, y32), Less(y32, x32), Bool))>>),
     BodyBool(<<Give(Bin("compare", "EQ", Less(x32, y32), Less(y32, x32), Bool))>>),
     BodyBool(<<Declare("z", Bool, Less(x32, y32)), Give(V("z", Bool))>>),
     Body32(<<Bin("opassign", "SUB", x32, y32, I32), Give(x32)>>),
     Body32(<<Set(x32, Set(y32, N(3, I32))), Give(Plus(x32, y32))>>),
     Body32(<<Give(Plus(x32, Set(x32, N(3, I32))))>>),
     Body32(<<Give(Plus(Set(x32, N(3, I32)), x32))>>),
     Body32(<<Give(Plus(N(1, I32), Bin("sum", "MUL", x32, N(2, I32), I32)))>>),
     <<Main(I32, <<Declare("x", I32, N(50, I32)), Give(Un("cast", Un("cast", x32, I8), I32))>>)>>,
     Body32(<<Set(x32, N(100, I32)), Give(Plus(x32, y32))>>) >>

PI32 == Pointer(I32)
Deref(e) == Un("deref", e, e.ty.to)
Addr(e) == Un("addr", e, Pointer(e.ty))
p32 == V("p", PI32)

Pointers ==
  << Body32(<<Declare("p", PI32, Addr(x32)), Set(Deref(p32), N(9, I32)), Give(Plus(x32, Deref(p32)))>>),
     <<Main(I32, <<Declare("x", I32, N(1, I32)), Call(2, <<Addr(x32)>>, Void), Give(x32)>>),
       Func(<<PI32>>, Void, <<Set(Deref(P(0, PI32)), N(7, I32))>>)>>,
     Body32(<<Declare("p", PI32, Addr(x32)), Declare("q", Pointer(PI32), Addr(p32)),
              Set(Deref(Deref(V("q", Pointer(PI32)))), N(9, I32)), Give(x32)>>) >>

\* Arrays of more than 8 bytes.
A(t) == Array(t, IF t.w = 8 THEN 9 ELSE 5)
Items(vs, t) == [k |-> "array", items |-> [i \in DOMAIN vs |-> N(vs[i], t)], ty |-> A(t)]
At1(e, i, t) == [k |-> "index", e |-> e, i |-> i, ty |-> t]
Declared(t) == Declare("a", A(t), Items(<<1, 2, 3, 1>>, t))
a32 == V("a", A(I32))
i64 == V("i", I64)

Arrays ==
  [i \in 1 .. 4 |->
     LET t == IntTypes[i]
         a == V("a", A(t))
     IN <<Main(t, <<Declared(t), Declare("i", I64, N(2, I64)), Set(At1(a, i64, t), N(0, t)),
                    Give(Plus(At1(a, N(1, I64), t), At1(a, i64, t)))>>)>>]
  \o
  << <<Main(I32, <<Declared(I32), Declare("i", I32, N(2, I32)), Give(At1(a32, V("i", I32), I32))>>)>>,
     Body32(<<Declare("a", A(I32), [k |-> "array", items |-> <<x32, y32>>, ty |-> A(I32)]),
              Give(At1(a32, N(1, I64), I32))>>),
     <<Main(U64, <<Declared(I32), Give(Un("length", a32, U64))>>)>>,
     <<Main(I32, <<Declared(I32), Declare("p", PI32, Addr(At1(a32, N(1, I64), I32))),
                   Declare("i", I64, N(1, I64)), Give(At1(p32, i64, I32))>>)>>,
     <<Main(I32, <<Declared(I32), Declare("b", A(I32), a32), Set(At1(a32, N(1, I64), I32), N(9, I32)),
                   Give(At1(V("b", A(I32)), N(1, I64), I32))>>)>> >>

\* Slices and strings.
Text == [k |-> "string", items |-> <<1, 2, 3>>, ty |-> Array(Char, 3)]
s == V("s", String)
SI32 == Slice(I32)
Slice3(e, start, stop) == [k |-> "slice", e |-> e, start |-> start, stop |-> stop, ty |-> e.ty]
Member8(e, off, t) == [k |-> "member", e |-> e, at |-> off, ty |-> t]
Length(e) == Member8(e, 8, U64)
WithText(ret, body) == <<Main(ret, <<Declare("s", String, Un("cast", Text, String))>> \o body)>>
WithSlice(ret, body) == <<Main(ret, <<Declared(I32), Declare("t", SI32, Un("cast", a32, SI32))>> \o body)>>
t32 == V("t", SI32)

Slices ==
  << WithText(Char, <<Give(At1(s, N(2, I64), Char))>>),
     WithText(U64, <<Give(Length(s))>>),
     WithText(Char, <<Declare("u", String, Slice3(s, N(1, U64), NoExpr)), Give(At1(V("u", String), N(1, I64), Char))>>),
     WithText(U64, <<Declare("u", String, Slice3(s, N(1, U64), NoExpr)), Give(Length(V("u", String)))>>),
     WithText(U64, <<Declare("u", String, Slice3(s, N(1, U64), N(3, U64))), Give(Length(V("u", String)))>>),
     WithText(U64, <<Declare("u", String, Slice3(s, NoExpr, N(2, U64))), Give(Length(V("u", String)))>>),
     WithText(U64, <<Declare("i", U64, N(1, U64)), Declare("u", String, Slice3(s, V("i", U64), N(3, U64))), Give(Length(V("u", String)))>>),
     WithText(U64, <<Declare("u", String, Slice3(s, NoExpr, NoExpr)), Give(Length(V("u", String)))>>),
     WithSlice(I32, <<Set(At1(t32, N(1, I64), I32), N(9, I32)), Give(Plus(At1(a32, N(1, I64), I32), At1(t32, N(3, I64), I32)))>>),
     WithSlice(U64, <<Give(Length(t32))>>),
     WithSlice(I32, <<Give(Un("deref", Member8(t32, 0, PI32), I32))>>),
     WithSlice(I32, <<Declare("i", I64, N(1, I64)), Give(At1(t32, i64, I32))>>),
     WithSlice(I32, <<Declare("u", SI32, Slice3(t32, N(1, U64), N(3, U64))), Give(At1(V("u", SI32), N(1, I64), I32))>>),
     WithText(Char, <<Give(Call(2, <<s>>, Char))>>) \o <<Func(<<String>>, Char, <<Give(At1(P(0, String), N(1, I64), Char))>>)>>,
     WithText(U64, <<Give(Call(2, <<s>>, U64))>>) \o <<Func(<<String>>, U64, <<Give(Length(P(0, String)))>>)>>,
     WithText(U64, <<Declare("u", String, Call(2, <<s>>, String)), Give(Length(V("u", String)))>>)
        \o <<Func(<<String>>, String, <<Declare("v", String, Slice3(P(0, String), N(1, U64), NoExpr)), Give(V("v", String))>>)>> >>

\* Structs: with gaps between the fields, nested, behind pointers, and small.
S == Struct(<<I8, I64, I32>>)
T == Struct(<<I16, S>>)
Small == Struct(<<I8, I32>>)
U == Struct(<<I32, Pointer(S)>>)
F(e, i) == [k |-> "field", e |-> e, i |-> i, ty |-> (IF e.ty.k = "ptr" THEN e.ty.to ELSE e.ty).fields[i]]
vs == V("v", S)
Filled(v) == <<Set(F(v, 1), N(1, I8)), Set(F(v, 2), N(1000, I64)), Set(F(v, 3), N(9, I32))>>
WithS(ret, body) == <<Main(ret, <<Declare("v", S, NoExpr)>> \o Filled(vs) \o body)>>
ptrS == V("p", Pointer(S))

Structs ==
  << WithS(I64, <<Give(F(vs, 2))>>),
     WithS(I8, <<Give(F(vs, 1))>>),
     WithS(I32, <<Declare("w", S, vs), Set(F(vs, 3), N(1, I32)), Give(F(V("w", S), 3))>>),
     WithS(I64, <<Declare("p", Pointer(S), Addr(vs)), Set(F(ptrS, 2), N(7, I64)), Give(Plus(F(vs, 2), F(ptrS, 2)))>>),
     WithS(I32, <<Declare("t", T, NoExpr), Set(F(V("t", T), 2), vs), Give(F(F(V("t", T), 2), 3))>>),
     WithS(I32, <<Declare("u", U, NoExpr), Set(F(V("u", U), 2), Addr(vs)), Set(F(F(V("u", U), 2), 3), N(2, I32)), Give(F(vs, 3))>>),
     WithS(I64, <<Declare("w", S, Deref(Addr(vs))), Give(F(V("w", S), 2))>>),
     WithS(I32, <<Give(Call(2, <<vs, N(3, I32)>>, I32))>>) \o <<Func(<<S, I32>>, I32, <<Give(Plus(F(P(0, S), 3), P(1, I32)))>>)>>,
     WithS(I32, <<Declare("w", S, Call(2, <<vs>>, S)), Give(Plus(F(vs, 3), F(V("w", S), 3)))>>)
        \o <<Func(<<S>>, S, <<Set(F(P(0, S), 3), N(30, I32)), Give(P(0, S))>>)>>,
     WithS(I32, <<Declare("w", S, Call(2, <<N(1, I32), N(2, I32), N(3, I32), vs, N(20, I32)>>, S)), Give(F(V("w", S), 3))>>)
        \o <<Func(<<I32, I32, I32, S, I32>>, S, <<Set(F(P(3, S), 3), Plus(P(4, I32), P(2, I32))), Give(P(3, S))>>)>>,
     <<Main(I32, <<Declare("x", I64, N(5, I64)), Declare("v", Small, NoExpr), Set(F(V("v", Small), 2), N(9, I32)),
                   Declare("w", Small, V("v", Small)), Give(F(V("w", Small), 2))>>)>>,
     <<Main(I32, <<Declare("v", Small, NoExpr), Set(F(V("v", Small), 2), N(9, I32)), Give(Call(2, <<V("v", Small)>>, I32))>>),
       Func(<<Small>>, I32, <<Give(F(P(0, Small), 2))>>)>> >>

\* Less than 8 bytes, and no multiple of 8.
Tiny == Struct(<<I16, I16>>)
Odd == Struct(<<I32, I32, I32>>)

Sizes ==
  << <<Main(I16, <<Declare("x", I32, N(5, I32)), Declare("v", Tiny, NoExpr), Set(F(V("v", Tiny), 1), N(3, I16)),
                   Declare("w", Tiny, V("v", Tiny)), Give(F(V("v", Tiny), 1))>>)>>,
     <<Main(I32, <<Declare("v", Tiny, NoExpr), Call(2, <<V("v", Tiny)>>, Void), Give(N(1, I32))>>),
       Func(<<Tiny>>, Void, <<Declare("w", Tiny, P(0, Tiny)), [k |-> "return", e |-> NoExpr]>>)>>,
     <<Main(I32, <<Declare("v", Odd, NoExpr), Set(F(V("v", Odd), 3), N(3, I32)), Declare("w", Odd, NoExpr),
                   Set(F(V("w", Odd), 3), N(5, I32)), Set(Deref(Addr(V("w", Odd))), V("v", Odd)), Give(F(V("w", Odd), 3))>>)>> >>

\* More arguments than registers, of every width, and calls within calls.
Six == <<I8, I16, I32, I64, I16, I32>>
Calls3 ==
  << <<Main(I32, <<Give(Call(2, [i \in 1 .. 6 |-> N(1, Six[i])], I32))>>),
       Func(Six, I32, <<Give(Plus(P(2, I32), P(5, I32)))>>)>>,
     <<Main(I16, <<Declare("x", I16, N(3, I16)), Give(Call(2, [i \in 1 .. 6 |-> IF i = 5 THEN V("x", I16) ELSE N(i % 2, Six[i])], I16))>>),
       Func(Six, I16, <<Set(P(4, I16), Plus(P(4, I16), P(1, I16))), Give(P(4, I16))>>)>>,
     Body32(<<Give(Plus(Call(2, <<x32, y32>>, I32), Call(2, <<y32, Call(2, <<x32, x32>>, I32)>>, I32)))>>)
        \o <<Func(<<I32, I32>>, I32, <<Declare("x", I32, Bin("sum", "SUB", P(0, I32), P(1, I32), I32)), Give(Call(3, <<x32>>, I32))>>),
             Func(<<I32>>, I32, <<Give(Plus(P(0, I32), N(1, I32)))>>)>>,
     Body32(<<Call(2, <<>>, Void), Give(x32)>>) \o <<Func(<<>>, Void, <<[k |-> "return", e |-> NoExpr]>>)>>,
     Body32(<<Give(Call(2, <<x32, Set(x32, N(1, I32))>>, I32))>>)
        \o <<Func(<<I32, I32>>, I32, <<Give(Bin("sum", "SUB", P(0, I32), P(1, I32), I32))>>)>> >>

MCPrograms == Casts \o Sums \o Comparisons \o Expressions \o Pointers \o Arrays \o Slices \o Structs \o Sizes \o Calls3
=============================================================================
