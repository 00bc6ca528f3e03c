---------------------------- MODULE MCInstances -----------------------------
(***************************************************************************)
(* Programs for Instances: one or two functions, and a main that calls     *)
(* them.                                                                   *)
(***************************************************************************)
EXTENDS Instances

\* The hashes of 6 and 36 end in the same byte.
MCArrays == {"[6]", "[36]", "[3]", "[:]"}
MCArrayClass == [a \in MCArrays |-> CASE a \in {"[6]", "[36]"} -> "bucket 60" [] a = "[3]" -> "another" [] OTHER -> "slice"]

Type(base, wraps) == [base |-> base, wraps |-> wraps]
IntType == Type("int", <<>>)
LongType == Type("long", <<>>)
Param(type) == [type |-> type, named |-> TRUE, default |-> FALSE]
Default(type) == [type |-> type, named |-> TRUE, default |-> TRUE]
JustType == [type |-> Type("T", <<>>), named |-> FALSE, default |-> FALSE]
Value(type) == [type |-> type, passes |-> "value", key |-> 0]
Address(type) == [type |-> type, passes |-> "address", key |-> 0]
TypeName(type) == [type |-> type, passes |-> "type", key |-> 0]
Call(callee, args) == [callee |-> callee, method |-> FALSE, args |-> args]
Method(callee, args) == [callee |-> callee, method |-> TRUE, args |-> args]
Function(params, body) == [params |-> params, calls |-> body]
Main(body) == Function(<<>>, body)

\* What can be passed for one parameter.
Variables == {IntType, LongType, Type("int", <<"*">>), Type("int", <<"[6]">>), Type("int", <<"[36]">>),
              Type("int", <<"[3]">>), Type("long", <<"[6]">>)}
Given == {<<Value(t)>> : t \in Variables}
         \union {<<Address(t)>> : t \in {IntType, Type("int", <<"[6]">>), Type("long", <<"[6]">>)}} \union {<<TypeName(IntType)>>}

OneParameter ==
    {<<Param(Type("T", wraps))>> : wraps \in {<<>>, <<"*">>, <<"[6]">>, <<"[6]", "*">>, <<"[N]">>, <<"[:]">>}}
    \union {<<JustType>>, <<Param(IntType)>>, <<Param(LongType)>>, <<Param(Type("int", <<"*">>))>>,
            <<Param(Type("long", <<"[6]">>))>>, <<Param(Type("int", <<"[:]">>))>>}

Calls(f) == {Call(f, args) : args \in Given} \union {Method(f, <<Value(t)>>) : t \in Variables}
FewCalls(f) == {Call(f, <<arg>>) : arg \in {Value(IntType), Address(IntType), Address(LongType)}} \union {Method(f, <<Value(IntType)>>), Method(f, <<Value(LongType)>>)}

\* One function, called twice.
Twice == {<<Function(params, <<>>), Main(<<one, other>>)>> : params \in OneParameter, one \in Calls(1), other \in Calls(1)}

\* Two functions that may be of one type, called in turn.
Shared ==
    {<<Function(f, <<>>), Function(g, <<>>), Main(<<one, other, again>>)>> :
        f \in {<<Param(Type("T", <<>>))>>, <<Param(Type("T", <<"*">>))>>},
        g \in {<<Param(Type("T", <<>>))>>, <<Param(Type("T", <<"*">>))>>, <<Param(Type("int", <<"*">>))>>},
        one \in FewCalls(1), other \in FewCalls(2), again \in FewCalls(1)}

\* A function that calls another one, or itself, with what it was called with.
Within ==
    {<<Function(f, <<>>), Function(<<Param(Type("T", <<>>))>>, <<inner, innermost>>), Main(<<one, other, again>>)>> :
        f \in {<<Param(Type("T", <<>>))>>, <<Param(Type("T", <<"*">>))>>, <<Param(IntType)>>},
        inner \in {Call(1, <<Value(Type("T", <<>>))>>), Call(1, <<Address(Type("T", <<>>))>>),
                   Method(1, <<Value(Type("T", <<>>))>>), Call(2, <<Value(Type("T", <<>>))>>)},
        innermost \in {Call(1, <<Value(IntType)>>), Call(1, <<Value(Type("T", <<"[6]">>))>>)},
        one \in {Call(2, <<Value(IntType)>>), Call(1, <<Value(IntType)>>)},
        other \in {Call(2, <<Value(t)>>) : t \in {IntType, LongType, Type("int", <<"*">>)}},
        again \in {Call(1, <<Value(IntType)>>), Call(2, <<Address(IntType)>>)}}

\* Three parameters, and every way to give them up to three arguments.
Keyed == [type : {IntType}, passes : {"value"}, key : 0 .. 3]
KeyedArgs == UNION {[1 .. n -> Keyed] : n \in 0 .. 3}
ByKey ==
    {<<Function(params, <<>>), Main(<<Call(1, args)>>)>> :
        params \in {<<Param(IntType), Default(IntType), Default(LongType)>>,
                    <<Param(IntType), Param(LongType), Default(IntType)>>,
                    <<Param(Type("T", <<>>)), Param(LongType), Param(Type("S", <<>>))>>},
        args \in KeyedArgs}

\* Two parameters of one generic.
Repeated ==
    {<<Function(<<Param(Type("T", one)), Param(Type("T", other))>>, <<Call(1, <<Value(Type("T", <<>>)), arg>>)>>), Main(<<Call(1, <<first, second>>)>>)>> :
        one \in {<<>>, <<"*">>}, other \in {<<>>, <<"*">>}, arg \in {Value(Type("T", <<>>)), Address(Type("T", <<>>))},
        first \in {Value(IntType), Value(LongType), Address(IntType)}, second \in {Value(IntType), Address(LongType)}}

\* Two functions of one type, the second declared when calls have changed the
\* type of the first.
Later ==
    {<<Function(<<Param(Type("T", <<"*">>))>>, <<>>), Main(<<one, other>>),
       Function(<<Param(Type("T", <<"*">>))>>, <<>>), Main(<<another, again>>)>> :
        one \in FewCalls(1), other \in FewCalls(1), another \in FewCalls(3), again \in FewCalls(1)}

MCPrograms == [fns : Twice \union Shared \union Within \union ByKey \union Repeated \union Later, collide : BOOLEAN]
=============================================================================
