----------------------------- MODULE MCX86Layout -----------------------------
(* X86Layout on the chains that conditionals and loops make, with calls forth *)
(* and back.                                                                  *)
EXTENDS X86Layout

Bytes(n) == [op |-> "code", n |-> n]
Branch(b) == [op |-> "branch", to |-> b]
Cond(n, then, else) == [op |-> "cond", n |-> n, then |-> then, else |-> else]
CallOf(f) == [op |-> "invoke", n |-> 4, fn |-> f]
Ret == [op |-> "return", n |-> 5]

Native(was) == [kind |-> "native", head |-> 13, tail |-> 0, was |-> was, blocks |-> <<>>]
Missing == [kind |-> "native", head |-> 0, tail |-> 0, was |-> Invalid, blocks |-> <<>>]
Extern == [kind |-> "extern", head |-> 0, tail |-> 0, was |-> Invalid, blocks |-> <<>>]
Function(blocks) == [kind |-> "code", head |-> 20, tail |-> 15, was |-> Invalid, blocks |-> blocks]

Straight(op) == Function(<<<<op, Ret>>>>)

\* A conditional with both parts.
IfElse(n, op) ==
    Function(<<<<Cond(n, 2, 3)>>, <<op, Branch(4)>>, <<Bytes(3), Branch(4)>>, <<Ret>>>>)

\* A loop: condition, body of n bytes and op, break, end; the break, when there is
\* one, leaves a block behind it that nothing branches to.
Loop(n, op) ==
    Function(<<<<Bytes(1)>>, <<Cond(0, 3, 5)>>, <<Bytes(n), op, Branch(2)>>, <<>>, <<Ret>>>>)
LoopWithBreak(n) ==
    Function(<<<<>>, <<Cond(3, 3, 6)>>, <<Bytes(n), Branch(5)>>, <<Branch(2)>>, <<>>, <<Ret>>>>)

\* A condition that goes on to its else block.
Inverted(n) == Function(<<<<Cond(n, 3, 2)>>, <<Bytes(1)>>, <<Ret>>>>)

\* Around the distances at which a jump back is one of a byte.
Sizes == {0, 100} \union 108 .. 126

Callee(f) == {Bytes(2), CallOf(f)}
First == {Loop(n, Bytes(0)) : n \in Sizes} \union {LoopWithBreak(n) : n \in {0, 200}}
    \union {IfElse(n, op) : n \in {0, 3}, op \in Callee(2)} \union {Inverted(0)}
    \union {Straight(CallOf(f)) : f \in 1 .. 3}
Second == {Loop(110, op) : op \in Callee(1) \union Callee(3)}
    \union {Straight(op) : op \in Callee(1) \union Callee(2)} \union {Inverted(3)}

\* The last: a native that was called at compile time, behind a function and before one.
MCPrograms == {<<f, g, Native(Invalid)>> : f \in First, g \in Second}
    \union {<<Native(was), Extern, Straight(CallOf(1)), Straight(CallOf(4))>> : was \in {Invalid, 0, 40}}
    \union {<<Straight(CallOf(2)), Missing>>}
    \union {<<Straight(CallOf(2)), Native(0), Straight(CallOf(2))>>}

\* A return that is not the end of its function.
EarlyReturns == {<<Function(<<<<Cond(0, 2, 3)>>, <<Ret, Branch(3)>>, <<Bytes(1), Ret>>>>)>>}
=============================================================================
