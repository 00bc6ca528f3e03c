----------------------------- MODULE IrOperands -----------------------------
(***************************************************************************)
(* The operands of the IR (backends/ir.h): a kind t in the upper bits, and *)
(* a number n in the lower ones.                                           *)
(***************************************************************************)
EXTENDS Naturals

CONSTANT ImmediateLimit     \* first integer that is no immediate operand

ASSUME ImmediateAssumption == ImmediateLimit \in Nat

Imm(v) == [t |-> "imm", n |-> v]
Reg(r) == [t |-> "reg", n |-> r]
Local(i) == [t |-> "local", n |-> i]
Parameter(i) == [t |-> "param", n |-> i]
Literal64(i) == [t |-> "lit", n |-> i]
Data(i) == [t |-> "data", n |-> i]
None == [t |-> "none", n |-> 0]

\* F(x), with x computed first: TLC defers an argument to where it is used, and
\* a whole program is too deep for that.
Strict(F(_), x) == CHOOSE y \in {F(z) : z \in {x}} : TRUE
=============================================================================
