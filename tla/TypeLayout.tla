----------------------------- MODULE TypeLayout -----------------------------
(***************************************************************************)
(* Types (src/ast.h) with the size and alignment in bytes the target gives *)
(* them: x86_64_get_layout of backends/x86_64.c, which places the fields of*)
(* a struct with ir_calculate_struct_offsets of backends/ir.c.             *)
(* Floats and named types, which stand for another type, are left out.     *)
(***************************************************************************)
EXTENDS Integers, SequencesExt

SignedOf(w) == [k |-> "int", w |-> w]
UnsignedOf(w) == [k |-> "uint", w |-> w]
Char == [k |-> "char", w |-> 8]
Bool == [k |-> "bool", w |-> 1]
Pointer(t) == [k |-> "ptr", to |-> t]
Array(t, n) == [k |-> "array", of |-> t, n |-> n]
Struct(fields) == [k |-> "struct", fields |-> fields]
Slice(t) == [k |-> "slice", of |-> t]
String == [k |-> "string"]
Void == [k |-> "void"]

Larger(a, b) == IF a < b THEN b ELSE a

Aligned(n, a) == ((n + a - 1) \div a) * a

(***************************************************************************)
(* The numbers of w bits.  In the model a byte has two bits, so that       *)
(* arithmetic stays within TLC's integers: 8, 16, 32 and 64 bits stand for *)
(* the numbers below 4, 16, 256 and 65536, and the boundaries are as far   *)
(* apart as they are in bytes.                                             *)
(***************************************************************************)
Values(w) == 4 ^ ((w + 7) \div 8)

Signed(n, w) == IF n < Values(w) \div 2 THEN n ELSE n - Values(w)

\* A quotient, rounded toward zero.
Toward0(x, y) ==
    LET q == (IF x < 0 THEN -x ELSE x) \div (IF y < 0 THEN -y ELSE y)
    IN IF (x < 0) = (y < 0) THEN q ELSE -q

\* max(size, alignment): what one value takes in an array, a struct or a frame.
StrideOf(l) == Larger(l.size, l.align)

RECURSIVE Layout(_)

\* ir_calculate_struct_offsets, with the end of the last field.
Fields(fields) ==
    LET Place(p, t) ==
            LET l == Layout(t)
                at == Aligned(p.next, l.align)
            IN [offsets |-> Append(p.offsets, at),
                next |-> Aligned(at + StrideOf(l), l.align),
                align |-> Larger(p.align, l.align)]
    IN FoldLeft(Place, [offsets |-> <<>>, next |-> 0, align |-> 1], fields)

\* x86_64_get_layout
Layout(t) ==
    CASE t.k \in {"int", "uint", "char"} -> [size |-> t.w \div 8, align |-> t.w \div 8]
      [] t.k = "ptr" -> [size |-> 8, align |-> 8]
      [] t.k = "array" ->
            LET l == Layout(t.of) IN [size |-> StrideOf(l) * t.n, align |-> l.align]
      [] t.k \in {"string", "slice"} -> [size |-> 16, align |-> 8]
      [] t.k = "struct" ->
            LET f == Fields(t.fields)
            IN IF t.fields = <<>> THEN [size |-> 0, align |-> 1]
               ELSE [size |-> Aligned(f.next, f.align), align |-> f.align]
      [] OTHER -> [size |-> 0, align |-> 1]

Stride(t) == StrideOf(Layout(t))

\* is_large_aggregate_type: passed and returned by address.
IsLarge(t) ==
    \/ t.k \in {"slice", "string"}
    \/ t.k \in {"struct", "array"} /\ Stride(t) > 8
=============================================================================
