----------------------------- MODULE AstMeaning -----------------------------
(***************************************************************************)
(* What the programs of IrGen mean, by the structure of their source: the  *)
(* reference for the IR and its evaluation.                                *)
(*                                                                         *)
(* A state is the values of the variables, and how control goes on: "go",  *)
(* "break" out of `out' constructs, or "return", with the value they carry.*)
(***************************************************************************)
EXTENDS Naturals, SequencesExt

Start == [var |-> <<>>, sig |-> "go", out |-> 0, val |-> 0]

\* A construct that a break may leave has been left from state s.
Left(s) ==
    IF s.sig # "break" THEN s
    ELSE IF s.out > 1 THEN [s EXCEPT !.out = @ - 1] ELSE [s EXCEPT !.sig = "go", !.out = 0]

RECURSIVE Eval(_, _, _, _), Exec(_, _, _, _), ExecAll(_, _, _, _), Loop(_, _, _, _)

\* The value of a two-sided expression; the side named first is evaluated first.
Both(p, args, first, second, s) ==
    LET a == Eval(p, args, first, s)
    IN [a |-> a.v, rest |-> Eval(p, args, second, a.s)]

\* Statements up to the first that does not go on.
ExecAll(p, args, body, s) ==
    IF body = <<>> \/ s.sig # "go" THEN s
    ELSE ExecAll(p, args, Tail(body), Exec(p, args, Head(body), s))

\* The turns of a loop from its condition on.
Loop(p, args, e, s) ==
    LET cond == Eval(p, args, e.cond, s)
        body == ExecAll(p, args, e.body, cond.s)
    IN IF s.sig # "go" \/ cond.v = 0 THEN cond.s
       ELSE IF body.sig # "go" THEN body
       ELSE Loop(p, args, e, ExecAll(p, args, e.update, body))

Function(p, f, args) == ExecAll(p, args, p.fns[f], Start).val

Eval(p, args, e, s) ==
    CASE e.k = "none" -> [s |-> s, v |-> 0]
      [] e.k = "int" -> [s |-> s, v |-> e.v]
      [] e.k = "var" -> [s |-> s, v |-> s.var[e.name]]
      [] e.k = "param" -> [s |-> s, v |-> args[e.i + 1]]
      [] e.k = "sum" ->
            LET r == Both(p, args, e.l, e.r, s) IN [s |-> r.rest.s, v |-> r.a + r.rest.v]
      [] e.k = "less" ->
            LET r == Both(p, args, e.r, e.l, s) IN [s |-> r.rest.s, v |-> IF r.rest.v < r.a THEN 1 ELSE 0]
      [] e.k = "assign" ->
            LET r == Eval(p, args, e.e, s)
            IN [s |-> IF r.s.sig = "go" THEN [r.s EXCEPT !.var[e.name] = r.v] ELSE r.s, v |-> r.v]
      [] e.k = "invoke" ->
            [s |-> s, v |-> Function(p, e.fn, [i \in DOMAIN e.args |-> Eval(p, args, e.args[i], s).v])]
      [] e.k = "do" -> LET r == Left(ExecAll(p, args, e.body, s)) IN [s |-> r, v |-> r.val]
      [] e.k = "loop" ->
            LET r == Left(Loop(p, args, e, ExecAll(p, args, e.init, s))) IN [s |-> r, v |-> r.val]

Exec(p, args, st, s) ==
    CASE st.k = "declare" ->
            LET r == Eval(p, args, st.e, s)
            IN IF r.s.sig = "go" THEN [r.s EXCEPT !.var = (st.name :> r.v) @@ @] ELSE r.s
      [] st.k = "block" -> Left(ExecAll(p, args, st.body, s))
      [] st.k = "if" ->
            LET r == Eval(p, args, st.cond, s)
            IN ExecAll(p, args, IF r.v # 0 THEN st.body ELSE st.else, r.s)
      [] st.k = "break" ->
            LET r == Eval(p, args, st.e, s)
            IN IF r.s.sig = "go" THEN [r.s EXCEPT !.sig = "break", !.out = st.out, !.val = r.v] ELSE r.s
      [] st.k = "return" ->
            LET r == Eval(p, args, st.e, s)
            IN IF r.s.sig = "go" THEN [r.s EXCEPT !.sig = "return", !.val = r.v] ELSE r.s
      [] OTHER -> Eval(p, args, st, s).s

\* The value of the constant of program p.
Meaning(p) == Eval(p, <<>>, p.constant, Start).v
=============================================================================
