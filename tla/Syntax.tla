------------------------------- MODULE Syntax -------------------------------
(***************************************************************************)
(* What a syntax tree looks like, and how it is written: the reference for *)
(* Parser.  A tree is written with parentheses only where precedence would *)
(* make another tree of it.                                                *)
(***************************************************************************)
EXTENDS Naturals, SequencesExt

Node(kind, token, children) == [kind |-> kind, token |-> token, children |-> children]
Null == Node("null", "", <<>>)
Garbage == Node("garbage", "", <<>>)    \* a pointer never set
Ident(name) == Node("ident", name, <<>>)

Assigns == {"=", "+="}

\* How tight an operator binds.
Precedence(op) ==
    CASE op \in Assigns -> 20
      [] op = "||" -> 40
      [] op = "&&" -> 50
      [] op = "|" -> 60
      [] op = "^" -> 70
      [] op = "&" -> 80
      [] op \in {"==", "!="} -> 90
      [] op \in {"<", ">", "<=", ">="} -> 100
      [] op \in {"+", "-"} -> 120
      [] op \in {"*", "/", "%"} -> 130
      [] op = "." -> 160
PointerPrecedence == Precedence("*")
PrefixPrecedence == 140
PostfixPrecedence == 150
ArgumentPrecedence == 30
Closed == 1000

Lesser(a, b) == IF a < b THEN a ELSE b
PostfixKinds == {"index", "slice", "invoke"}
GreedyKinds == {"if", "for", "while", "const", "return", "break", "continue", "generic"}

\* The loosest operator in reach from the left, and the tightest that what
\* follows the tree must not exceed, or its last operand takes it.
RECURSIVE LeftLoosest(_), RightLimit(_), TextOf(_)
LeftLoosest(n) ==
    CASE n.kind = "binary" -> Lesser(Precedence(n.token), LeftLoosest(n.children[1]))
      [] n.kind = "pointer" -> Lesser(PointerPrecedence, LeftLoosest(n.children[1]))
      [] n.kind \in PostfixKinds -> Lesser(PostfixPrecedence, LeftLoosest(n.children[1]))
      [] OTHER -> Closed
RightLimit(n) ==
    CASE n.kind = "binary" -> Lesser(Precedence(n.token) + 1, RightLimit(n.children[2]))
      [] n.kind = "prefix" -> Lesser(PrefixPrecedence, RightLimit(n.children[1]))
      [] n.kind = "cast" -> Lesser(PostfixPrecedence, RightLimit(n.children[2]))
      [] n.kind \in GreedyKinds -> 0
      [] OTHER -> Closed

Parenthesized(n, needed) == IF needed THEN <<"(">> \o TextOf(n) \o <<")">> ELSE TextOf(n)
LeftOf(n, precedence) == Parenthesized(n, RightLimit(n) <= precedence)
RightOf(n, precedence) == Parenthesized(n, LeftLoosest(n) <= precedence)
AtLeast(n, precedence) == Parenthesized(n, LeftLoosest(n) < precedence)

JoinedText(ns) == FlattenSeq([i \in DOMAIN ns |-> TextOf(ns[i])])

\* A list, whose elements are as tight as that, or pairs.
Commas(ns, precedence) ==
    LET Element(n) == IF n.kind = "pair"
                      THEN AtLeast(n.children[1], precedence) \o <<"=">> \o TextOf(n.children[2])
                      ELSE AtLeast(n, precedence)
    IN FlattenSeq([i \in DOMAIN ns |-> (IF i = 1 THEN <<>> ELSE <<",">>) \o Element(ns[i])])

\* A declaration up to its name: `macro' stands behind the type.
Declared(n) ==
    LET IsMacro(c) == c.token = "macro"
        storage == n.children[1].children
    IN JoinedText(SelectSeq(storage, LAMBDA c : ~IsMacro(c))) \o TextOf(n.children[2])
          \o JoinedText(SelectSeq(storage, IsMacro)) \o TextOf(n.children[3])

\* A statement in a block.
BlockKinds == {"block", "struct", "function", "variable"}
Semicolon(n) ==
    CASE n.kind \in {"struct", "variable"} -> <<>>
      [] n.kind = "block" -> IF n.token = "do" THEN <<";">> ELSE <<>>
      [] n.kind = "function" -> <<>>
      [] n.kind = "const" -> IF n.children[1].kind = "block" /\ n.children[1].token = "" THEN <<>> ELSE <<";">>
      [] n.kind \in {"for", "while"} -> IF Last(n.children).kind = "block" THEN <<>> ELSE <<";">>
      [] n.kind = "if" ->
            LET last == IF n.children[3] = Null THEN n.children[2] ELSE n.children[3]
            IN IF last.kind = "if" \/ (last.kind = "block" /\ (last.token = "" \/ n.children[3] = Null)) THEN <<>> ELSE <<";">>
      [] OTHER -> <<";">>
StatementsText(ns) == FlattenSeq([i \in DOMAIN ns |-> TextOf(ns[i]) \o Semicolon(ns[i])])

TextOf(n) ==
    LET c == n.children
    IN CASE n.kind \in {"null", "garbage"} -> <<>>
         [] n.kind \in {"ident", "literal"} -> <<n.token>>
         [] n.kind = "binary" -> LeftOf(c[1], Precedence(n.token)) \o <<n.token>> \o RightOf(c[2], Precedence(n.token))
         [] n.kind = "prefix" -> <<n.token>> \o AtLeast(c[1], PrefixPrecedence)
         [] n.kind = "pointer" -> LeftOf(c[1], PointerPrecedence) \o <<"*">>
         [] n.kind = "index" -> LeftOf(c[1], PostfixPrecedence) \o <<"[">> \o TextOf(c[2]) \o <<"]">>
         [] n.kind = "slice" -> LeftOf(c[1], PostfixPrecedence) \o <<"[">> \o TextOf(c[2]) \o <<":">> \o TextOf(c[3]) \o <<"]">>
         [] n.kind = "invoke" -> LeftOf(c[1], PostfixPrecedence) \o <<"(">> \o Commas(Tail(c), ArgumentPrecedence) \o <<")">>
         [] n.kind = "cast" -> <<"cast", "(">> \o TextOf(c[1]) \o <<")">> \o AtLeast(c[2], PostfixPrecedence)
         [] n.kind = "generic" -> <<"%", n.token>>
         [] n.kind \in {"const", "return", "continue"} -> <<n.kind>> \o TextOf(c[1])
         [] n.kind = "break" ->
               LET value == TextOf(c[1])
                   asTarget == value # <<>> /\ Head(value) \in {"do", "for", "while"}
               IN <<"break">> \o (IF n.token # "" THEN <<n.token>> \o value ELSE Parenthesized(c[1], asTarget))
         [] n.kind = "initializer" -> <<"{">> \o Commas(c, Closed) \o <<"}">>
         [] n.kind = "array" -> <<"[">> \o Commas(c, ArgumentPrecedence) \o <<"]">>
         [] n.kind = "if" -> <<"if">> \o Parenthesized(c[1], RightLimit(c[1]) = 0) \o TextOf(c[2]) \o (IF c[3] = Null THEN <<>> ELSE <<"else">> \o Parenthesized(c[3], c[3].kind # "block" /\ Head(TextOf(c[3])) = "{"))
         [] n.kind = "while" -> <<"while">> \o JoinedText(c)
         [] n.kind = "for" -> <<"for">> \o (IF c[1] = Null THEN <<";">> ELSE TextOf(c[1]))
                                 \o TextOf(c[2]) \o <<";">> \o TextOf(c[3]) \o TextOf(c[4])
         [] n.kind = "block" -> (IF n.token = "do" THEN <<"do">> ELSE <<>>) \o <<"{">> \o StatementsText(c) \o <<"}">>
         [] n.kind = "struct" -> <<"struct">> \o TextOf(c[1]) \o <<"{">> \o StatementsText(Tail(c)) \o <<"}">>
         [] n.kind = "variable" -> Declared(n) \o (IF c[4] = Null THEN <<>> ELSE <<"=">> \o TextOf(c[4])) \o <<";">>
         [] n.kind = "parameter" -> (IF n.token = ".." THEN <<"..">> ELSE <<>>) \o TextOf(c[1]) \o TextOf(c[2])
                                       \o (IF c[3] = Null THEN <<>> ELSE <<"=">> \o TextOf(c[3]))
         [] n.kind = "function" -> Declared(n) \o <<"(">> \o Commas(SubSeq(c, 5, Len(c)), 0) \o <<")">>
                                       \o (IF c[4] = Null THEN <<";">> ELSE TextOf(c[4]))

\* A file is a block without braces.
FileText(n) == StatementsText(n.children)
=============================================================================
