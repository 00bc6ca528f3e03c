------------------------------- MODULE Parser -------------------------------
(***************************************************************************)
(* The parser (src/parser.c) on the one-token buffer of the lexer          *)
(* (src/lexer.c): recursive descent, with precedence climbing for          *)
(* expressions.  The text of a file is the sequence of its tokens, and a   *)
(* function of the parser is an operator from a parser to a parser, whose  *)
(* `node' is what the function returns.                                    *)
(*                                                                         *)
(* The parser prints errors and goes on.  Three things stop it: a loop     *)
(* that does not move on (it runs for ever: all it depends on is where it  *)
(* is), an assertion, and a token variable that is read at the end of the  *)
(* file before anything was stored in it, after which anything may happen. *)
(***************************************************************************)
EXTENDS Syntax

CONSTANTS
    Families,   \* of files
    Members(_), \* the files of a family: [text, ends (in white space), tree (what was meant, or Null)],
                \* and what they were lexed from (SourceText)
    Names       \* identifiers that are no keywords

VARIABLES
    source,     \* the file
    result      \* the parser when it is done; before, Unread

vars == <<source, result>>

text == source.text

StorageClasses == <<"extern", "native", "const", "macro">>
Storage(classes) == Node("storage", "", SelectSeq([i \in 1 .. 4 |-> Ident(StorageClasses[i])], LAMBDA c : c.token \in classes))
Keywords == {"if", "else", "for", "while", "do", "const", "return", "break", "continue",
             "cast", "struct", "extern", "native", "macro"}
Identifiers == Names \union Keywords
Literals == {"1"}

-----------------------------------------------------------------------------
(***************************************************************************)
(* The buffer.                                                             *)
(***************************************************************************)

\* lexer_peek_token finds nothing at the end, and at a character that starts no token.
AtEnd(s) == s.at > Len(text) \/ text[s.at] = "junk"
Tok(s) == IF AtEnd(s) THEN "end" ELSE text[s.at]

\* PEEK into a variable that holds `old': at the end it keeps it.
TokOver(s, old) == IF AtEnd(s) THEN old ELSE text[s.at]

Running(s) == s.stop = ""
Stop(s, why) == IF Running(s) THEN [s EXCEPT !.stop = why] ELSE s
Complain(s) == IF Running(s) THEN [s EXCEPT !.said = TRUE] ELSE s
With(s, node) == IF Running(s) THEN [s EXCEPT !.node = node] ELSE s

\* The parser at a token: lexer_next_token asserts that an identifier is not
\* the last of the file, and may stop inside of a string.
LexerStops == {"asserts", "undefined"}
LexerStop(last) ==
    CASE last \in LexerStops -> last
      [] last \in Identifiers /\ ~source.ends -> "asserts"
      [] OTHER -> ""
Start(at) == [at |-> at, said |-> FALSE, node |-> Null, stop |-> IF at = Len(text) THEN LexerStop(text[at]) ELSE ""]

\* Mutant: consumes what is not there.
ConsumeBlindly(s) == IF Running(s) THEN [s EXCEPT !.at = @ + 1] ELSE s

lexer_consume(s) ==
    IF Running(s) /\ ~AtEnd(s)
    THEN [s EXCEPT !.at = @ + 1, !.stop = Start(s.at + 1).stop]
    ELSE s

\* A fresh variable is read where there is no token.
NeedsToken(s) == IF AtEnd(s) THEN Stop(s, "undefined") ELSE s

unexpected_token(s) == With(Complain(NeedsToken(s)), Null)

expect_token(s, tokens) ==
    IF Tok(s) \in tokens THEN lexer_consume(s) ELSE Complain(NeedsToken(s))
Expect(s, token) == expect_token(s, {token})

\* A loop that came back to where it was will do so again.
MovedOn(before, after) == IF after.at = before.at THEN Stop(after, "hangs") ELSE after
-----------------------------------------------------------------------------
(***************************************************************************)
(* Precedences.                                                            *)
(***************************************************************************)
get_binary_precedence(token, stmt) ==
    CASE token \in Assigns -> 20
      [] token = "||" -> 40
      [] token = "&&" -> 50
      [] token = "|" -> 60
      [] token = "^" -> 70
      [] token = "&" -> 80
      [] token \in {"==", "!="} -> IF stmt THEN 0 ELSE 90
      [] token \in {"<", ">", "<=", ">="} -> IF stmt THEN 0 ELSE 100
      [] token \in {"+", "-"} -> IF stmt THEN 0 ELSE 120
      [] token \in {"*", "/", "%"} -> IF stmt THEN 0 ELSE 130
      [] token = "." -> 160
      [] OTHER -> 0

get_postfix_precedence(token) ==
    CASE token \in {"*", "[", "("} -> 150
      [] token = "cast" -> 160
      [] OTHER -> 0

\* After these a `*' is no multiplication but makes a pointer type.
AfterPointer == {"*", "[", "%", ")", "}", ";", ".", ","}

\* The functions call one another: each call is one of Parse, at the end.
RECURSIVE Parse(_, _)
Statement(s, storage) == Parse([rule |-> "statement", storage |-> storage], s)
Block(s) == Parse([rule |-> "block"], s)
Struct(s) == Parse([rule |-> "struct"], s)
Declaration(s, type, storage) == Parse([rule |-> "declaration", type |-> type, storage |-> storage], s)
Operand(s, left, last, stmt) == Parse([rule |-> "expression", left |-> left, last |-> last, stmt |-> stmt], s)
Expression(s) == Operand(s, Null, 0, FALSE)
TypeOrCall(s) == Operand(s, Null, 0, TRUE)
Statements(s, list) == Parse([rule |-> "statements", list |-> list], s)
List(s, kind, close, list) == Parse([rule |-> "list", kind |-> kind, close |-> close, list |-> list], s)
RightOperand(s, precedence) == Parse([rule |-> "right", precedence |-> precedence], s)
Operators(s, last, stmt) == Parse([rule |-> "operators", last |-> last, stmt |-> stmt], s)
Primary(s, stmt) == Parse([rule |-> "primary", stmt |-> stmt], s)
-----------------------------------------------------------------------------
(***************************************************************************)
(* Lists: the elements up to a closing token, separated by commas.         *)
(***************************************************************************)
Pair(s, key) == LET value == Expression(s)
                IN With(value, Node("pair", "", <<key, value.node>>))

\* An argument: `x' or `x = y'.
Argument(s) ==
    LET key == Operand(s, Null, 30, FALSE)
    IN IF Running(key) /\ TokOver(key, Tok(s)) = "=" THEN Pair(lexer_consume(key), key.node) ELSE key

\* A member of an initializer: the key is a primary.
Member(s) ==
    LET key == Primary(s, FALSE)
    IN IF Running(key) /\ TokOver(key, Tok(s)) = "=" THEN Pair(lexer_consume(key), key.node) ELSE key

\* An item of an array: the code looks for `=' in the token the item starts with.
Item(s) ==
    LET key == Operand(s, Null, 30, FALSE)
    IN IF Running(key) /\ Tok(s) = "=" THEN Pair(lexer_consume(key), key.node) ELSE key

parser_parse_parameter(s) ==
    LET start == NeedsToken(s)
        generic == lexer_consume(start)
        named == expect_token(generic, Identifiers)
        type ==
            CASE Tok(s) = ".." -> With(lexer_consume(start), Null)
              [] Tok(s) = "%" -> Operand(named, Node("generic", Tok(generic), <<>>), 0, TRUE)
              [] OTHER -> TypeOrCall(start)
        ident == IF Tok(type) \in Identifiers THEN Ident(Tok(type)) ELSE Null
        after == IF ident # Null THEN lexer_consume(type) ELSE type
        init == IF Tok(after) = "="
                THEN Expression(lexer_consume(after))
                ELSE With(after, Null)
    IN CASE ~Running(start) -> start
         [] Tok(s) = "%" /\ Tok(generic) \notin Identifiers -> With(named, Node("parameter", "", <<Null, Null, Null>>))
         [] OTHER -> With(init, Node("parameter", IF Tok(s) = ".." THEN ".." ELSE "", <<type.node, ident, init.node>>))

Element(s, kind) ==
    CASE kind = "argument" -> Argument(s)
      [] kind = "member" -> Member(s)
      [] kind = "item" -> Item(s)
      [] kind = "parameter" -> parser_parse_parameter(s)

parse_list(s, kind, close, list) ==
    LET e == Element(s, kind)
        next == IF Tok(e) # close THEN Expect(e, ",") ELSE e
    IN CASE ~Running(s) -> s
         [] Tok(s) = close -> With(lexer_consume(s), Node("list", "", list))
         [] OTHER -> List(MovedOn(s, next), kind, close, Append(list, e.node))
-----------------------------------------------------------------------------
(***************************************************************************)
(* Statements and declarations.                                            *)
(***************************************************************************)
\* Mutant: an empty statement is skipped, and its semicolon is left.
SkipEmpty(s, list) ==
    LET e == IF Tok(s) = ";" THEN s ELSE Statement(s, {})
    IN CASE ~Running(s) -> s
         [] Tok(s) = "}" -> With(lexer_consume(s), Node("list", "", list))
         [] OTHER -> Statements(MovedOn(s, e), Append(list, e.node))

parse_statements(s, list) ==
    LET e == Statement(s, {})
    IN CASE ~Running(s) -> s
         [] Tok(s) = "}" -> With(lexer_consume(s), Node("list", "", list))
         [] OTHER -> Statements(MovedOn(s, e), Append(list, e.node))

parser_parse_block(s) ==
    LET do == Tok(s) = "do"
        open == lexer_consume(s)
        body == Statements(IF do THEN Expect(open, "{") ELSE open, <<>>)
    IN With(body, Node("block", IF do THEN "do" ELSE "", body.node.children))

parser_parse_struct(s) ==
    LET kw == lexer_consume(s)
        named == Tok(kw) \in Identifiers
        body == Statements(Expect(IF named THEN lexer_consume(kw) ELSE kw, "{"), <<>>)
    IN With(body, Node("struct", "", <<IF named THEN Ident(Tok(kw)) ELSE Garbage>> \o body.node.children))

\* A statement made of an expression: it ends here, or its expression is the type of a declaration.
TryDeclaration(s, storage) ==
    IF Tok(s) \in Identifiers THEN Declaration(s, s.node, storage) ELSE Expect(s, ";")

parser_parse_statement(s, storage) ==
    LET next == lexer_consume(s)
        e == TypeOrCall(s)
        block == Block(next)
        do == Expression(next)
    IN CASE ~Running(s) -> s
         [] AtEnd(s) -> With(s, Null)
         [] Tok(s) = "{" -> Block(s)
         [] Tok(s) \in {"extern", "native"} -> Statement(next, storage \union {Tok(s)})
         [] Tok(s) = "const" /\ Tok(next) = "{" -> With(block, Node("const", "", <<block.node>>))
         [] Tok(s) = "const" /\ Tok(next) = "do" -> TryDeclaration(With(do, Node("const", "", <<do.node>>)), storage)
         [] Tok(s) = "const" /\ Tok(next) \notin {"{", "do"} -> Statement(next, storage \union {"const"})
         [] Tok(s) = "struct" -> Struct(s)
         [] OTHER -> IF e.node.kind \in {"if", "for", "while"} THEN e ELSE TryDeclaration(e, storage)

\* The parameters and the body of a function, from its name on.
FunctionRest(s) ==
    LET parameters == List(lexer_consume(s), "parameter", ")", <<>>)
        body == IF Tok(parameters) = "{" THEN Block(parameters) ELSE With(Expect(parameters, ";"), Null)
    IN With(body, Node("function", "", <<body.node>> \o parameters.node.children))

\* The initializer of a variable, from its name on.
VariableRest(s) ==
    LET init == Expression(lexer_consume(s))
        value == IF Tok(s) = "=" THEN init ELSE With(s, Null)
    IN With(Expect(value, ";"), Node("variable", "", <<value.node>>))

parser_parse_declaration(s, type, storage) ==
    LET typed == IF type = Null THEN TypeOrCall(s) ELSE With(s, type)
        first == expect_token(typed, Identifiers)
        macro == Tok(typed) = "macro"
        named == IF macro THEN expect_token(first, Identifiers) ELSE first
        ident == IF macro /\ Tok(first) \in Identifiers THEN Tok(first) ELSE Tok(typed)
        rest == IF Tok(named) = "(" THEN FunctionRest(named) ELSE VariableRest(named)
        classes == IF macro THEN storage \union {"macro"} ELSE storage
    IN CASE ~Running(named) -> named
         [] Tok(typed) \notin Identifiers -> With(named, Null)
         [] OTHER -> With(rest, Node(rest.node.kind, "", <<Storage(classes), typed.node, Ident(ident)>> \o rest.node.children))
-----------------------------------------------------------------------------
(***************************************************************************)
(* Expressions.                                                            *)
(***************************************************************************)

\* Mutant: the right operand takes what binds as tight, too.
TakeEqual(s, precedence) ==
    IF Running(s) /\ get_binary_precedence(Tok(s), FALSE) >= precedence
    THEN RightOperand(Operand(s, s.node, precedence, FALSE), precedence)
    ELSE s

\* The right operand takes what binds tighter than the operator before it.
parse_right(s, precedence) ==
    LET post == get_postfix_precedence(Tok(s))
        more == Operand(s, s.node, post, FALSE)
    IN CASE ~Running(s) -> s
         [] get_binary_precedence(Tok(s), FALSE) > precedence ->
               RightOperand(Operand(s, s.node, precedence + 1, FALSE), precedence)
         [] get_binary_precedence(Tok(s), FALSE) <= precedence /\ post > precedence ->
               IF Running(more) /\ more.node = s.node THEN more ELSE RightOperand(more, precedence)
         [] OTHER -> s

\* Mutant: the end of a slice is put where its start belongs.
SubscriptSwapped(s) ==
    LET start == Expression(lexer_consume(s))
        after == lexer_consume(start)
        stop == IF Running(start) /\ Tok(start) = ":" THEN Expression(after) ELSE With(start, Null)
    IN With(Expect(stop, "]"), Node("index", "", <<s.node, stop.node, start.node>>))

Subscript(s) ==
    LET open == lexer_consume(s)
        start == IF Tok(open) \in {"]", ":"} THEN With(open, Null) ELSE Expression(open)
        colon == Running(start) /\ Tok(start) = ":"
        after == lexer_consume(start)
        stop == IF colon /\ Tok(after) # "]" THEN Expression(after)
                ELSE With(IF colon THEN after ELSE start, Null)
    IN With(Expect(stop, "]"), Node(IF colon THEN "slice" ELSE "index", "", <<s.node, start.node, stop.node>>))

Postfix(s) ==
    LET arguments == List(lexer_consume(s), "argument", ")", <<>>)
    IN CASE Tok(s) = "(" -> With(arguments, Node("invoke", "", <<s.node>> \o arguments.node.children))
         [] Tok(s) = "*" -> With(lexer_consume(s), Node("pointer", "", <<s.node>>))
         [] Tok(s) = "[" -> Subscript(s)
         [] Tok(s) = "cast" -> Stop(s, "asserts")

parse_operators(s, last, stmt) ==
    LET binary == get_binary_precedence(Tok(s), stmt)
        post == get_postfix_precedence(Tok(s))
        next == lexer_consume(s)
        right == RightOperand(Primary(next, FALSE), binary)
    IN CASE ~Running(s) -> s
         [] binary # 0 /\ binary >= last ->
               IF Tok(s) = "*" /\ TokOver(next, "*") \in AfterPointer
               THEN Operators(With(next, Node("pointer", "", <<s.node>>)), last, stmt)
               ELSE Operators(With(right, Node("binary", Tok(s), <<s.node, right.node>>)), last, FALSE)
         [] ~(binary # 0 /\ binary >= last) /\ post # 0 /\ post >= last ->
               IF Tok(s) = "*" /\ ~stmt THEN s ELSE Operators(Postfix(s), last, stmt)
         [] OTHER -> s

parser_parse_expression(s, left, last, stmt) ==
    LET first == Primary(s, stmt)
    IN CASE ~Running(s) -> s
         [] left # Null -> Operators(With(s, left), last, stmt)
         [] left = Null /\ Tok(s) \in {"if", "for", "while"} -> first
         [] left = Null /\ Tok(s) = "struct" -> Struct(s)
         [] OTHER -> Operators(first, last, stmt)
-----------------------------------------------------------------------------
(***************************************************************************)
(* Primaries.                                                              *)
(***************************************************************************)
IfExpression(s, stmt) ==
    LET cond == Expression(lexer_consume(s))
        block == Tok(cond) \in {"{", "do"}
        body == IF block THEN Block(cond) ELSE Expression(cond)
        after == TokOver(body, IF block THEN "" ELSE Tok(cond))
        ends == ~block /\ stmt /\ after # "else"
        ended == IF ends THEN Expect(body, ";") ELSE body
        seen == IF ends /\ Tok(body) = ";" THEN ";" ELSE after    \* EXPECT stores what it consumes
        hasElse == TokOver(ended, seen) = "else"
        else == lexer_consume(ended)
        other == IF Tok(else) = "{" THEN Block(else) ELSE Expression(else)
        closed == IF stmt /\ Tok(else) \notin {"{", "if"} THEN Expect(other, ";") ELSE other
    IN IF Running(ended) /\ hasElse
       THEN With(closed, Node("if", "", <<cond.node, body.node, other.node>>))
       ELSE With(ended, Node("if", "", <<cond.node, body.node, Null>>))

\* The body of a loop: a block, or an expression that ends a statement.
LoopBody(s, stmt) ==
    LET e == Expression(s)
    IN CASE Tok(s) = "{" -> Block(s)
         [] OTHER -> IF stmt THEN Expect(e, ";") ELSE e

WhileExpression(s, stmt) ==
    LET cond == Expression(lexer_consume(s))
        body == LoopBody(cond, stmt)
    IN With(body, Node("while", "", <<cond.node, body.node>>))

ForExpression(s, stmt) ==
    LET kw == lexer_consume(s)
        init == IF Tok(kw) = ";" THEN With(lexer_consume(kw), Null) ELSE Declaration(kw, Null, {})
        cond == IF Tok(init) = ";" THEN With(init, Null) ELSE Expression(init)
        head == Expect(cond, ";")
        update == IF Tok(head) = "{" THEN With(head, Null) ELSE Expression(head)
        body == LoopBody(update, stmt)
    IN With(body, Node("for", "", <<init.node, cond.node, update.node, body.node>>))

CastExpression(s) ==
    LET type == TypeOrCall(Expect(lexer_consume(s), "("))
        e == Operand(Expect(type, ")"), Null, 150, FALSE)
    IN With(e, Node("cast", "", <<type.node, e.node>>))

\* `return' and `continue', and `break' with the construct it leaves.
Jump(s) ==
    LET kw == lexer_consume(s)
        target == Tok(s) = "break" /\ Tok(kw) \in {"do", "for", "while"}
        head == IF target THEN lexer_consume(kw) ELSE kw
        e == IF Tok(head) = ";" THEN With(head, Null) ELSE Expression(head)
    IN With(e, Node(Tok(s), IF target THEN Tok(kw) ELSE "", <<e.node>>))

Prefixed(s) ==
    LET e == Operand(lexer_consume(s), Null, 140, FALSE)
    IN With(e, Node("prefix", Tok(s), <<e.node>>))

Generic(s) ==
    LET percent == lexer_consume(s)
        ident == expect_token(percent, Identifiers)
    IN IF Tok(percent) \in Identifiers
       THEN Operand(ident, Node("generic", Tok(percent), <<>>), 0, TRUE)
       ELSE With(ident, Null)

parser_parse_primary(s, stmt) ==
    LET next == lexer_consume(s)
        inner == Expression(next)
        members == List(next, "member", "}", <<>>)
        items == List(next, "item", "]", <<>>)
    IN CASE ~Running(s) -> s
         [] Tok(s) = "(" -> Expect(inner, ")")
         [] Tok(s) = "{" -> With(members, Node("initializer", "", members.node.children))
         [] Tok(s) = "[" -> With(items, Node("array", "", items.node.children))
         [] Tok(s) \in {"-", "*", "&"} -> Prefixed(s)
         [] Tok(s) = "%" -> Generic(s)
         [] Tok(s) \in Literals -> With(next, Node("literal", Tok(s), <<>>))
         [] Tok(s) = "if" -> IfExpression(s, stmt)
         [] Tok(s) = "while" -> WhileExpression(s, stmt)
         [] Tok(s) = "for" -> ForExpression(s, stmt)
         [] Tok(s) = "cast" -> CastExpression(s)
         [] Tok(s) = "do" -> Block(s)
         [] Tok(s) = "const" -> With(inner, Node("const", "", <<inner.node>>))
         [] Tok(s) \in {"return", "break", "continue"} -> Jump(s)
         [] Tok(s) \in Names \union {"else", "struct", "extern", "native", "macro"} -> With(next, Ident(Tok(s)))
         [] OTHER -> unexpected_token(s)

Parse(call, s) ==
    CASE call.rule = "statement" -> parser_parse_statement(s, call.storage)
      [] call.rule = "statements" -> parse_statements(s, call.list)
      [] call.rule = "list" -> parse_list(s, call.kind, call.close, call.list)
      [] call.rule = "operators" -> parse_operators(s, call.last, call.stmt)
      [] call.rule = "right" -> parse_right(s, call.precedence)
      [] call.rule = "block" -> parser_parse_block(s)
      [] call.rule = "struct" -> parser_parse_struct(s)
      [] call.rule = "declaration" -> parser_parse_declaration(s, call.type, call.storage)
      [] call.rule = "expression" -> parser_parse_expression(s, call.left, call.last, call.stmt)
      [] call.rule = "primary" -> parser_parse_primary(s, call.stmt)
-----------------------------------------------------------------------------
(***************************************************************************)
(* Files.                                                                  *)
(***************************************************************************)

\* The position of the lexer, behind the token in the buffer, is not at the end.
More(s) ==
    \/ s.at < Len(text)
    \/ s.at = Len(text) /\ (source.ends \/ AtEnd(s))

RECURSIVE FileStatements(_, _)
FileStatements(s, list) ==
    LET e == Statement(s, {})
        moved == IF More(e) THEN MovedOn(s, e) ELSE e
    IN IF ~Running(s) \/ (list # <<>> /\ ~More(s))
       THEN With(s, Node("block", "", list))
       ELSE FileStatements(moved, Append(list, e.node))

parser_parse_file ==
    LET start == Start(1)
    IN IF text = <<>> /\ ~source.ends THEN With(start, Node("block", "", <<>>)) ELSE FileStatements(start, <<>>)

Unread == [at |-> 0, said |-> FALSE, node |-> Null, stop |-> "unread"]

Init == (\E family \in Families : source \in Members(family)) /\ result = Unread
ParseFile == result = Unread /\ result' = parser_parse_file /\ UNCHANGED source
Next == ParseFile
Spec == Init /\ [][Next]_vars
-----------------------------------------------------------------------------
TypeOK ==
    /\ source.ends \in BOOLEAN
    /\ result.at \in 0 .. Len(text) + 1
    /\ result.said \in BOOLEAN
    /\ result.stop \in {"", "unread", "hangs", "asserts", "undefined"}

Accepted == result.stop = "" /\ ~result.said

(***************************************************************************)
(* A tree, written down, is read as that tree: precedence and the order of *)
(* operations mean the same to the reader and to the parser.               *)
(***************************************************************************)
ReadsBack ==
    source.tree # Null /\ result # Unread => Accepted /\ result.node = source.tree

(***************************************************************************)
(* And of whatever file it takes without a complaint, the parser makes a   *)
(* tree that says what the file says: no token is lost or put in another   *)
(* place, and without parentheses in the file the tree needs none.  Commas *)
(* and semicolons are free in some places, storage classes in any order,   *)
(* and one token at the very end of the file is not looked at.             *)
(***************************************************************************)
Essential(tokens) ==
    LET free == {",", ";", "extern", "native", "const", "macro"} \union (IF "(" \in ToSet(text) THEN {"(", ")"} ELSE {})
    IN SelectSeq(tokens, LAMBDA t : t \notin free)
LosesNothing ==
    Accepted =>
        /\ result.at >= IF source.ends THEN Len(text) + 1 ELSE Len(text)
        /\ Essential(FileText(result.node)) = Essential(SubSeq(text, 1, result.at - 1))

(***************************************************************************)
(* Before the end of the file (or a character that starts no token), no    *)
(* loop comes back to where it was without a complaint: each of them goes  *)
(* on until its closing token and trusts its elements to move on.          *)
(***************************************************************************)
MovesOnOrComplains == result.stop = "hangs" => result.said \/ AtEnd(result)
=============================================================================
