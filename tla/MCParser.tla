------------------------------ MODULE MCParser ------------------------------
(***************************************************************************)
(* Files for Parser: trees written down, and every short text over some    *)
(* alphabets.                                                              *)
(***************************************************************************)
EXTENDS SourceText

MCNames == {"a", "b", "other"}
One == Node("literal", "1", <<>>)
A == Ident("a")
Leaves == {A, One}
Operators2 == {"=", "&&", "&", "<", "+", "*", "."}

\* After a multiplication these are not read as an operand.
IsOperand(op, r) == op = "*" => Head(RightOf(r, Precedence("*"))) \notin AfterPointer
\* What may follow a condition without a brace.
IsBody(e) == Head(TextOf(e)) \in MCNames \union Literals /\ RightLimit(e) # 0

Types == {A, Node("pointer", "", <<A>>), Node("index", "", <<A, One, Null>>)}
Over(left, right) ==
    {Node("binary", op, <<l, r>>) : op \in Operators2, l \in left, r \in right}
Wrapped(S, T) ==
    {Node("prefix", op, <<e>>) : op \in {"-", "*", "&"}, e \in S}
    \union {Node("index", "", <<e, x, Null>>) : e \in S, x \in T}
    \union {Node("slice", "", <<A, x, e>>) : e \in S, x \in {Null, One}}
    \union {Node("invoke", "", <<e>>) : e \in S}
    \union {Node("invoke", "", <<A, e, Node("pair", "", <<A, x>>)>>) : e \in S, x \in T}
    \union {Node("cast", "", <<t, e>>) : t \in Types, e \in S}
    \union {Node("if", "", <<e, x, y>>) : e \in S, x \in T, y \in {Null} \union T}
    \union {Node("if", "", <<x, e, y>>) : e \in {b \in S : IsBody(b)}, x \in T, y \in {Null} \union T}
    \union {Node("if", "", <<x, y, e>>) : e \in S, x \in T, y \in T}
    \union {Node("const", "", <<e>>) : e \in S}
    \union {Node("array", "", <<e, x>>) : e \in S, x \in T}
    \union {Node("initializer", "", <<e>>) : e \in S}
    \union {Node("block", "do", <<Node("break", t, <<e>>)>>) : t \in {"", "do"}, e \in S}
Simple == Over(Leaves, Leaves) \union Wrapped(Leaves, Leaves)

BlockOf(statements) == Node("block", "", statements)
VariableOf(classes, type, init) == Node("variable", "", <<Storage(classes), type, Ident("b"), init>>)
ParameterOf(type) == Node("parameter", "", <<type, Ident("b"), Null>>)
FunctionOf(classes, parameters, body) == Node("function", "", <<Storage(classes), A, Ident("b"), body>> \o parameters)
Call == Node("invoke", "", <<A, One>>)
Flat ==
    {Call, BlockOf(<<Call>>), Node("const", "", <<BlockOf(<<Call>>)>>)}
    \union {VariableOf(c, t, i) : c \in {{}, {"const"}, {"extern", "native"}}, t \in Types, i \in {Null, One}}
    \union {Node("binary", "=", <<l, One>>) :
                l \in {A, Node("prefix", "*", <<A>>), Node("index", "", <<A, One, Null>>), Node("binary", ".", <<A, A>>)}}
    \union {Node(k, "", <<e>>) : k \in {"return", "break", "continue"}, e \in {Null, One}}
    \union {Node("struct", "", <<A>> \o f) : f \in {<<>>, <<VariableOf({}, A, Null)>>}}
Condition == Node("binary", "<", <<A, One>>)
Bodies == {Call, BlockOf(<<>>), Node("block", "do", <<>>), Node("binary", "+=", <<A, One>>)}
Nested ==
    {Node("if", "", <<Condition, b, e>>) :
        b \in Bodies, e \in {Null, BlockOf(<<Call>>), Call, Node("if", "", <<A, BlockOf(<<>>), Null>>)}}
    \union {Node("while", "", <<Condition, b>>) : b \in Bodies \ {Node("block", "do", <<>>)}}
    \union {Node("for", "", <<i, c, u, b>>) : i \in {Null, VariableOf({}, A, One)}, c \in {Null, Condition},
                u \in {Null, Node("binary", "+=", <<A, One>>)}, b \in {BlockOf(<<>>)}}
    \union {Node("for", "", <<Null, Condition, Node("binary", "+=", <<A, One>>), Call>>)}
    \union {FunctionOf(c, p, b) : c \in {{}, {"macro"}, {"extern"}}, b \in {Null} \union {BlockOf(<<x>>) : x \in Flat},
                p \in {<<>>, <<ParameterOf(A)>>, <<ParameterOf(Node("pointer", "", <<A>>)), ParameterOf(Node("generic", "a", <<>>))>>}}

InPairs == {BlockOf(<<x, y>>) : x, y \in Flat}

(***************************************************************************)
(* The files come in families, each of one beginning.                      *)
(***************************************************************************)
Meant(statements) ==
    LET tree == BlockOf(statements) IN FileOfTokens(FileText(tree), FALSE, tree)
Initialized(e) == Meant(<<VariableOf({}, A, e)>>)

\* Every text of up to n tokens more.
Texts(alphabet, n, before, after) ==
    {FileOfTokens(before \o t \o after, e, Null) :
        t \in UNION {[1 .. k -> alphabet] : k \in 0 .. n}, e \in {FALSE} \union {after = <<>>}}
InExpressions == {"a", "1", "*", "-", "[", "]", "(", ")", "=", ".", "cast", ","}
InStatements == {"a", "*", ";", "{", "}", "(", ")", "do", "for", "struct", "junk"}
InBranches == {"a", ";", "{", "}", "if", "else"}

(***************************************************************************)
(* Files of characters: numbers, words and strings as they are written,    *)
(* trees, and every short text in quotation marks.                         *)
(***************************************************************************)
End == L!Sign(";")

\* Behind a 0 a hexadecimal b is taken for the letter of a base: they are left out.
Digits == [base \in {2, 8, 10, 16} |->
    CASE base = 2 -> {"0", "1"} [] base = 8 -> {"0", "1", "7"} [] base = 10 -> {"0", "1", "9"}
      [] base = 16 -> {"0", "1", "9", "a", "b", "f", "C", "F"}]
IsLegal(digits) == \A i \in 2 .. Len(digits) : ~(digits[i] = "b" /\ "0" \in {digits[j] : j \in 1 .. i - 1})
NumbersFrom(base, digit) ==
    {L!Integer(base, <<digit>> \o rest) : rest \in {r \in UNION {[1 .. k -> Digits[base]] : k \in 0 .. 2} : IsLegal(<<digit>> \o r)}}
Fractions == {L!Float(whole, part) : whole, part \in UNION {[1 .. k -> Digits[10]] : k \in 1 .. 2}}

WordTexts == {"a", "if", "uint", "uint8", "sizeof", "sizeofj", "_0", "$b"}
SignTexts == {".", "..", "/", "/=", "=", "==", "&", "&&", "-", "-=", "*", "(", "[", "]", "{", ";", "%", "!", "!=", "|", "||"}
Words ==
    {L!Name(L!Chars(w)) : w \in WordTexts} \union {L!Sign(w) : w \in SignTexts}
    \union {L!Builtin(L!Chars("a")), L!Integer(10, L!Chars("10")), L!Integer(16, L!Chars("1f")), L!Float(L!Chars("1"), L!Chars("05"))}
Separators == {<<<<" ">>, FALSE>>, <<L!Chars("\t\r\n"), TRUE>>, <<L!Chars(" // a \"\n\n"), TRUE>>}

Letters == {[chars |-> L!Chars("a"), is |-> 97], [chars |-> L!Chars("/"), is |-> 47], [chars |-> L!Chars("\\n"), is |-> 10],
            [chars |-> L!Chars("\\x4f"), is |-> 79], [chars |-> L!Chars("\\xA0"), is |-> 160]}

InQuotes == {"\"", "\\", "x", "1", "n", "a"}
Plain(words) == Written(words, Null, <<" ">>, FALSE)

Expressions == Simple \union Leaves

\* Variables of every builtin type (`true', `false' and `null' are names as these are).
TypeNames == {L!Name(L!Chars(KeywordTexts[i])) : i \in 18 .. Len(KeywordTexts)}
MCTypeFamilies == [of : {"types"}, separator : Separators]
MCFamilies ==
    [of : {"wrapped"}, left : Expressions]
    \union [of : {"binary"}, op : Operators2, left : Expressions]
    \union [of : {"statement"}, left : Nested \union InPairs]
    \union [of : {"initializer", "argument"}, first : InExpressions, second : InExpressions]
    \union [of : {"statements"}, first : InStatements, second : InStatements]
    \union [of : {"branches"}, first : InBranches, second : InBranches]
    \union MCTypeFamilies
    \union [of : {"numbers"}, base : {2, 8, 10, 16}] \union [of : {"fractions"}]
    \union [of : {"words"}, first : Words, separator : Separators]
    \union [of : {"strings"}, first : Letters]
    \union [of : {"quoted"}, first : InQuotes]
    \union [of : {"spelled"}, separator : Separators]

VariableIn(type) == BlockOf(<<Node("variable", "", <<Storage({}), Ident(type), Ident("b"), Null>>)>>)

MCCharacters(f) ==
    CASE f.of = "numbers" -> {Plain(<<n, End>>) : n \in UNION {NumbersFrom(f.base, d) : d \in Digits[f.base]}}
      [] f.of = "fractions" -> {Plain(<<n, End>>) : n \in Fractions}
      [] f.of = "words" -> {Written(<<f.first, w, End>>, Null, f.separator[1], f.separator[2]) : w \in Words}
      [] f.of = "types" ->
            {Written(<<type, L!Name(L!Chars("b")), End>>, VariableIn("other"), f.separator[1], f.separator[2]) : type \in TypeNames}
      [] f.of = "strings" -> {Plain(<<L!Text(<<f.first>> \o rest), End>>) : rest \in UNION {[1 .. k -> Letters] : k \in 0 .. 3}}
      [] f.of = "quoted" -> {[chars |-> <<"\"", f.first>> \o rest, tree |-> Null, written |-> <<>>] :
                                rest \in UNION {[1 .. k -> InQuotes] : k \in 0 .. 3}}
      [] f.of = "spelled" -> {Written(WordsOf(BlockOf(<<x>>)), BlockOf(<<x>>), f.separator[1], f.separator[2]) : x \in Nested \union Flat}
MCMembers(f) ==
    CASE f.of = "wrapped" -> {Initialized(e) : e \in Wrapped({f.left}, Leaves)}
      [] f.of = "binary" ->
            {Initialized(Node("binary", f.op, <<f.left, r>>)) : r \in {e \in Expressions : IsOperand(f.op, e)}}
      [] f.of = "statement" -> {Meant(<<f.left, y>>) : y \in {Call, VariableOf({}, A, Null)}}
      [] f.of = "initializer" -> Texts(InExpressions, 2, <<"a", "=", f.first, f.second>>, <<";">>)
      [] f.of = "argument" -> Texts(InExpressions, 1, <<"a", "a", "(", f.first, f.second>>, <<")", ";">>)
      [] f.of = "statements" -> Texts(InStatements, 2, <<f.first, f.second>>, <<>>)
      [] f.of = "branches" -> Texts(InBranches, 3, <<f.first, f.second>>, <<>>)
      [] OTHER -> FilesRead(MCCharacters(f))
=============================================================================
