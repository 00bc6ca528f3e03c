------------------------------- MODULE Lexer -------------------------------
(***************************************************************************)
(* The lexer (src/lexer.c): from the characters of a file to its tokens.   *)
(* The buffer of one token that the parser looks at is in Parser.          *)
(*                                                                         *)
(* A step of the lexer gives the token, the position behind it, and what   *)
(* stops the lexer there, if anything does: the end of the file, a         *)
(* character that starts no token, or an assertion.                        *)
(***************************************************************************)
EXTENDS Interning

White == {" ", "\t", "\n", "\r"}

At(f, i) == IF i <= Len(f) THEN f[i] ELSE "end"

\* The first position from i on that has no such character.
Behind(f, i, class) ==
    CHOOSE j \in i .. Len(f) + 1 : At(f, j) \notin class /\ \A k \in i .. j - 1 : f[k] \in class

\* White space and comments.
RECURSIVE Skip(_, _)
Skip(f, i) ==
    CASE At(f, i) \in White -> Skip(f, i + 1)
      [] At(f, i) = "/" /\ At(f, i + 1) = "/" -> Skip(f, Behind(f, i + 2, ToSet(f) \ {"\n"}))
      [] OTHER -> i

Lexed(token, at) == [token |-> token, at |-> at, escaped |-> FALSE, stop |-> ""]
Stopped(why) == [stop |-> why]

\* Identifiers; one that ends the file fails an assertion.
Identifier(f, kind, i) ==
    LET j == Behind(f, i, WordCharacters)
    IN IF j > Len(f) THEN Stopped("asserts") ELSE Lexed(Token(kind, <<>>, Codes(SubSeq(f, i, j - 1))), j)
-----------------------------------------------------------------------------
(***************************************************************************)
(* Numbers, in one loop: n is what has been read.  `dot' is where the dot  *)
(* was, or 0.                                                              *)
(***************************************************************************)
DigitLetters == [c \in ToSet(SubSeq(Lower, 1, 15)) \union {"x"} \union ToSet(SubSeq(Upper, 1, 14)) |->
                    IF c \in ToSet(Lower) THEN Place(Lower, c) + 9 ELSE Place(Upper, c) + 9]
Base == [c \in {"b", "B", "o", "x"} |-> CASE c \in {"b", "B"} -> 2 [] c = "o" -> 8 [] c = "x" -> 16]

\* Mutant: digits are not shifted by the base.
DigitByTen(n, v) ==
    IF n.dot = 0 THEN [n EXCEPT !.at = @ + 1, !.whole = @ * 10 + v]
    ELSE [n EXCEPT !.at = @ + 1, !.part = @ * 10 + v, !.power = @ * 10]

Digit(n, v) ==
    IF n.dot = 0 THEN [n EXCEPT !.at = @ + 1, !.whole = @ * n.base + v]
    ELSE [n EXCEPT !.at = @ + 1, !.part = @ * 10 + v, !.power = @ * 10]

RECURSIVE NumberRest(_, _)

\* A second dot ends the number at the first one, as a letter does: that makes it an
\* integer again, the dot does not.
BackToDot(n) == [n EXCEPT !.at = n.dot]

DecimalDigit(f, n, c) ==
    LET v == Place(Decimal, c) - 1
        seen == [n EXCEPT !.zero = @ \/ c = "0"]
    IN IF v >= n.base THEN seen ELSE NumberRest(f, Digit(seen, v))

\* Behind any 0 a letter that names a base starts another one.
Letter(f, n, c) ==
    LET v == DigitLetters[c]
    IN CASE c \in DOMAIN Base /\ n.zero -> NumberRest(f, [n EXCEPT !.at = @ + 1, !.zero = FALSE, !.base = Base[c]])
         [] ~(c \in DOMAIN Base /\ n.zero) /\ n.dot # 0 -> [BackToDot(n) EXCEPT !.kind = "integer"]
         [] ~(c \in DOMAIN Base /\ n.zero) /\ n.dot = 0 -> IF v >= n.base THEN n ELSE NumberRest(f, Digit(n, v))

NumberRest(f, n) ==
    LET c == At(f, n.at)
    IN CASE c = "." -> IF n.dot # 0 THEN BackToDot(n)
                       ELSE NumberRest(f, [n EXCEPT !.at = @ + 1, !.dot = n.at, !.kind = "float"])
         [] c \in ToSet(Decimal) -> DecimalDigit(f, n, c)
         [] c \in DOMAIN DigitLetters -> Letter(f, n, c)
         [] OTHER -> n

Number(f, i) ==
    LET start == [at |-> i, kind |-> "integer", whole |-> 0, part |-> 0, power |-> 1, base |-> 10, zero |-> FALSE, dot |-> 0]
        n == NumberRest(f, start)
    IN Lexed(Token(n.kind, IF n.kind = "integer" THEN <<n.whole>> ELSE <<n.whole, n.part, n.power>>, <<>>), n.at)
-----------------------------------------------------------------------------
(***************************************************************************)
(* Strings: s has the position, what has been copied and up to where, and  *)
(* how many characters were counted.  Without an escape the string is a    *)
(* piece of the file, of so many characters.                               *)
(***************************************************************************)
Escapes == [c \in {"n", "t", "r"} |-> CASE c = "n" -> 10 [] c = "t" -> 9 [] c = "r" -> 13]
Byte(high, low) == 16 * HexDigit[high] + HexDigit[low]

\* What lies between is copied; string_slice asserts that there is no less than nothing.
CopyUpTo(f, s) ==
    IF s.at < s.copied THEN [s EXCEPT !.stop = "asserts"]
    ELSE [s EXCEPT !.out = @ \o Codes(SubSeq(f, s.copied, s.at - 1))]

Escaped(f, s, letter, length) ==
    [CopyUpTo(f, s) EXCEPT !.out = Append(@, letter), !.copied = s.at + length, !.at = s.at + length,
                           !.count = @ + 1, !.escaped = TRUE]

\* A byte that is none is complained about, and the x read as a character.
NoByte(f, s) == [CopyUpTo(f, s) EXCEPT !.copied = s.at + 4, !.at = s.at + 1]

RECURSIVE StringRest(_, _)
StringRest(f, s) ==
    LET c == At(f, s.at)
        e == At(f, s.at + 1)
        isByte == {At(f, s.at + 2), At(f, s.at + 3)} \subseteq DOMAIN HexDigit
    IN CASE s.stop # "" \/ c \in {"\"", "end"} -> s
         [] c = "\\" /\ e \in DOMAIN Escapes -> StringRest(f, Escaped(f, s, Escapes[e], 2))
         [] c = "\\" /\ e = "x" -> StringRest(f, IF isByte THEN Escaped(f, s, Byte(At(f, s.at + 2), At(f, s.at + 3)), 4) ELSE NoByte(f, s))
         [] OTHER -> StringRest(f, [s EXCEPT !.at = @ + 1, !.count = @ + 1])

\* A string that the file ends in is one as well.
String(f, i) ==
    LET start == [at |-> i + 1, copied |-> i + 1, out |-> <<>>, count |-> 0, escaped |-> FALSE, stop |-> ""]
        s == StringRest(f, start)
        letters == IF s.escaped THEN s.out \o Codes(SubSeq(f, s.copied, s.at - 1)) ELSE Codes(SubSeq(f, i + 1, i + s.count))
    IN CASE s.stop # "" -> Stopped(s.stop)
         [] s.stop = "" /\ s.escaped /\ s.at < s.copied -> Stopped("undefined")
         [] OTHER -> [Lexed(Token("string", <<>>, letters), s.at + 1) EXCEPT !.escaped = s.escaped]
-----------------------------------------------------------------------------
Single == {"(", ")", "{", "}", "[", "]", ":", ";", ","}

\* lexer_prefixed: the second character, and what both make.
Prefixed == [c \in {"&", "|", "<", ">", "!", "=", "+", "-", "*", "/", "%", "."} |->
                CASE c = "&" -> <<"&", "&&">> [] c = "|" -> <<"|", "||">> [] c = "." -> <<".", "..">>
                  [] c = "<" -> <<"=", "<=">> [] c = ">" -> <<"=", ">=">> [] c = "!" -> <<"=", "!=">>
                  [] c = "=" -> <<"=", "==">> [] c = "+" -> <<"=", "+=">> [] c = "-" -> <<"=", "-=">>
                  [] c = "*" -> <<"=", "*=">> [] c = "/" -> <<"=", "/=">> [] c = "%" -> <<"=", "%=">>]

lexer_prefixed(f, i) ==
    LET both == Prefixed[f[i]]
    IN IF At(f, i + 1) = both[1] THEN Lexed(Token(both[2], <<>>, <<>>), i + 2)
       ELSE Lexed(Token(f[i], <<>>, <<>>), i + 1)

lexer_next_token(f, at) ==
    LET i == Skip(f, at)
        c == At(f, i)
    IN CASE c = "end" -> Stopped("end")
         [] c = "#" -> Identifier(f, "builtin", i + 1)
         [] c \in WordCharacters \ ToSet(Decimal) -> Identifier(f, "identifier", i)
         [] c \in ToSet(Decimal) -> Number(f, i)
         [] c = "\"" -> String(f, i)
         [] c \in Single -> Lexed(Token(c, <<>>, <<>>), i + 1)
         [] c \in DOMAIN Prefixed -> lexer_prefixed(f, i)
         [] OTHER -> Stopped("junk")

\* The names of a file are interned, and so are strings that have been put together;
\* others stay a piece of the file.
IsInterned(next) == next.token.kind \in {"identifier", "builtin"} \/ next.escaped
Taken(l, next, given) ==
    [l EXCEPT !.tokens = Append(@, [next.token EXCEPT !.letters = given.str]), !.table = given.table, !.at = next.at]
Consumed(l, next) ==
    IF IsInterned(next)
    THEN CHOOSE r \in {Taken(l, next, given) : given \in {ll_intern_string(l.table, next.token.letters)}} : TRUE
    ELSE [l EXCEPT !.tokens = Append(@, next.token), !.at = next.at]

\* The tokens of a file, one after the other.
RECURSIVE TokensFrom(_, _)
After(f, l, next) ==
    IF next.stop # "" THEN [l EXCEPT !.stop = next.stop] ELSE TokensFrom(f, Consumed(l, next))
TokensFrom(f, l) == CHOOSE r \in {After(f, l, next) : next \in {lexer_next_token(f, l.at)}} : TRUE

TokensOf(f, table) == TokensFrom(f, [tokens |-> <<>>, at |-> 1, table |-> table, stop |-> ""])
=============================================================================
