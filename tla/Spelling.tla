------------------------------ MODULE Spelling ------------------------------
(***************************************************************************)
(* How tokens are written: the reference for Lexer.  A file is a sequence  *)
(* of characters, which are strings of length one, and a word is a token   *)
(* with the characters that stand for it.                                  *)
(***************************************************************************)
EXTENDS Integers, SequencesExt

\* The characters of a word, those that are printed, from the code 32 on, and all with
\* their codes.
Chars(word) == [i \in 1 .. Len(word) |-> SubSeq(word, i, i)]
Printed ==
    Chars(" !\"#$%&'()*+,-./0123456789:;<=>?@ABCDEFGHIJKLMNOPQRSTUVWXYZ[\\]^_")
    \o <<"backquote">> \o Chars("abcdefghijklmnopqrstuvwxyz{|}~")
Place(s, c) == CHOOSE i \in DOMAIN s : s[i] = c
Code == ("\t" :> 9) @@ ("\n" :> 10) @@ ("\r" :> 13) @@ [c \in ToSet(Printed) |-> Place(Printed, c) + 31]
Codes(chars) == [i \in DOMAIN chars |-> Code[chars[i]]]

Decimal == SubSeq(Printed, 17, 26)
Upper == SubSeq(Printed, 34, 59)
Lower == SubSeq(Printed, 66, 91)
WordCharacters == ToSet(Decimal \o Lower \o Upper) \union {"_", "$"}

\* A token: its kind, its value if it is a number, the codes of its letters.
Token(kind, numbers, letters) == [kind |-> kind, numbers |-> numbers, letters |-> letters]

\* The value of a hexadecimal digit.
HexDigit == [c \in ToSet(Decimal \o SubSeq(Lower, 1, 6) \o SubSeq(Upper, 1, 6)) |->
                CASE c \in ToSet(Decimal) -> Place(Decimal, c) - 1
                  [] c \in ToSet(Lower) -> Place(Lower, c) + 9
                  [] c \in ToSet(Upper) -> Place(Upper, c) + 9]

RECURSIVE NumberOf(_, _)
NumberOf(base, digits) ==
    IF digits = <<>> THEN 0 ELSE base * NumberOf(base, Front(digits)) + HexDigit[Last(digits)]
-----------------------------------------------------------------------------
Word(chars, token) == [chars |-> chars, token |-> token]

Name(chars) == Word(chars, Token("identifier", <<>>, Codes(chars)))
Builtin(chars) == Word(<<"#">> \o chars, Token("builtin", <<>>, Codes(chars)))
Sign(kind) == Word(Chars(kind), Token(kind, <<>>, <<>>))

\* The letter that names a base.
BaseLetter == [base \in {2, 8, 16} |-> CASE base = 2 -> "b" [] base = 8 -> "o" [] base = 16 -> "x"]
Integer(base, digits) ==
    Word(IF base = 10 THEN digits ELSE <<"0", BaseLetter[base]>> \o digits,
         Token("integer", <<NumberOf(base, digits)>>, <<>>))

\* A fraction is its digits and the power of ten they are divided by.
Float(whole, part) ==
    Word(whole \o <<".">> \o part,
         Token("float", <<NumberOf(10, whole), NumberOf(10, part), 10 ^ Len(part)>>, <<>>))

\* A string is written letter by letter: what stands for one, and its code.
Text(letters) ==
    Word(<<"\"">> \o FlattenSeq([i \in DOMAIN letters |-> letters[i].chars]) \o <<"\"">>,
         Token("string", <<>>, [i \in DOMAIN letters |-> letters[i].is]))
-----------------------------------------------------------------------------
(***************************************************************************)
(* Words that must be kept apart: two that would be one, and signs that    *)
(* would make another one or a comment.  A number takes a dot with it.     *)
(***************************************************************************)
Joined2 == {<<"&", "&">>, <<"|", "|">>, <<".", ".">>, <<"/", "/">>}
    \union {<<c, "=">> : c \in {"<", ">", "!", "=", "+", "-", "*", "/", "%"}}
IsWord(w) == w.token.kind \in {"identifier", "builtin", "integer", "float"}
Glue(v, w) ==
    \/ IsWord(v) /\ Head(w.chars) \in WordCharacters
    \/ v.token.kind \in {"integer", "float"} /\ Head(w.chars) = "."
    \/ Len(v.chars) = 1 /\ <<v.chars[1], Head(w.chars)>> \in Joined2

\* Words with a separator behind each, which may be left out where nothing is glued.
Spelled(words, separator, always) ==
    LET Needed(i) == i < Len(words) /\ Glue(words[i], words[i + 1])
    IN FlattenSeq([i \in DOMAIN words |-> words[i].chars \o (IF always \/ Needed(i) THEN separator ELSE <<>>)])
=============================================================================
