----------------------------- MODULE SourceText -----------------------------
(***************************************************************************)
(* From the characters of a file to what Parser reads: the lexer and the   *)
(* parser together.  A file is lexed with the table of strings as it is    *)
(* when the compiler has started (ll_compiler_context_create).             *)
(***************************************************************************)
EXTENDS Parser

L == INSTANCE Lexer

KeywordTexts ==
    <<"const", "cast", "if", "for", "while", "else", "do", "match", "struct", "extern", "native", "return",
      "break", "continue", "macro", "let", "sizeof",
      "bool", "bool8", "bool16", "bool32", "bool64", "true", "false", "null",
      "uint", "uint8", "uint16", "uint32", "uint64", "int", "int8", "int16", "int32", "int64",
      "float16", "float32", "float64", "float", "string", "void", "char">>
ll_compiler_context_create ==
    L!Interned(<<>>, [i \in DOMAIN KeywordTexts |-> L!Codes(L!Chars(KeywordTexts[i]))])

\* What Parser tells apart: a name is one of its own, or another one.
TextOfToken(token) ==
    LET known == {n \in Identifiers : L!Codes(L!Chars(n)) = token.letters}
    IN CASE token.kind = "identifier" -> IF known = {} THEN "other" ELSE CHOOSE n \in known : TRUE
         [] token.kind \in {"integer", "float", "string"} -> "1"
         [] OTHER -> token.kind

\* The tokens, and in place of the next one what stopped the lexer, if not the end.
TextOfFile(lexed) ==
    [i \in DOMAIN lexed.tokens |-> TextOfToken(lexed.tokens[i])]
    \o (IF lexed.stop = "end" THEN <<>> ELSE <<lexed.stop>>)

\* A file of which only the tokens are known.
FileOfTokens(tokens, ends, tree) == [text |-> tokens, ends |-> ends, tree |-> tree, tokens |-> <<>>, written |-> <<>>]

\* A file of characters, the tree it stands for, or Null, and the tokens it was written with.
Written(words, tree, separator, always) ==
    [chars |-> L!Spelled(words, separator, always), tree |-> tree, written |-> [i \in DOMAIN words |-> words[i].token]]

Read(file, lexed) ==
    [text |-> TextOfFile(lexed), ends |-> lexed.stop = "end" /\ lexed.at <= Len(file.chars), tree |-> file.tree,
     tokens |-> lexed.tokens, written |-> file.written]
FilesRead(files) ==
    {Read(l[1], l[2]) : l \in {<<file, L!TokensOf(file.chars, table)>> : file \in files, table \in {ll_compiler_context_create}}}

\* A tree as it is written.
WordOf(token) ==
    CASE token \in Identifiers -> L!Name(L!Chars(token))
      [] token \in Literals -> L!Integer(10, L!Chars(token))
      [] OTHER -> L!Sign(token)
WordsOf(tree) == CHOOSE words \in {[i \in DOMAIN tokens |-> WordOf(tokens[i])] : tokens \in {FileText(tree)}} : TRUE
-----------------------------------------------------------------------------
(***************************************************************************)
(* The tokens of a file are those it was written with, whatever stands     *)
(* between them: kinds, values of numbers, letters of names and strings.   *)
(* The table of strings may take a name for another one of its bucket,     *)
(* when one of both is the beginning of the other (src/common.c:80).       *)
(***************************************************************************)
TakenFor(read, meant) ==
    /\ L!IsPrefix(read, meant) \/ L!IsPrefix(meant, read)
    /\ L!Bucket(read) = L!Bucket(meant)
IsRead(read, meant) ==
    /\ read.kind = meant.kind /\ read.numbers = meant.numbers
    /\ read.letters = meant.letters \/ TakenFor(read.letters, meant.letters)
LexesAsWritten ==
    /\ Len(source.tokens) = Len(source.written) \/ source.written = <<>>
    /\ \A i \in DOMAIN source.written : IsRead(source.tokens[i], source.written[i])

(***************************************************************************)
(* The README lists uint8, uint16, uint32, uint64 and uint as types of     *)
(* their own (src/README.md:40): a name is read as the name it is.         *)
(***************************************************************************)
NamesAreRead ==
    \A i \in DOMAIN source.written : source.tokens[i].letters = source.written[i].letters
=============================================================================
