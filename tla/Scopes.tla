------------------------------ MODULE Scopes -------------------------------
(***************************************************************************)
(* The scope tree of the typer (src/typer.c): how scopes are entered and   *)
(* left, where a declaration is put, and what an identifier finds.         *)
(*                                                                         *)
(* The typer is recursive; `open' is its call stack, one frame for each    *)
(* construct it is inside of.  A scope is its position in `scopes' (1 is   *)
(* the package), in the order of creation.  Its children hang in hash      *)
(* buckets, newest first.  An identifier is a sequence of characters, NoName*)
(* for the scopes that have none; types and declarations are left out.     *)
(***************************************************************************)
EXTENDS Naturals, FiniteSets, SequencesExt

CONSTANTS
    Names,          \* the identifiers of the program
    NameBucket,     \* the bucket a name hashes to
    AnonBucket,     \* the bucket the k-th anonymous child hashes to
    MaxScopes,      \* bound: how many scopes a behaviour may create
    MaxOpen         \* bound: how deep constructs may nest

NoName == <<>>

ASSUME BoundAssumption == MaxScopes \in Nat \ {0} /\ MaxOpen \in Nat \ {0}
ASSUME NameAssumption == Names \subseteq Seq(STRING) \ {NoName}
ASSUME BucketAssumption == NameBucket \in [Names -> Nat] /\ AnonBucket \in Seq(Nat)

VARIABLES
    scopes,     \* kind, parent and ident of every scope
    children,   \* children[s][h]: bucket h of scope s
    current,    \* typer->current_scope
    open        \* the constructs being typed, innermost last

vars == <<scopes, children, current, open>>

Package == 1
NullScope == 0
Crash == MaxScopes + 1  \* no scope: a NULL pointer is dereferenced

Kinds == {"LOCAL", "FIELD", "PARAMETER", "MACRO_PARAMETER", "FUNCTION", "LOOP", "BLOCK",
          "BLOCK_VALUE", "MACRO_EXPANSION", "STRUCT", "PACKAGE"}

Buckets == {NameBucket[n] : n \in Names} \union ToSet(AnonBucket)

Kind(s) == scopes[s].kind
Parent(s) == scopes[s].parent
Ident(s) == scopes[s].ident
Top == Last(open)

Init ==
    /\ scopes = <<[kind |-> "PACKAGE", parent |-> NullScope, ident |-> NoName]>>
    /\ children = <<[h \in Buckets |-> <<>>]>>
    /\ current = Package
    /\ open = <<[construct |-> "package", scope |-> Package, saved |-> Package]>>
-----------------------------------------------------------------------------
(***************************************************************************)
(* Looking up.                                                             *)
(***************************************************************************)
\* string_eql compares as many characters as the shorter string has.
string_eql(a, b) == IsPrefix(a, b) \/ IsPrefix(b, a)

\* The bucket is walked to the first entry that matches; the entry of an
\* anonymous scope has no ident to compare.
ll_scope_get(s, name) ==
    LET bucket == children[s][NameBucket[name]]
        stop == SelectInSeq(bucket, LAMBDA c : Ident(c) = NoName \/ string_eql(Ident(c), name))
    IN IF stop = 0 THEN NullScope
       ELSE IF Ident(bucket[stop]) = NoName THEN Crash ELSE bucket[stop]

\* The scopes from s up to the package.
Chain[s \in 0 .. Len(scopes)] == IF s = NullScope THEN <<>> ELSE <<s>> \o Chain[Parent(s)]

\* Mutant: the walk does not notice that it leaves a macro.
SearchesEverything(chain, i, expansion) ==
    Kind(chain[i]) \in {"MACRO_EXPANSION", "PACKAGE", "BLOCK", "FUNCTION", "BLOCK_VALUE", "LOOP"}

\* Whether the walk searches the i-th scope of the chain, which depends on
\* whether it has come out of a macro expansion before.
Searches(chain, i, expansion) ==
    LET outOfMacro == \E j \in 1 .. i - 1 : Kind(chain[j]) = "MACRO_EXPANSION"
    IN \/ Kind(chain[i]) \in {"MACRO_EXPANSION", "PACKAGE", "BLOCK"}
       \/ Kind(chain[i]) \in {"FUNCTION", "BLOCK_VALUE", "LOOP"} /\ (~outOfMacro \/ expansion)

FindFrom(from, name, expansion) ==
    LET chain == Chain[from]
        results == [i \in DOMAIN chain |-> IF Searches(chain, i, expansion)
                                           THEN ll_scope_get(chain[i], name) ELSE NullScope]
        hit == SelectInSeq(results, LAMBDA r : r # NullScope)
    IN IF hit = 0 THEN NullScope ELSE results[hit]

ll_typer_find_symbol_up_scope(name, expansion) == FindFrom(current, name, expansion)

\* Mutant: a break looks on beyond the function.
StopsBreakOutside(s, target) ==
    \/ Kind(s) = "LOOP" /\ target \in {"any", "for"}
    \/ Kind(s) = "BLOCK" /\ target = "any"
    \/ Kind(s) = "BLOCK_VALUE" /\ target \in {"any", "do"}
    \/ Kind(s) \in {"STRUCT", "PACKAGE"}

\* Where the search for the scope a break leaves comes to an end.
StopsBreak(s, target) ==
    \/ Kind(s) = "LOOP" /\ target \in {"any", "for"}
    \/ Kind(s) = "BLOCK" /\ target = "any"
    \/ Kind(s) = "BLOCK_VALUE" /\ target \in {"any", "do"}
    \/ Kind(s) \in {"FUNCTION", "STRUCT", "PACKAGE"}

(***************************************************************************)
(* The scope a break leaves, by the target it names; NullScope when it is  *)
(* refused, Crash when it meets the parameter scope of a macro, whose decl *)
(* is NULL.                                                                *)
(***************************************************************************)
BreakTarget(target) ==
    LET chain == Chain[current]
        stop == chain[SelectInSeq(chain, LAMBDA s : StopsBreak(s, target))]
    IN CASE Kind(stop) = "BLOCK" -> Crash
         [] Kind(stop) \in {"LOOP", "BLOCK_VALUE"} -> stop
         [] OTHER -> NullScope

ReturnTarget ==
    LET chain == Chain[current]
        stop == chain[SelectInSeq(chain, LAMBDA s : Kind(s) \in {"FUNCTION", "STRUCT", "PACKAGE"})]
    IN IF Kind(stop) = "FUNCTION" THEN stop ELSE NullScope
-----------------------------------------------------------------------------
(***************************************************************************)
(* Declaring.                                                              *)
(***************************************************************************)
NewScope == Len(scopes) + 1

NextAnon(s) == Cardinality({c \in DOMAIN scopes : Parent(c) = s /\ Ident(c) = NoName})

\* Mutant: a new entry is linked behind the others.
LinkedLast(bucket, s) == Append(bucket, s)

\* A new entry is linked in front of its bucket.
Linked(bucket, s) == <<s>> \o bucket

\* ll_typer_scope_put(new scope of this kind and name) under `parent'.
PutUnder(parent, kind, ident) ==
    LET h == IF ident = NoName THEN AnonBucket[NextAnon(parent) + 1] ELSE NameBucket[ident]
    IN /\ Len(scopes) < MaxScopes
       /\ scopes' = Append(scopes, [kind |-> kind, parent |-> parent, ident |-> ident])
       /\ children' = Append([children EXCEPT ![parent][h] = Linked(@, NewScope)],
                             [b \in Buckets |-> <<>>])

\* Mutant: hoisting goes up one scope only.
PutParentOneUp(hoist) == IF hoist THEN Parent(current) ELSE current

\* Where ll_typer_scope_put hangs a scope; with a NULL parent it crashes.
PutParent(hoist) == IF hoist THEN Parent(Parent(current)) ELSE current

ll_typer_scope_put(kind, ident, hoist) ==
    /\ hoist => current # Package /\ PutParent(TRUE) # NullScope
    /\ PutUnder(PutParent(hoist), kind, ident)

Enter(construct) ==
    /\ Len(open) < MaxOpen
    /\ current' = NewScope
    /\ open' = Append(open, [construct |-> construct, scope |-> NewScope, saved |-> current])

\* A function whose body is done is only left.
Typing == Top.construct # "function"
InStatements == Typing /\ Kind(current) \in {"PACKAGE", "BLOCK_VALUE", "MACRO_EXPANSION", "LOOP", "STRUCT"}

\* A variable declaration.  A `$name' is hoisted, and its initializer is typed
\* in the current scope; that of a plain one in the scope of the variable.
DeclareVariable(name, expand, initializer) ==
    /\ InStatements
    /\ ll_typer_scope_put(IF Kind(current) = "STRUCT" THEN "FIELD" ELSE "LOCAL", name, expand)
    /\ IF initializer /\ ~expand THEN Enter("initializer") ELSE UNCHANGED <<current, open>>

\* A block with a scope of its own.  At package level only a block expression
\* has one.
EnterBlock ==
    /\ Typing
    /\ Kind(current) # "LOOP"
    /\ ll_typer_scope_put("BLOCK_VALUE", NoName, FALSE)
    /\ Enter("block")

\* A block in a loop, or a block statement of the package: its declarations
\* go to the scope around it.
EnterBareBlock ==
    /\ Typing
    /\ Kind(current) \in {"LOOP", "PACKAGE"}
    /\ Len(open) < MaxOpen
    /\ open' = Append(open, [construct |-> "bare block", scope |-> NullScope, saved |-> current])
    /\ UNCHANGED <<scopes, children, current>>

EnterLoop ==
    /\ Typing
    /\ ll_typer_scope_put("LOOP", NoName, FALSE)
    /\ Enter("loop")

EnterStruct(name) ==
    /\ InStatements
    /\ ll_typer_scope_put("STRUCT", name, FALSE)
    /\ Enter("struct")

EnterFunction(name) ==
    /\ InStatements
    /\ ll_typer_scope_put("FUNCTION", name, FALSE)
    /\ Enter("signature")

\* A parameter, or the type a generic parameter is bound to in an instance.
DeclareParameter(name) ==
    /\ Top.construct = "signature"
    /\ \/ ll_typer_scope_put("PARAMETER", name, FALSE)
       \/ Ident(current) = NoName /\ ll_typer_scope_put("STRUCT", name, FALSE)
    /\ UNCHANGED <<current, open>>

EnterBody ==
    /\ Top.construct = "signature"
    /\ Len(open) < MaxOpen
    /\ ll_typer_scope_put("BLOCK_VALUE", NoName, FALSE)
    /\ current' = NewScope
    /\ open' = Append([open EXCEPT ![Len(open)].construct = "function"],
                      [construct |-> "block", scope |-> NewScope, saved |-> current])

\* A call of a polymorphic function that has no instance yet: the instance is
\* an anonymous function scope beside the original.
InstantiateFunction(name, expand) ==
    /\ Typing
    /\ LET fn == ll_typer_find_symbol_up_scope(name, expand)
       IN /\ fn \notin {NullScope, Crash}
          /\ Kind(fn) = "FUNCTION"
          /\ PutUnder(Parent(fn), "FUNCTION", NoName)
    /\ Enter("signature")

\* A macro call: a scope for its parameters ...
ExpandMacro ==
    /\ Typing
    /\ ll_typer_scope_put("BLOCK", NoName, FALSE)
    /\ Enter("arguments")

DeclareMacroParameter(name) ==
    /\ Top.construct = "arguments"
    /\ \/ ll_typer_scope_put("MACRO_PARAMETER", name, FALSE)
       \/ ll_typer_scope_put("STRUCT", name, FALSE)
    /\ UNCHANGED <<current, open>>

\* ... and inside it one for the clone of its body.
EnterExpansion ==
    /\ Top.construct = "arguments"
    /\ ll_typer_scope_put("MACRO_EXPANSION", NoName, FALSE)
    /\ current' = NewScope
    /\ open' = [open EXCEPT ![Len(open)] = [@ EXCEPT !.construct = "expansion", !.scope = NewScope]]

\* Mutants: an instance is left for the place of the function it is made from;
\* a construct is left for the scope beyond the one around it.
ScopeAfterParent(frame) ==
    CASE frame.construct = "bare block" -> current
      [] frame.construct = "expansion" -> frame.saved
      [] OTHER -> Parent(frame.scope)
ScopeAfterTwoUp(frame) == IF frame.construct = "bare block" THEN current ELSE Parent(Parent(frame.scope))

\* Where the end of a construct goes back to: of a macro call and an instance
\* to the scope they saved, of the others to the parent of their scope.
ScopeAfter(frame) ==
    CASE frame.construct = "bare block" -> current
      [] frame.construct = "expansion" -> frame.saved
      [] Kind(frame.scope) = "FUNCTION" /\ Ident(frame.scope) = NoName -> frame.saved
      [] OTHER -> Parent(frame.scope)

Leave ==
    /\ Len(open) > 1
    /\ Top.construct # "arguments"
    /\ current' = ScopeAfter(Top)
    /\ open' = Front(open)
    /\ UNCHANGED <<scopes, children>>

Next ==
    \/ \E n \in Names, expand, initializer \in BOOLEAN : DeclareVariable(n, expand, initializer)
    \/ EnterBlock
    \/ EnterBareBlock
    \/ EnterLoop
    \/ \E n \in Names : EnterStruct(n)
    \/ \E n \in Names : EnterFunction(n)
    \/ \E n \in Names : DeclareParameter(n)
    \/ EnterBody
    \/ \E n \in Names, expand \in BOOLEAN : InstantiateFunction(n, expand)
    \/ ExpandMacro
    \/ \E n \in Names : DeclareMacroParameter(n)
    \/ EnterExpansion
    \/ Leave

Spec == Init /\ [][Next]_vars
-----------------------------------------------------------------------------
(***************************************************************************)
(* Properties.                                                             *)
(***************************************************************************)
\* The variables have their types.
TypeOK ==
    /\ scopes \in Seq([kind : Kinds, parent : Nat, ident : Names \union {NoName}])
    /\ Len(children) = Len(scopes)
    /\ \A s \in DOMAIN children : children[s] \in [Buckets -> Seq(DOMAIN scopes)]
    /\ current \in DOMAIN scopes
    /\ \A i \in DOMAIN open : open[i].saved \in DOMAIN scopes /\ open[i].scope \in 0 .. Len(scopes)

\* Two names the bucket walk cannot tell apart.
SameSymbol(a, b) == a # NoName /\ b # NoName /\ NameBucket[a] = NameBucket[b] /\ string_eql(a, b)

Declared(s, name) == {c \in DOMAIN scopes : Parent(c) = s /\ SameSymbol(Ident(c), name)}

\* What plain block structure says a name means in a chain of scopes: its
\* newest declaration in the innermost scope that has one.
Lexical(from, name) ==
    LET chain == Chain[from]
        owner == SelectInSeq(chain, LAMBDA s :
            /\ Kind(s) \in {"PACKAGE", "BLOCK", "FUNCTION", "BLOCK_VALUE", "LOOP", "MACRO_EXPANSION"}
            /\ Declared(s, name) # {})
    IN IF owner = 0 THEN NullScope ELSE Max(Declared(chain[owner], name))

AnonymousInBucket(s, name) ==
    \E c \in DOMAIN scopes : Parent(c) = s /\ Ident(c) = NoName /\ c \in ToSet(children[s][NameBucket[name]])

\* Outside of macro expansions, and for expanded names everywhere, the walk over
\* hash buckets finds what block structure says: the innermost declaration and
\* of several the newest.  It crashes only where an anonymous scope shares the
\* bucket of the name.
LookupIsLexical ==
    \A name \in Names, expansion \in BOOLEAN :
        LET chain == Chain[current]
            found == ll_typer_find_symbol_up_scope(name, expansion)
        IN (expansion \/ \A i \in DOMAIN chain : Kind(chain[i]) # "MACRO_EXPANSION") =>
               IF found = Crash
               THEN \E i \in DOMAIN chain : AnonymousInBucket(chain[i], name)
               ELSE found = Lexical(current, name)

\* Positions in the chain of the expansions an identifier is inside of.
Expansions(chain) == {i \in DOMAIN chain : Kind(chain[i]) = "MACRO_EXPANSION"}

\* The scopes of the chain that belong to the innermost expansion: those inside
\* it, itself, and its parent with the parameters.
OwnOfExpansion(chain) == {chain[i] : i \in 1 .. Min(Expansions(chain)) + 1}

HygienicIn(chain) ==
    \A name \in Names :
        LET found == FindFrom(Head(chain), name, FALSE)
        IN found \in {NullScope, Crash} \/ Parent(found) \in OwnOfExpansion(chain) \union {Package}

\* A plain name in the body of a macro that is not called from the body or the
\* arguments of another macro means a local or a parameter of the macro or
\* something of the package, never a variable of the caller: that the macro was
\* called in a loop or in a block cannot change what its body means.  (Of a macro that
\* is called there this does not hold: its body sees the parameters of the outer one.)
MacroHygiene ==
    LET chain == Chain[current]
    IN Expansions(chain) # {} /\ Cardinality({i \in DOMAIN chain : Kind(chain[i]) = "BLOCK"}) = 1
       => HygienicIn(chain)

\* The frames of the macro calls being expanded.
ExpansionFrames == {i \in DOMAIN open : open[i].construct = "expansion"}
CallerScope == open[Max(ExpansionFrames)].saved

\* A step that declares a variable with `$' while a macro is being expanded.
Hoists == /\ scopes' # scopes /\ current' = current
          /\ scopes'[Len(scopes')].kind \in {"LOCAL", "FIELD"}
          /\ scopes'[Len(scopes')].parent # current
          /\ ExpansionFrames # {}

\* A `$name' declared by a statement of the macro's body itself is declared in
\* the scope the macro was called in, so code after the call finds it there.
HoistFromBody ==
    [][Hoists /\ Kind(current) = "MACRO_EXPANSION" => scopes'[Len(scopes')].parent = CallerScope]_vars

\* Leaving a construct, whether it goes to the parent of its scope or to the
\* scope it saved, makes the scope current that was current when it was entered;
\* in particular typing an instance of a function, beside the original, comes
\* back to the call.
ScopesRestored ==
    [][Len(open') < Len(open) => current' = Top.saved]_vars

\* The frames of the function being typed.
FunctionFrames ==
    LET starts == {i \in DOMAIN open : open[i].construct \in {"signature", "function"}}
    IN IF starts = {} THEN DOMAIN open ELSE Max(starts) .. Len(open)

\* A break or a return refers to a construct that is being typed and belongs to
\* the innermost function: the code generator reads break_block_ref of the scope
\* it refers to, which is set only while that construct is generated.
ControlTargetsOpen ==
    LET mine == {open[i].scope : i \in FunctionFrames}
    IN /\ \A target \in {"any", "do", "for"} : BreakTarget(target) \in mine \union {NullScope, Crash}
       /\ ReturnTarget \in mine \union {NullScope}
=============================================================================
