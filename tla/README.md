# TLA+ models of ll_compiler

This directory holds models of the compiler in this repository (`src/`, `backends/`, `core/`), the
TLC configurations that check them on small instances, and proofs for TLAPS. The definitions are
translated from the C code; `PROJECT.json` maps every one to the lines it stands for.

## The system

`main` (src/main.c) runs a fixed sequence of passes in one thread:

    lexer <- parser -> AST -> typer -> IR generation -> x86-64 backend -> out.bin
                               |  ^
                               v  |
                        IR generation + evaluator   (constants, while typing)

The lexer is pulled by the parser one token at a time. The typer is the centre: it walks the AST,
keeps the tree of scopes, and whenever it needs a constant it calls `ll_eval_node`, which generates
IR for one expression in the middle of typing, runs it, and returns to the typer. IR generation in
turn compiles the functions the constant calls on the way. So although nothing runs concurrently,
three recursive activities (typing, generating, evaluating) are nested in one another and share the
array of functions, the array of blocks with its free list, `current_function`, `current_block`,
`current_scope` and the arenas. That sharing is where the hard behaviour is.

| Component | State | Operations | What makes it correct |
|---|---|---|---|
| arena allocator (core/core1.h) | chunks, `used`, `current` | alloc, alloc_aligned, realloc | live blocks lie inside their chunk, are disjoint, and stay in place |
| scope tree (src/typer.c) | scopes, hash buckets, `current_scope` | enter and leave constructs, declare, look up, resolve break and return | names mean what block structure says; macros are hygienic; every construct is left for where it was entered |
| type interning, casts (src/typer.c) | intern map | intern, equality, implicit casts | one pointer per type |
| expression typing, macros, instances (src/typer.c) | AST, instance maps | type a node, order arguments, expand, instantiate | every node gets its type; an instance is made once |
| constant folding (src/typer.c) | const_value of nodes | fold | the folded value is that of evaluation |
| IR block pool (backends/ir.c, src/eval.c) | blocks, `next` links, free list | create, insert behind a break, release | chains do not run into one another |
| IR generation (backends/ir.c) | function being generated | statement, expression | the IR means what the AST means |
| evaluator (src/eval.c) | frames, C stack | ll_eval_block, ll_eval_fn, ll_eval_node | the constant is what the source means |
| lexer (src/lexer.c) | position, one token | next token, peek, consume | a file is read as the tokens it was written with |
| string interning (src/common.c) | a table of 256 buckets | intern | two strings have one pointer when they are equal, and only then |
| parser (src/parser.c) | that of the lexer | parse | precedence; every input ends |
| x86-64 backend, layout (backends/x86_64.c) | text section, offsets of blocks, fixups | block, branch, call, relocation | branches reach their targets |
| x86-64 backend, operands (backends/x86_64.c, src/callconv.c) | scratch registers, slots of the frame, what a register of the IR stands for | an op, prologue, epilogue | the instructions do what the source means; a function returns to its caller with its registers |

Nothing is concurrent or persistent: there are no interleavings of threads, crashes to recover from
or messages. The hard behaviours are state shared by nested activities, recycled blocks, stale
references, order of generation, and limits of buffers and operand encodings. An error of the
program being compiled ends the process (`ll_typer_report_error_done`), so the models stop there.

## The modules

| Module | Code | State and actions |
|---|---|---|
| `Arena` | `Oc_Arena` in core/core1.h | chunks with `size` and `used` in words, `current`, and every block handed out; one action each for `oc_arena_alloc`, `oc_arena_realloc`, `oc_arena_alloc_aligned` |
| `Allocator` | none: the promise of the arena | the blocks given so far; one action, which gives a block that meets none of them, and may take one back to give it longer |
| `Scopes` | scopes of src/typer.c | the scopes with their hash buckets, `current_scope`, and the constructs being typed (the call stack of the typer); an action for each place that enters, leaves or declares |
| `IrPool` | `LL_Backend_Ir.blocks` and the free list | operators: create behind a block, create loose, the dead block of a break, entry blocks, release |
| `IrBlocks` | who owns the blocks (backends/ir.c, src/eval.c) | the pool, entries, the context that nested compilations save, and a history variable `owner`; actions are the operations of the code generator that touch blocks |
| `IrGen` | `ir_generate_statement`, `ir_generate_expression` | no state: a recursive function from source to IR, on the pool of `IrPool` |
| `AstMeaning` | none: the reference | what the same source means, by structure |
| `IrEval` | src/eval.c | frames, the C stack and the op at hand; an action per kind of op; composes `IrGen` (what is run) and `AstMeaning` (what should come out) |
| `X86Layout` | `x86_64_backend_generate`, `x86_64_generate_block` | size of the text section, offsets and fixups of blocks, relocations, and the branches, calls and returns written so far; an action per kind of op, per relocation, prologue, epilogue |
| `Instances` | calls in src/typer.c (`AST_KIND_INVOKE`), `ll_typer_match_polymorphic`, the types they are made of | the interned types, the instances of every function, and the bodies being typed (`frames`, the C stack of the typer). An action declares a function, one types a call of each kind (of a function, of an instance that is there, of one to be made), one ends a body, and one each stops with an error, with undefined behaviour, with the stack full |
| `Syntax` | ast.h; the reference for `Parser` | no state: trees, and how a tree is written, with parentheses only where precedence would make another tree of it |
| `Parser` | src/parser.c, on the buffer of src/lexer.c | the file (its tokens) and the parser at the end of it; one action, `ParseFile`, over mutually recursive operators, one per function of the parser. A parser is a record: where it is, whether it has complained, what stopped it, and the node a function returns |
| `Interning` | the hash, `string_eql` and `ll_intern_string` of src/common.c | no state: a string and a table give the string that is found and the next table; words of 64 bits are four parts |
| `Lexer` | src/lexer.c | no state: from the characters of a file and a position to the next token, what is behind it and what stops the lexer, and from there to all tokens |
| `Spelling` | none: the reference for `Lexer` | how tokens are written, and which must be kept apart |
| `SourceText` | `parser_create_from_file`, `ll_compiler_context_create` | composes `Lexer`, `Interning` and `Parser`: a file of characters as `Parser` reads it |
| `TypeLayout` | sizes, alignments and offsets of types (src/typer.c, backends/ir.c) | no state: types as records, their layout and their width |
| `IrOperands` | operands of backends/ir.h | no state: an operand is its kind and its value |
| `IrValues` | expressions, statements and functions of backends/ir.c: numbers, pointers, arrays, slices, strings, structs, casts, calls | no state: from typed expressions to the ops of the IR, without branches |
| `X86Moves`, `X86Code` | the code of an operand and of an op in backends/x86_64.c | no state: operators on a builder, the record of what the generator keeps for a function (slots, scratch registers, `X86_64_Backend_Ctx`) |
| `X86Machine` | none: the processor, for the instructions that the backend writes | registers, memory by bytes, flags, the calls under way; one action, an instruction |
| `X86Program` | `x86_64_backend_generate`, `x86_64_run` | the function being generated, its builder, then the program as it runs: an action for each kind of op, prologue, epilogue, linking and one instruction; composes `Typing`, `IrValues`, `X86Code` and `X86Machine`, with `ValueMeaning` and `SourceMeaning` for what should come out |
| `ValueMeaning` | none: the reference | what a typed program means: numbers of a type, paths into aggregates, no bytes |
| `Typing` | `ll_typer_type_expression`, `ll_typer_type_statement`, the casts and the folding of src/typer.c, on integers | no state: a recursive function from source to the typed program that `IrValues` takes. Names, and whether an error ended the compiler, are a record that is passed along |
| `EvalValues` | the ops of src/eval.c on integers, `ll_eval_node` | no state: the value of a `const` expression, through the ops that `IrValues` makes of it; `IrEval` has the control flow |
| `SourceMeaning` | none: the reference | what a source computes: integers, with no width but that of the names |
| `ArenaProofs`, `IrBlocksProofs`, `ScopesProofs`, `InstanceTypesProofs`, `InstancesProofs`, `X86LayoutProofs`, `X86CallsProofs` | | theorems about `Arena`, `IrBlocks`, `Scopes`, `Instances` and `X86Layout` |
| `MC...` | | instances for TLC |

How they fit: `IrBlocks` shows that chains of blocks are lists that do not meet, which is why `IrGen`
compiles each function into a pool of its own and `X86Layout` names blocks by their place in the
chain. `IrEval` shows of the code that `IrGen` makes what `X86Layout` assumes
(`BlockAssumption`: `BlocksCanBeLaidOut`); `MCX86Ir` runs `X86Layout` on
that code, so that TLC evaluates the assumption on it. The backend is taken in two halves that do not
depend on one another: where code comes to lie (`X86Layout`, branches and calls by displacement, ops
as numbers of bytes) and what the code of an op does (`X86Program`, ops without branches,
instructions as records, a call by the number of its function).

`AstMeaning` is the abstract specification of the evaluator, stated as a function since a constant
has one result: `ValueIsMeaning` and `EndsWithValue` say that `IrEval` implements it. In the same way
`ValueMeaning` is the specification of the code generator, and `RunsAsMeant` says that what the
processor does with the generated code implements it; `SourceMeaning` is that of the whole way from a
source, through typing, folding and evaluation, in `KeepsNumbers`. `Allocator` is the specification of `Arena`, and
`ImplementsAllocator` a refinement: the mapping forgets chunks and padding.

Definitions whose comment starts with "Mutant" are changed forms of the definition below them, one
for each property; each property is known to fail with its mutant.

## What the runs show

Passing runs:

| Run | Instance | Shows |
|---|---|---|
| `arena` | pages of 64 bytes (five words of data), requests 0, 4, 8, 16, 24 and 50 bytes, alignments 4 and 16, three chunks, four blocks | blocks lie inside their chunk (`BlocksInsideChunks`), are disjoint (`BlocksDisjoint`), and stay where they are (`BlocksStay`); `used` is past `size` only by the words of the one block that `oc_arena_realloc` counted twice (`TypeOK`). The sizes lie on both sides of a word and of a chunk, so every branch of the three functions is taken; four blocks let a reallocation copy over a block in front of it and behind it. Every step is one of `Allocator` or changes nothing it sees (`ImplementsAllocator`) |
| `scopes` | three names in one bucket, one a prefix of another, five scopes, three constructs open | what a name finds is what block structure says (`LookupIsLexical`); a macro does not see its caller (`MacroHygiene`); `$name` of a macro's body goes to the caller (`HoistFromBody`); breaks and returns refer to constructs that are open (`ControlTargetsOpen`); constructs are left for where they were entered (`ScopesRestored`). Five scopes hold a macro called in a block or loop with a variable on either side |
| `ir_blocks` | six blocks, two functions, three compilations deep | chains of functions, of the constant and of the free list stay apart (`ChainsApart`, `NoRing`), the generator writes to blocks of its own function (`WritesItsOwn`), and what was given is not taken back (`OwnersKept`). Six blocks let a constant be released, its blocks be taken by a function called from the next constant, and be asked for again |
| `ir_eval` | four hundred constants: conditionals, do-blocks, loops (as statements and for their value), nested in one another, with breaks out of one to three constructs; calls, last and in the middle, in calls and of functions that call | where calls come last (`CallsComeLast`) the value is that of the source (`ValueIsMeaning`) and every evaluation ends with it (`EndsWithValue`); what goes wrong in the others goes wrong only when a call reads its arguments or has come back (`FaultsNeedACall`); conditional branches fall through, a block has one branch |
| `parser` | about 130000 files. Trees: an expression of two levels as the initializer of a variable, over seven binary operators of different strength, prefixes, subscripts, calls, casts, conditionals, blocks; and pairs of statements of every kind. Texts: every sequence of four tokens over twelve (as an initializer, `a = ...;`) and of four over eleven (as a file), of three as arguments, of five over `a ; { } if else`. Characters: numbers of up to three digits in each of the four bases and of up to two on either side of a dot; every two of 33 words with three kinds of white space and comment between them, left out where nothing would be glued together; strings of up to four letters and escapes; names of all types; trees of statements spelled out; every short text behind a quotation mark | the tokens are those that were written (`LexesAsWritten`): kind, number, letters; a tree, written down, is read as that tree (`ReadsBack`); a file taken without a complaint is in the tree, token by token (`LosesNothing`); no loop stays in its place without a complaint (`MovesOnOrComplains`), on the files of characters as on those of tokens. Two levels put every operator on either side of every other one; four tokens hold a block or list with an element that may be empty, wrong or cut off |
| `instances` | 5854 programs, each with function types in one hash bucket or apart: a function of one parameter in twelve forms (`int`, `%T`, `%T*`, `%T[6]`, `%T[6]*`, `%T[%N]`, `%T[:]`, `%T` without a name ...) called twice with variables of seven types (arrays of 6 and of 36, whose hashes end in one byte, and of 3), by value, by address, as a type, as a method; two functions of one type, called in turn, or of two types of which calls that come before the second function change the first; functions that call another one or themselves with what they were given; three parameters with defaults and every way to give them up to three arguments by place or key; two parameters of one generic | no instance is made twice (`OneInstance`), unless a method call has changed the type of a function in place to that of an instance (`ChangedInPlace`); a call gets the instance of the types of its own arguments (`BindsAsSeen`), and calls are taken when each argument can be given to a parameter of its own, and only then (`TakenIffLegal`, of calls that are no methods). Two calls are the least in which the second finds what the first left behind; four bodies deep hold every nesting of these programs but the recursion that never ends |
| `x86_layout` | programs of two or three functions, with loops whose turn is around 128 bytes, breaks, natives (one with an offset from the evaluator, called before and behind it), externs, calls back and forth; and 276 functions from `IrGen` | branches in reach land and fall through where they should (`JumpsInReachLand`), calls reach their function (`CallsLand`), but for one that took an offset of the evaluator for one in the text (`Misled`); a relocation writes the branch it was made for, once (`PatchesOwn`) |
| `x86_code` | 268 typed programs without branches: casts between all nine integer types, the five operations and six comparisons on each of them at the edges of their ranges, logic, assignments inside of expressions, pointers and pointers to pointers, arrays of every element type, strings and slices cut at both ends, structs with gaps, nested, behind pointers, by value as argument and result, of less than eight bytes and of no multiple of eight, six arguments of every width, calls in calls; and 389 sources that are typed first: operations and comparisons of two of eight integer types, assignments and constants from each type to each, folds and `const` expressions of each operation and type, literals, negations, casts and logic in and out of constants | a program returns what it means, whatever registers and stack held before (`RunsAsMeant`); one that the typer takes is compiled, and returns the number its source computes (`KeepsNumbers`); a function returns behind its call with the stack and the saved registers as they were (`ReturnsToCaller`); every slot and argument lies in the frame and the two do not meet (`FrameHolds`); calls are made with an aligned stack (`StackAligned`) |

In `x86_code` a byte has two bits, so that the types of 8, 16, 32 and 64 bits hold the numbers below 4,
16, 256 and 65536: every number at an edge is at an edge still, widths keep their ratios, and a write
that is too wide, or a sign that is not extended, shows. An operand holds numbers below 64
(`ImmediateLimit`; 2^28 in the code), which lies inside the range of 32 bits as it does there. Memory
is 512 bytes, more than the deepest of the calls needs, and starts as all 1s or all 2s (`Garbage`), so
that a value read without having been written differs from what is meant in one of the two; a constant
that is never set is one of the two numbers, likewise.

Of the sources the typer stops at about a hundred and takes the others; some two hundred of those meet
nothing of `SourceMeaning` and `ValueMeaning`, so that `KeepsNumbers` demands their number. The numbers
are, for each type, one that needs all its bits and a small one: two types of two numbers each are
what a cast, a sign or a width can confuse.

Deadlock is not checked: every model ends (`Finish`), is cut by a bound, or stops where the compiler
stops with an error.

Runs that TLC must find violated; each is a place where the code does not do what a text of the
repository says (`findings` in `PROJECT.json` quotes it):

| Run | The code |
|---|---|
| `parser_names` | `uint32` and `uint` are one name, and so one type of 64 bits: the table of strings compares the shorter length, and both are in one bucket |
| `instances_bind` | arrays whose lengths hash to one of 256 buckets (as 6 and 6, or 6 and 36) are one type whatever their elements, and so are slices: a call gets the instance made for another one |
| `ir_eval_caller` | `ll_eval_fn` does not pop its frame: after a call, a constant reads and writes the frame of the function it called |
| `x86_return` | a return that is not the last op of its function falls into the code behind it |

Met on the way and in the models, without a run of their own: the body of a macro called from the body
of another macro sees the locals and parameters of that one, against the comment in src/typer.c:2104
(`MacroHygiene` is about macros called elsewhere); `sizeofj`, which shares a bucket with `sizeof`, is
read as that; since `uint32` is no name of its own, the 32-bit unsigned type that the typer makes can
be reached by no program (`Typing` and `X86Program` have it, as the compiler does). A branch back by 127 or 128 bytes is
made short and jumps forward (`InReach` excepts it); `$name` in a block or loop inside a macro is not
declared in the caller (`HoistFromBody` is about the body itself). The typer takes a method whose
`this` would have to be narrowed, though the plain call is an error; a polymorphic function that
calls itself is typed until the stack is full; an argument given twice, by place and by key, leaves
one argument too many; a method on `%T* this` of a value gives the function, and every function of
its type, a parameter of that pointer type, and binds `T` a second time, to what lies behind the type
in memory; a type changed so may equal the one of an instance, and when it is newer and in the same of
the 256 buckets it is found first, so that the instance is made a second time (src/typer.c:1923;
`OneInstance` excepts it); a method on `%T this` reads through NULL when its code is generated; a second `%T` of one
function hides the first. In the evaluator too an early return
goes on; an integer as a condition is compared with register 0 instead of 0 (`Compared` of `IrEval`;
the constants of `ir_eval` hold 0 there); the types of arguments are looked up in the function
called (`InBounds`, `CurrentFunction`); `oc_arena_alloc_aligned` spins when the chunk is full. The
parser consumes nothing on an error, so that after one it may never end (`a + ;` in a block ends,
`{ ) }` does not); nor does it at a character that starts no token. At the end of the file it reads
tokens that were never set, an identifier that ends the file fails an assertion, and so does `cast`
behind an operand. `a * *p` and `a * [1]` are read as pointer types, and `break do { ... }` as a
break out of a do-block: the trees of `parser` hold those in parentheses. A last token with nothing
behind it is not looked at. A `b` behind any 0 of a number starts a binary one (`0x10b`), likewise an `x` or an `o`; a letter
behind a fraction that no digit can be (`1.p`) leaves a float, any other one gives the dot back;
`1..2` is read as the number `1.` first. A string that is not closed ends with the file, and one whose
`\x` has no two digits may fail an assertion; a quote and a backslash have no escape, and the `^` that
the parser has a precedence for is no token. A native called at compile time keeps the offset of its evaluator stub
(src/eval.c:97), and a call from a function in front of it takes that for its offset in the text
(backends/x86_64.c:2338; `CallsLand` excepts it).

`ValueMeaning` names what a run of a program came into that the backend does not do as meant, at the
place where it happens, and `RunsAsMeant` excepts runs that met one. The programs of `x86_code` meet
every one of them; the lines are of backends/x86_64.c unless another file is named:

| `met` | What the code does |
|---|---|
| division of unsigned | 1969–2037: the divisor is `rdx`, which has just been cleared |
| division of narrow | 1952–2037: the dividend is extended with `cqo`, from the 64 bits of a register that holds fewer |
| comparison of unsigned | 2039–2083: the conditions of signed numbers |
| comparison of comparisons | 2039–2083: a comparison leaves its result in the flags, which the second one overwrites |
| wide literal | 1587: a literal that is no operand is stored with 64 bits, whatever the width of its variable |
| assigned after it was read | 1395: a variable that is an operand is read when its op is done, behind an assignment in the other operand |
| narrow index | 1762: an index of less than 64 bits is added with what lies behind it |
| small aggregate | 699: an aggregate of less than eight bytes is moved with eight |
| odd copy | 596–637: an aggregate copied through a pointer is copied by words of eight bytes, over its end |
| cast of a cast | backends/ir.c:926–938: the inner one is dropped |
| logic of numbers | 1856–1870: the truth of a number keeps the number, and `&&` and `\|\|` are bitwise |

Likewise `SourceMeaning`, for what happens to a number before there is code. A number that leaves its
type ("leaves its type") has no meaning there; the others are places where the compiler makes another
number of it, and `KeepsNumbers` excepts runs that met one:

| `met` | What the code does |
|---|---|
| difference of constants | src/typer.c:1694, 1712: the fold assigns the right operand to the left one and to the result |
| negative constant | backends/ir.c:620–629: the number is or-ed into the bits of the operand kind |
| constant is a literal | src/eval.c:975–979: a result that is no immediate operand, register or local is not taken, and the value is not set |
| cast in a constant | src/eval.c:707: a cast copies its 64 bits |
| comparison in a constant | src/eval.c:557–583: the numbers are compared as unsigned, since the type looked at is that of the result |
| logic in a constant | src/eval.c:626–705: the truth of a number has all bits set, and `&` and `\|` are bitwise |
| wider than its variable | src/typer.c:1471–1509: `l op= r` gets the type of the operation, which may be wider than `l` |
| value of an assignment | the store of an assignment uses the register up, and the value is read again |

The typer stops, or the compiler behind it, at: a comparison or logic of two constants and the
remainder of two constants (src/typer.c:1743 `oc_todo`, and an assertion); an operation on a register
without a type of its own in a constant, as `x + const ((1 + 2) + 3)` (src/eval.c:382–400 has no case
for it); a narrower constant declared by a wider one, since an implicit cast is no constant; a name of a
signed constant given to a narrower signed type, whose lower bound is the positive 2^(w-1)
(src/typer.c:1072); a division of constants by zero, or of the least 64-bit number by -1, which
traps (src/typer.c:1696, src/eval.c:605; `NoQuotient`); `true` where no type is expected, which
reads through NULL (1180); a cast of a sum that is wider. A literal takes the type that is expected without a check (1260), a negation narrows its operand
to it (1782–1788), and what is returned is neither checked nor cast (2376). Sources of all of these but
the traps are among the 389.

The backend stops at an array literal of variables ("types differ"), at a slice whose start is a
variable (its scratch registers are used up, 342) and at an assignment to a parameter of less than
eight bytes by value (no such store); these programs are among the 268 and end `refused`.

### Fairness

Only `IrEval` has a liveness property. Its specification has `WF_vars(Next)`: the evaluator is a
loop in the only thread of the process, so whenever it can take a step it takes one. Nothing weaker
would let any program end, and nothing stronger is used.

## What is proved

`ArenaProofs`, for every chunk size that is a multiple of 8, every set of requests and every set of
alignments that are multiples of 8 or at most 8 (`ChunkAssumption`, `RequestAssumption`,
`AlignmentAssumption`):

- `ArenaTypeOK`, `ArenaInside`, `ArenaDisjoint`, `ArenaStay`: the four state and action properties of
  the run `arena`. The first one bounds `used`. It does pass `size`: when `oc_arena_realloc` moves a
  block it counts its words a second time (core/core1.h:663). But it never does by more than that,
  since nothing is placed or grown in such a chunk any more;
- `ArenaImplementsAllocator`: the refinement, from the same invariant: what a step gives meets no
  block that is left, and a block that is not taken back stays what it is.

`BlocksDisjoint` is not inductive. A new block starts at `used`, so every block must end below `used`
of its chunk; and `oc_arena_alloc` enters the next chunk of the list without asking whether the
request fits there, so one needs that `current` always is the last chunk, which holds because nothing
ever resets the arena. The invariant adds both. The three operations place a block in the same way,
which one lemma covers. On top of it, `Overruns` says what a chunk counts beyond its words: a second
time, the block that ends that far below `used`. It needs the first invariant, by which only the
last chunk changes, and that a block is placed, or grows, only where `used` stays within `size`.

`IrBlocksProofs`, for every size of the pool, number of functions and depth of compilations
(`BoundsAreNaturals`):

- `BlocksInv`: the inductive invariant; from it `BlocksTypeOK`, `BlocksApart`, `BlocksWritten`,
  `BlocksNoRing` and `BlocksOwnersKept`, all five properties of the run `ir_blocks`.

`ChainsApart` looks from two starts along their chains, which no single step can be argued about. The
invariant is local instead: a link stays with one owner, no two blocks link to the same one, and
nothing links to the start of a chain (`Linked`); a start belongs to whose chain it is (`Started`).
So the block that the free list gives away is in no other chain, and a ring of the new links, the new
block taken out, is one of the old links. That the generator comes back
to its own function needs the third part, `Compiling`: a constant is compiled outermost only, so the
block in the saved context cannot have been released in between.

`ScopesProofs`, for every set of names, every hash function and every number of scopes and of
constructs open (`NameAssumption`, `BucketAssumption`, `BoundAssumption`):

- `ScopesInvariant`: the inductive invariant, of three parts. `Tree`: a scope comes after its parent,
  and the parent of a macro expansion is the block of its arguments. `Hung`: a bucket has the children of its scope, newest
  first, and every one that has a name hangs in the bucket of that name. `Frames`: each construct being typed saved the
  scope in which the one below it is, and the current scope is that of the top one.
- `ScopesTypeOK`, `ScopesLookup`, `ScopesHygiene`, `ScopesTargets`, `ScopesComeBack`, `ScopesHoist`: all
  six properties of the run `scopes`.

`Chain`, the scopes from one upwards, is a recursive function, which is what it says only because a
parent comes first: were it not so for some scope, there would be a least one (`ChainIs`).
`ScopesLookup` compares a walk with a definition by least and greatest elements: in the bucket the
first entry with the name is the newest, as entries of a bucket decrease; and the first scope of the
chain that has one is the innermost. For `ScopesTargets` the loop, block or function that the walk
finds on the chain must be one that is open: the chain of the current scope goes from frame to frame
(`ChainStood`) as far as the function that is innermost, and ends the search there, also when that
function is an instance, whose scope is not inside the place of its call.

`InstancesProofs`, for every set of programs whose calls go to functions declared before (or to the
function itself), whose methods have a `this` that is passed by value and without a key, and whose
bodies name no generics but those of their function (`ProgramsAssumption`); for every set of
generics, every set of names for wraps of arrays and every way to put their lengths in buckets (`WrapAssumption`,
which only keeps slices, and names that stand for something else, apart) and every depth of the stack:

- `InstancesTypeOK`, `InstancesOneInstance`, `InstancesBindAsSeen`, `InstancesTakenIffLegal`: all four
  properties of the run `instances`;
- `Invariant` and `CallsInvariant`, the invariants they follow from.

`InstanceTypesProofs` has the lemmas about types. The set of known types only grows, and has one type
for each kind and bucket of arrays (`KnownTypes`, `Alike`); so a name that was looked up once gives the same type
whenever it is looked up again with the same scope, and makes no new one (`ResolvesAgain`,
`TypesOfAgain`). A generic that is bound to garbage gives garbage, which is told apart (`Like`).

`OneInstance` is far from inductive. An instance is made of a body that may be typed while other
bodies, also of the same function, are typed within it; nothing in a single step says that no other
one for the same types was put in between. The invariant adds, for the stack of bodies:

- `IRepeats`: a call that a body is waiting for would ask for the same types if it were typed again,
  whatever pointer a method call has since given the function it calls: what converts to a pointer is
  that pointer (`AsksAgain`);
- `IBehind`: of two bodies for the same types, the inner one is not past the call that the outer one is
  waiting for, and at that call it has asked for the same;
- `INoInstance`: of what is being made, no instance is found.

So the inner one of two bodies for the same types asks, at that call at the latest, for a body that
is being made already, finds no instance of it, and never ends: no `Return` makes a second instance
(`NotDone`). In the model such a program ends in `Overflow`, in the compiler it overflows the stack.
The records of function types are unique but for those that are changed in place (`IUnique`), which
is where the exception `ChangedInPlace` comes from. It is needed: the proof without it failed, and
the run has such a program.

For `BindsAsSeen`, what an instance is bound to is a function of the types it was made for
(`BoundFor`), whichever call made it; and a call of a function whose type is as written asks for what
its arguments are (`AskedAsWritten`). Two parameters may name one generic; the last one decides, and
`BindsArguments` leaves the others out (`hidden`). For `TakenIffLegal`, the only places that `Legal`
can choose are the ones that the code computes (`TargetsFacts`), and a generic parameter suits a type
just when the wraps of the one are the outer wraps of the other (`FitsIs`, `IsFits`). Methods are
not in `TakenIffLegal`, and neither are calls that meet mixed-up arrays (`AsWritten`).

`X86LayoutProofs`, for every program whose branches name blocks of their function and whose blocks
have one branch at most, a conditional one at the end (`ProgramsAssumption`):

- `LayoutInv`: at every step, each branch written so far has reached its target or waits for a
  relocation of the function at hand that is still to be done;
- `LayoutLands`: the property `JumpsInReachLand` of the run `x86_layout`.

`JumpsInReachLand` speaks of the end only. The invariant says of every branch in the text that it is
`Reached` or `Pending`, and of every relocation that a branch waits for it (`Waits`). Applying a
relocation keeps this because ends of branches increase along the list, so that one branch only has
its four bytes where the relocation writes; that a relocation's field is not overwritten by a later
branch needs that a block makes one relocation at most, which is where the assumption on blocks is
used. A conditional branch falls through because it is the last op of its block: it ends where the
next block will start (`FallsThrough`), and the next block gets its offset there.

`X86CallsProofs`, from the same assumption:

- `LayoutLinks`: at every step, each call written so far has the distance to its function, was made
  with an offset of the evaluator, or waits for a relocation that is still to be done;
- `CallsReach`: the property `CallsLand`;
- `LayoutPatches`: the four bytes of the relocations of a function are in the text, apart, and 0
  until each is done; from it `PatchesMine`, the property `PatchesOwn`, and `LayoutTypeOK`. With
  `LayoutLands` these are all four properties of the run `x86_layout`.

Calls are linked after all functions, branches after each. So what is known of a call while the text
grows is said by three cases (`Reaches`, `Stale`, `Awaits`), and a call changes case in one step only:
the relocation with its place is done. Places of relocations increase, which makes that relocation
the only one; and it finds `-end` in the field, so that adding the offset of the function gives the
distance.

Model-checked only:

- everything about `Lexer`, `Interning`, `IrGen`, `AstMeaning`, `IrEval`, `Syntax`, `Parser`,
  `IrValues`, `ValueMeaning`, `Typing`, `EvalValues`, `SourceMeaning` and `X86Program` (with `X86Moves`
  and `X86Code`): they are `RECURSIVE` over the source or the types, or use such an operator, and what
  such an operator computes is beyond what can be proved here;
- liveness (`EndsWithValue`).

## What is not modelled

- Components with status `not_modelled` in `PROJECT.json`, with the reason for each.
- In `Arena`: `oc_arena_save`, `restore` and `reset`, which nothing calls.
- In `IrGen` and `IrEval`: aggregates, pointers, casts, strings, natives; numbers are naturals too
  small to wrap.
- In `Parser`: tokens that the parser treats alike stand for one another (`1` for all literals, `=` and
  `+=` for all assignments).
- In `Lexer`: the character 0, which ends a file, numbers that leave 32 bits and their overflow, and the
  rounding of floats, which are pairs of numbers. Positions for messages.
- In `Instances`: values, constants and return types; structs, floats and strings; variadic functions and
  macros.
- In `IrValues` and `X86Program`: floats and the float unit (its control word is saved to two slots,
  but what `stmxcsr` reads is not modelled); branches, which are `IrGen`'s and `X86Layout`'s; array
  literals with keys or of arrays; strings as arguments without a cast, literals of 64 bits as
  arguments, comparisons as arguments, negation of anything but `int`, and calls in the operand of an
  operation with assignment: the compiler stops at each of them with an assertion or `oc_todo`.
  `MEMCOPY` is made by no code. `r13` to `r15`, the last of the scratch
  registers, are not saved; no program of the run has as many values at once. The convention that
  src/callconv.c calls System V is the one of Windows, and that is what is modelled.
- In `Typing`: floats, characters, pointers, arrays, structs, calls and branches, so also constants
  that are lengths of arrays or types; `EvalValues` has no variables, as a constant of numbers has none.
- In `X86Layout`: what the bytes are, but for displacements; a break out of a plain statement block,
  which branches to the null block; the call of an extern, which stops the compiler (`oc_todo`).

## Plan

1. Struct types and their members in `Typing`.
2. Macros: the values of parameters, cloned at every use; variadic calls.
