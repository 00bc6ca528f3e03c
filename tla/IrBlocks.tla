------------------------------ MODULE IrBlocks -----------------------------
(***************************************************************************)
(* Who the IR blocks belong to (backends/ir.c, src/eval.c).  While the     *)
(* typer runs, every constant is compiled into function 0, evaluated, and  *)
(* its blocks go to a free list; the functions it calls are compiled on the*)
(* way and stay for good, with blocks from the same list.  Afterwards the  *)
(* whole program is compiled with what the list still holds.               *)
(*                                                                         *)
(* `context' is what the code generator saves and restores as it goes from *)
(* one function to another: current_function, current_block, and the block *)
(* references its C locals and scopes hold, which are blocks it created    *)
(* for that function.  It may continue in any of them.                     *)
(***************************************************************************)
EXTENDS IrPool

CONSTANTS
    MaxBlocks,      \* bound: blocks in the array
    MaxFunctions,   \* bound: functions compiled
    MaxDepth        \* bound: how deep compilations nest

ASSUME BoundsAreNaturals == {MaxBlocks, MaxFunctions, MaxDepth} \subseteq Nat

VARIABLES
    pool,       \* the blocks and the free list
    entry,      \* entry[f]: the entry block of function f
    constant,   \* the entry block of function 0, NoBlock between constants
    context,    \* what is being compiled, innermost last
    typed,      \* the typer has finished
    owner       \* history: what every block was last handed out for

vars == <<pool, entry, constant, context, typed, owner>>

Const == 0                  \* the function constants are compiled into
Free == MaxFunctions + 1    \* owner of what is on the free list
Lost == MaxFunctions + 2    \* owner of what has dropped off it

Blocks == DOMAIN pool.next
Top == context[Len(context)]
Fresh == FreshBlock(pool)

Room == pool.free # NoBlock \/ Len(pool.next) < MaxBlocks

Init ==
    /\ pool = EmptyPool
    /\ entry = <<>>
    /\ constant = NoBlock
    /\ context = <<>>
    /\ typed = FALSE
    /\ owner = <<>>

\* Block b is handed out for function f.
HandOut(b, f) ==
    owner' = [c \in Blocks \union {b} |-> IF c = b THEN f ELSE owner[c]]

\* The innermost compilation goes on in block cur, having created block b.
Continue(cur, b) ==
    context' = [context EXCEPT ![Len(context)] =
                   [fn |-> Top.fn, cur |-> cur, mine |-> Top.mine \union {b}]]

(***************************************************************************)
(* ll_eval_node up to the call of ir_generate_expression.  Only the typer  *)
(* calls it, and the code generator never calls the typer back, so nothing *)
(* is being compiled then and const_stack is empty.                        *)
(***************************************************************************)
BeginConstant ==
    /\ ~typed /\ context = <<>>
    /\ Room
    /\ pool' = ConstantEntry(pool)
    /\ constant' = Fresh
    /\ context' = <<[fn |-> Const, cur |-> Fresh, mine |-> {Fresh}]>>
    /\ HandOut(Fresh, Const)
    /\ UNCHANGED <<entry, typed>>

\* A function declaration, a call of one not compiled yet, or an instance of a
\* polymorphic one.  Without a body there is only the entry block.
CompileFunction(body) ==
    LET f == Len(entry) + 1
        b == Len(pool.next) + 1
    IN /\ typed \/ context # <<>>
       /\ f <= MaxFunctions /\ b <= MaxBlocks /\ Len(context) < MaxDepth
       /\ pool' = FunctionEntry(pool)
       /\ entry' = Append(entry, b)
       /\ context' = IF body THEN Append(context, [fn |-> f, cur |-> b, mine |-> {b}]) ELSE context
       /\ HandOut(b, f)
       /\ UNCHANGED <<constant, typed>>

\* ir_create_block(append): the block stays for later, the current one does not
\* change.
CreateBlock ==
    /\ context # <<>> /\ Room
    /\ pool' = ir_create_block_after(pool, Top.cur)
    /\ Continue(Top.cur, Fresh)
    /\ HandOut(Fresh, Top.fn)
    /\ UNCHANGED <<entry, constant, typed>>

\* A break: the code behind it goes to a block of its own.
Break ==
    /\ context # <<>> /\ Room
    /\ pool' = InsertDeadBlock(pool, Top.cur)
    /\ Continue(Fresh, Fresh)
    /\ HandOut(Fresh, Top.fn)
    /\ UNCHANGED <<entry, constant, typed>>

\* b->current_block = body_block, else_block, end_block, break_block, ...
GoOnIn(b) ==
    /\ context # <<>>
    /\ b \in Top.mine
    /\ Continue(b, b)
    /\ UNCHANGED <<pool, entry, constant, typed, owner>>

\* Mutant: current_block stays the one of the function that is finished.
FinishFunctionWithoutRestore ==
    /\ context # <<>> /\ Top.fn # Const
    /\ LET outer == SubSeq(context, 1, Len(context) - 1)
       IN context' = IF outer = <<>> THEN <<>>
                     ELSE [outer EXCEPT ![Len(outer)].cur = Top.cur]
    /\ UNCHANGED <<pool, entry, constant, typed, owner>>

\* The body is done: current_function and current_block are those from before.
FinishFunction ==
    /\ context # <<>> /\ Top.fn # Const
    /\ context' = SubSeq(context, 1, Len(context) - 1)
    /\ UNCHANGED <<pool, entry, constant, typed, owner>>

\* ll_eval_node after the evaluation.
EndConstant ==
    /\ context # <<>> /\ Top.fn = Const
    /\ pool' = ReleaseConstant(pool, constant)
    /\ constant' = NoBlock
    /\ context' = <<>>
    /\ owner' = [b \in Blocks |-> CASE owner[b] = Const -> Free
                                    [] owner[b] = Free -> Lost
                                    [] OTHER -> owner[b]]
    /\ UNCHANGED <<entry, typed>>

FinishTyping ==
    /\ ~typed /\ context = <<>>
    /\ typed' = TRUE
    /\ UNCHANGED <<pool, entry, constant, context, owner>>

Next ==
    \/ BeginConstant
    \/ \E body \in BOOLEAN : CompileFunction(body)
    \/ CreateBlock
    \/ Break
    \/ \E b \in Blocks : GoOnIn(b)
    \/ FinishFunction
    \/ EndConstant
    \/ FinishTyping

Spec == Init /\ [][Next]_vars
-----------------------------------------------------------------------------
(***************************************************************************)
(* Properties.                                                             *)
(***************************************************************************)
Functions == DOMAIN entry

\* The variables have their types.
TypeOK ==
    /\ pool.next \in Seq(Nat) /\ pool.free \in Nat
    /\ \A b \in Blocks : pool.next[b] \in Blocks \union {NoBlock}
    /\ pool.free \in Blocks \union {NoBlock}
    /\ entry \in Seq(Blocks)
    /\ constant \in Blocks \union {NoBlock}
    /\ context \in Seq([fn : Nat, cur : Blocks, mine : SUBSET Blocks])
    /\ typed \in BOOLEAN
    /\ owner \in [Blocks -> Functions \union {Const, Free, Lost}]

\* Chains do not run into one another: the block behind a block of a function,
\* of the constant being compiled or of the free list was handed out for the
\* same, and each of them starts with a block of its own.  So neither the
\* evaluator nor a backend that follows `next' from an entry ever meets the code
\* of another function, and no block that is in use is on the free list, however
\* often constants recycled the blocks and functions took them for good.
ChainsApart ==
    /\ \A b \in Blocks : owner[b] # Lost /\ pool.next[b] # NoBlock => owner[pool.next[b]] = owner[b]
    /\ \A f \in Functions : owner[entry[f]] = f
    /\ constant # NoBlock => owner[constant] = Const
    /\ pool.free # NoBlock => owner[pool.free] = Free

\* The blocks the generator still writes to belong to the function it is in: a
\* constant that calls a function not compiled yet gets its own blocks back
\* after the detour.
WritesItsOwn ==
    \A i \in DOMAIN context : \A b \in context[i].mine \union {context[i].cur} : owner[b] = context[i].fn

\* No set of blocks is linked in a ring, so every walk along `next' ends.
NoRing == ~ \E ring \in SUBSET Blocks : ring # {} /\ \A b \in ring : pool.next[b] \in ring

\* A block that a function was given is never given away again, and those of a
\* constant not before its evaluation is over.
OwnersKept ==
    [][\A b \in Blocks : \/ owner'[b] = owner[b]
                         \/ owner[b] = Free
                         \/ owner[b] = Const /\ constant' = NoBlock]_vars
=============================================================================
