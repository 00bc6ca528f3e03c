----------------------------- MODULE Instances ------------------------------
(***************************************************************************)
(* Calls and polymorphic functions in the typer (src/typer.c): which       *)
(* parameter an argument is for, which type a call asks a function for,    *)
(* and the instances made of the function on the way.                      *)
(*                                                                         *)
(* A function with a parameter like %T, %T* or %T[2] is not typed where it *)
(* is declared.  A call asks for the types of its arguments; when there is *)
(* no instance of them yet, the body is cloned and typed in the middle of  *)
(* the caller's, with T bound in its scope, and becomes an instance when   *)
(* that is done.  `frames' is the stack of bodies being typed.             *)
(*                                                                         *)
(* Types are compared by address: there must be one record per type.  A    *)
(* type is [base, wraps], the wraps from the innermost on.  Of arrays only *)
(* the hash looks at the length and nothing at the elements, so there is   *)
(* one array type for each of the 256 buckets, and one slice type.  All    *)
(* functions return void; variadic functions are left out.                 *)
(***************************************************************************)
EXTENDS Naturals, SequencesExt

CONSTANTS
    Programs,   \* sequences of functions, each calling itself or one before; the last is main
    Generics,   \* the names behind a %
    Arrays,     \* the wraps of arrays and slices
    ArrayClass, \* their kind, and the bucket that the hash of a length leads to
    Count,      \* the wrap %N: an array of any length
    MaxDepth    \* bound: how deep bodies may be typed within bodies

Names == [base : STRING \ (Arrays \union {"NULL", "garbage", "type", "*"}), wraps : Seq(STRING)]
Parameters == [type : Names, named : BOOLEAN, default : BOOLEAN]
Passed == [type : Names, passes : {"value", "address", "type"}, key : Nat]
Invokes == [callee : Nat, method : BOOLEAN, args : Seq(Passed)]
Functions == [params : Seq(Parameters), calls : Seq(Invokes)]

ASSUME WrapAssumption ==
    /\ Arrays \subseteq STRING \ {"*", "NULL", "garbage", "type"}
    /\ Count \in STRING \ (Arrays \union {"*"})
    /\ Generics \subseteq STRING \ {"NULL"}
    /\ DOMAIN ArrayClass = Arrays
    /\ \A a, b \in Arrays : ArrayClass[a] = ArrayClass[b] => (a = "[:]") = (b = "[:]")
    /\ MaxDepth \in Nat \ {0}

\* A body names no generics but those of its function; a method has its `this'.
ASSUME ProgramsAssumption ==
    \A p \in Programs :
        /\ p.fns \in Seq(Functions)
        /\ \A f \in DOMAIN p.fns : \A c \in ToSet(p.fns[f].calls) :
              /\ c.callee \in 1 .. f
              /\ c.method => c.args # <<>> /\ c.args[1].key = 0 /\ c.args[1].passes = "value"
              /\ \A arg \in ToSet(c.args) :
                    arg.type.base \in Generics => \E q \in ToSet(p.fns[f].params) : q.type.base = arg.type.base

VARIABLES
    program,    \* the functions, and whether their types share a hash bucket
    known,      \* the array and slice types there are
    fnTypes,    \* the function types there are, by address: the bucket and the parameters
    declared,   \* declared[f]: the address of the type of function f
    instances,  \* instances[f]: what was made of it
    frames,     \* the bodies being typed, innermost last
    calls,      \* history: the calls that were typed
    status

vars == <<program, known, fnTypes, declared, instances, frames, calls, status>>

Nothing == [base |-> "NULL", wraps |-> <<>>]
Garbage == [base |-> "garbage", wraps |-> <<>>]    \* what memory happens to hold
TypeOfTypes == [base |-> "type", wraps |-> <<>>]

Fn(f) == program.fns[f]
Frame == Last(frames)
ThisCall == Fn(Frame.fn).calls[Frame.at]
Unbound == [n \in Generics |-> Nothing]
-----------------------------------------------------------------------------
(***************************************************************************)
(* Types.                                                                  *)
(***************************************************************************)
Wrapped(t, w) == [t EXCEPT !.wraps = Append(@, w)]
PointerTo(t) == Wrapped(t, "*")
Outermost(t) == IF t.wraps = <<>> THEN t.base ELSE Last(t.wraps)
IsPointer(t) == Outermost(t) = "*"
Element(t) == [t EXCEPT !.wraps = Front(@)]

\* ll_type_eql of a type in the bucket of ll_type_hash: of arrays and slices it
\* compares no more than the kind.
SameType(t, u) ==
    \/ t = u
    \/ {Outermost(t), Outermost(u)} \subseteq Arrays /\ ArrayClass[Outermost(t)] = ArrayClass[Outermost(u)]

\* ll_intern_type and its likes: the type found, or a new one.
Intern(types, t) ==
    LET same == {u \in types : SameType(t, u)}
    IN IF Outermost(t) \in Arrays /\ same # {} THEN [types |-> types, type |-> CHOOSE u \in same : TRUE]
       ELSE [types |-> IF Outermost(t) \in Arrays THEN types \union {t} ELSE types, type |-> t]

\* What the name is without its wraps, with the first of them, and so on.
Resolved(types, name, bound) ==
    LET found[k \in 0 .. Len(name.wraps)] ==
            IF k = 0
            THEN [types |-> types,
                  type |-> IF name.base \in Generics THEN bound[name.base] ELSE [base |-> name.base, wraps |-> <<>>]]
            ELSE Intern(found[k - 1].types, Wrapped(found[k - 1].type, name.wraps[k]))
    IN found

\* ll_typer_get_type_from_typename, where `bound' says what the generics stand for.
ll_typer_get_type_from_typename(types, name, bound) ==
    Resolved(types, name, bound)[Len(name.wraps)]

\* The types of one name after the other.
Interned(types, names, bound) ==
    LET found[k \in 0 .. Len(names)] ==
            IF k = 0 THEN [types |-> types, type |-> Nothing]
            ELSE ll_typer_get_type_from_typename(found[k - 1].types, names[k], bound)
    IN found

TypesOf(types, names, bound) ==
    [known |-> Interned(types, names, bound)[Len(names)].types,
     types |-> [k \in DOMAIN names |-> Interned(types, names, bound)[k].type]]

\* ll_typer_can_implicitly_cast and ll_typer_implicit_cast_tofrom, of two widths of
\* integers, pointers, arrays and slices.
can_implicitly_cast(from, to) ==
    \/ from = to
    \/ from.wraps = <<>> /\ to.wraps = <<>> /\ from.base = "int" /\ to.base = "long"
    \/ Outermost(from) \in Arrays \ {"[:]"} /\ Outermost(to) = "[:]" /\ Element(from) = Element(to)

implicit_cast_tofrom(from, to) == from = to \/ {Outermost(from), Outermost(to)} \subseteq {"int", "long"}
-----------------------------------------------------------------------------
(***************************************************************************)
(* Function types.                                                         *)
(***************************************************************************)
Bucket(parameters) == IF program.collide THEN <<>> ELSE parameters

\* Mutant: functions of as many parameters are equal.
FindFnByCount(types, parameters) ==
    LET equal == {a \in DOMAIN types : /\ types[a].bucket = Bucket(parameters)
                                       /\ Len(types[a].parameters) = Len(parameters)}
    IN IF equal = {} THEN 0 ELSE CHOOSE a \in equal : \A b \in equal : b <= a

\* ll_typer_get_fn_type: the newest one in the bucket that is equal now.
FindFn(types, parameters) ==
    LET equal == {a \in DOMAIN types : types[a] = [bucket |-> Bucket(parameters), parameters |-> parameters]}
    IN IF equal = {} THEN 0 ELSE CHOOSE a \in equal : \A b \in equal : b <= a

\* Mutant: what is there is found, and another one made.
ll_typer_get_fn_type_new(types, parameters) ==
    [types |-> Append(types, [bucket |-> Bucket(parameters), parameters |-> parameters]), address |-> Len(types) + 1]

ll_typer_get_fn_type(types, parameters) ==
    LET a == FindFn(types, parameters)
    IN IF a # 0 THEN [types |-> types, address |-> a]
       ELSE [types |-> Append(types, [bucket |-> Bucket(parameters), parameters |-> parameters]), address |-> Len(types) + 1]

IsGeneric(parameter) == parameter.type.base \in Generics
IsPolymorphic(f) == \E p \in ToSet(Fn(f).params) : IsGeneric(p)
Signature(f) == fnTypes[declared[f]].parameters

Init ==
    /\ program \in Programs
    /\ known = {}
    /\ fnTypes = <<>>
    /\ declared = <<>>
    /\ instances = [f \in DOMAIN program.fns |-> <<>>]
    /\ frames = <<>>
    /\ calls = <<>>
    /\ status = "typing"

(***************************************************************************)
(* A function is declared: its parameters get their types, NULL where they *)
(* are generic, and unless one is its body is typed now.                   *)
(***************************************************************************)
Declare ==
    /\ status = "typing" /\ frames = <<>> /\ Len(declared) < Len(program.fns)
    /\ LET f == Len(declared) + 1
           names == [p \in DOMAIN Fn(f).params |-> IF IsGeneric(Fn(f).params[p]) THEN Nothing ELSE Fn(f).params[p].type]
           parameters == TypesOf(known, names, Unbound)
           type == ll_typer_get_fn_type(fnTypes, parameters.types)
       IN /\ known' = parameters.known
          /\ fnTypes' = type.types
          /\ declared' = Append(declared, type.address)
          /\ frames' = IF IsPolymorphic(f) THEN <<>>
                       ELSE <<[fn |-> f, type |-> 0, at |-> 1, bound |-> Unbound]>>
    /\ UNCHANGED <<program, instances, calls, status>>
-----------------------------------------------------------------------------
(***************************************************************************)
(* The call at hand.  `this' of a method call is its first argument.       *)
(***************************************************************************)
Params(call) == Fn(call.callee).params
ArgsOf(call) == DOMAIN call.args
IsThis(call, i) == call.method /\ i = 1

\* The variables of the arguments are declared, with the types their names get.
ArgumentTypes(types, call, bound) ==
    LET found == TypesOf(types, [i \in ArgsOf(call) |-> call.args[i].type], bound)
    IN [known |-> found.known,
        types |-> [i \in ArgsOf(call) |->
                      IF call.args[i].passes = "address" THEN PointerTo(found.types[i]) ELSE found.types[i]]]

\* Mutant: the argument behind a keyed one is for the parameter at its own place.
TargetsByPlace(call) == [i \in ArgsOf(call) |-> IF call.args[i].key # 0 THEN call.args[i].key ELSE i]

\* Which parameter an argument is for: the one its key names, or the one behind
\* that of the argument before.
Targets(call) ==
    LET target[i \in ArgsOf(call)] ==
            CASE call.args[i].key # 0 -> call.args[i].key
              [] call.args[i].key = 0 /\ i = 1 -> 1
              [] OTHER -> target[i - 1] + 1
    IN target

GivenTwice(call) == \E i, j \in ArgsOf(call) : i # j /\ Targets(call)[i] = Targets(call)[j]
Left(call) == DOMAIN Params(call) \ {Targets(call)[i] : i \in ArgsOf(call)}
Counts(call) ==
    /\ \A i \in ArgsOf(call) : Targets(call)[i] <= Len(Params(call))
    /\ \A p \in Left(call) : Params(call)[p].default

\* `x.f' is a function: its first parameter is generic or takes x, or its address.
FindsMethod(call, this) ==
    LET first == Signature(call.callee)[1]
    IN /\ Params(call) # <<>>
       /\ \/ first = Nothing
          \/ implicit_cast_tofrom(this, IF IsPointer(first) /\ ~IsPointer(this) THEN Element(first) ELSE first)

\* `x.f' of an array or slice is taken for a member, which has no type.
HasMembers(t) == Outermost(t) \in Arrays \/ (IsPointer(t) /\ Outermost(Element(t)) \in Arrays)

AutoReference(call, this) ==
    /\ call.method /\ IsPolymorphic(call.callee) /\ ~IsPointer(this)
    /\ Signature(call.callee)[1] = Nothing
    /\ "*" \in ToSet(Params(call)[1].type.wraps) /\ IsPointer(Params(call)[1].type)

\* The type of the function gets the pointer, for all functions that share it.
Referenced(call, this) ==
    IF AutoReference(call, this)
    THEN [fnTypes EXCEPT ![declared[call.callee]].parameters[1] = PointerTo(this)]
    ELSE fnTypes

Provided(call, types, i) == IF call.args[i].passes = "type" THEN TypeOfTypes ELSE types[i]

\* The arguments but `this' convert to what the function is declared to take.
Converts(call, types, signature) ==
    \A i \in ArgsOf(call) :
        LET to == signature[Targets(call)[i]]
        IN IsThis(call, i) \/ to = Nothing \/ can_implicitly_cast(Provided(call, types, i), to)

\* Mutant: for `this', what the function is declared to take.
AskedForDeclared(call, types, before, after) ==
    LET Of(p) ==
            LET i == CHOOSE i \in ArgsOf(call) : Targets(call)[i] = p
            IN IF IsThis(call, i) THEN before[p] ELSE types[i]
    IN [p \in DOMAIN Params(call) |-> Of(p)]

\* polymorphic_types: the types a call asks the function for.
AskedFor(call, types, before, after) ==
    LET Of(p) ==
            LET i == CHOOSE i \in ArgsOf(call) : Targets(call)[i] = p
            IN CASE IsThis(call, i) ->
                        IF before[p] # Nothing /\ can_implicitly_cast(types[i], before[p]) THEN before[p] ELSE types[i]
                 [] ~IsThis(call, i) /\ after[p] # Nothing -> after[p]
                 [] ~IsThis(call, i) /\ after[p] = Nothing ->
                        IF ~Params(call)[p].named THEN types[i] ELSE Provided(call, types, i)
    IN [p \in DOMAIN Params(call) |-> Of(p)]
-----------------------------------------------------------------------------
(***************************************************************************)
(* ll_typer_match_polymorphic.                                             *)
(***************************************************************************)
\* Whether the wraps of the parameter are the outer ones of the type.
Fits(name, t) ==
    LET n == Len(name.wraps)
        m == Len(t.wraps)
    IN /\ m >= n
       /\ \A k \in 1 .. n :
              \/ t.wraps[m - n + k] = name.wraps[k]
              \/ name.wraps[k] = Count /\ t.wraps[m - n + k] \in Arrays \ {"[:]"}

Under(name, t) == [t EXCEPT !.wraps = SubSeq(@, 1, Len(@) - Len(name.wraps))]

\* `this' stands for its address.
StandsForAddress(call, this) == call.method /\ IsPointer(Params(call)[1].type) /\ ~IsPointer(this)

MatchesAll(call, asked) ==
    \A p \in DOMAIN asked :
        LET name == Params(call)[p].type
        IN IF p = 1 /\ StandsForAddress(call, asked[1]) THEN TRUE
           ELSE IF name.base \in Generics THEN Fits(name, asked[p])
           ELSE asked[p] = ll_typer_get_type_from_typename(known, name, Unbound).type

\* The scope of the new instance: a generic is bound to what is under the last
\* parameter that names it.  Where `this' stands for its address, the match goes on
\* after it was done and binds what lies behind the record of the type, too (or
\* nothing, if that is NULL).
BoundTo(call, asked, found) ==
    [n \in Generics |->
        LET binders == {p \in DOMAIN asked : Params(call)[p].type.base = n}
            p == Max(binders)
        IN IF binders = {} THEN Nothing
           ELSE IF p = 1 /\ StandsForAddress(call, asked[1]) THEN found
           ELSE Under(Params(call)[p].type, asked[p])]

Scopes(call, asked) == {BoundTo(call, asked, asked[1]), BoundTo(call, asked, Garbage)}

\* What the second match does not survive: it looks into what lies there.
ReadsBehind(call, asked) ==
    StandsForAddress(call, asked[1]) /\ ~(Params(call)[1].type.base \in Generics /\ Params(call)[1].type.wraps = <<"*">>)
-----------------------------------------------------------------------------
(***************************************************************************)
(* What a call is by the letter of the program, whatever the typer makes   *)
(* of it: types are told apart by all they are made of.                    *)
(***************************************************************************)
Meant(name, bound) ==
    IF name.base \in Generics THEN [bound[name.base] EXCEPT !.wraps = @ \o name.wraps] ELSE name

MeantTypes(call, bound) ==
    [i \in ArgsOf(call) |->
        LET t == Meant(call.args[i].type, bound)
        IN IF call.args[i].passes = "address" THEN PointerTo(t) ELSE t]

\* t is what the parameter says when its generic stands for u.
Is(name, u, t) ==
    LET m == Len(u.wraps)
    IN /\ t.base = u.base
       /\ Len(t.wraps) = m + Len(name.wraps)
       /\ \A k \in DOMAIN t.wraps :
              IF k <= m THEN t.wraps[k] = u.wraps[k]
              ELSE t.wraps[k] = name.wraps[k - m] \/ (name.wraps[k - m] = Count /\ t.wraps[k] \in Arrays \ {"[:]"})

Suits(parameter, arg, t) ==
    LET given == IF arg.passes = "type" /\ parameter.named THEN TypeOfTypes ELSE t
    IN IF IsGeneric(parameter)
       THEN \E n \in 0 .. Len(given.wraps) : Is(parameter.type, [given EXCEPT !.wraps = SubSeq(@, 1, n)], given)
       ELSE arg.passes # "type" /\ can_implicitly_cast(given, parameter.type)

\* The arguments can be given to one parameter each, and the others have a default.
Legal(call, types) ==
    \E place \in [ArgsOf(call) -> DOMAIN Params(call)] :
        /\ \A i, j \in ArgsOf(call) : i # j => place[i] # place[j]
        /\ \A i \in ArgsOf(call) :
              /\ call.args[i].key # 0 => place[i] = call.args[i].key
              /\ call.args[i].key = 0 => place[i] = IF i = 1 THEN 1 ELSE place[i - 1] + 1
              /\ Suits(Params(call)[place[i]], call.args[i], types[i])
        /\ \A p \in DOMAIN Params(call) : Params(call)[p].default \/ \E i \in ArgsOf(call) : place[i] = p

\* The typer has the types that are written: for no array another one of its bucket,
\* and of no function the pointer of another one.
AsWritten(call, types, bound) ==
    /\ types = MeantTypes(call, bound)
    /\ \A p \in DOMAIN Params(call) :
           Signature(call.callee)[p] = IF IsGeneric(Params(call)[p]) THEN Nothing ELSE Params(call)[p].type
-----------------------------------------------------------------------------
(***************************************************************************)
(* The call at hand is typed.                                              *)
(***************************************************************************)
ll_typer_function_instance_get(f, address) ==
    SelectInSeq(instances[f], LAMBDA instance : instance.type = address)

\* The call is taken, by an instance in which the generics are `bound'.
Taken(call, types, bound) ==
    Append(calls, [call |-> call, types |-> MeantTypes(call, Frame.bound), bound |-> bound,
                   asWritten |-> AsWritten(call, types, Frame.bound),
                   legal |-> Legal(call, MeantTypes(call, Frame.bound))])

TypesCall == status = "typing" /\ frames # <<>> /\ Frame.at <= Len(Fn(Frame.fn).calls)

Arguments == ArgumentTypes(known, ThisCall, Frame.bound)
This == Arguments.types[1]
After == Referenced(ThisCall, This)

\* A member that is none has no type, and neither has what is bound to garbage.
Misread ==
    \/ \E i \in ArgsOf(ThisCall) : Arguments.types[i].base = "garbage"
    \/ ThisCall.method /\ HasMembers(This)

Accepted ==
    /\ ThisCall.method => FindsMethod(ThisCall, This)
    /\ Counts(ThisCall)
    /\ Converts(ThisCall, Arguments.types, After[declared[ThisCall.callee]].parameters)

\* One argument too many, or a default whose type was never written for the instance.
Overrun == GivenTwice(ThisCall) \/ (IsPolymorphic(ThisCall.callee) /\ Left(ThisCall) # {})

Asked == AskedFor(ThisCall, Arguments.types, Signature(ThisCall.callee), After[declared[ThisCall.callee]].parameters)
AskedType == ll_typer_get_fn_type(After, Asked)
Found == ll_typer_function_instance_get(ThisCall.callee, AskedType.address)

Typed == TypesCall /\ ~Misread /\ Accepted /\ ~Overrun

\* A call of a function that is typed already, or whose body is being typed.
CallFunction ==
    /\ Typed /\ ~IsPolymorphic(ThisCall.callee)
    /\ known' = Arguments.known
    /\ calls' = Taken(ThisCall, Arguments.types, Unbound)
    /\ frames' = [frames EXCEPT ![Len(frames)].at = @ + 1]
    /\ UNCHANGED <<program, fnTypes, declared, instances, status>>

CallInstance ==
    /\ Typed /\ IsPolymorphic(ThisCall.callee) /\ Found # 0
    /\ known' = Arguments.known
    /\ fnTypes' = AskedType.types
    /\ calls' = Taken(ThisCall, Arguments.types, instances[ThisCall.callee][Found].bound)
    /\ frames' = [frames EXCEPT ![Len(frames)].at = @ + 1]
    /\ UNCHANGED <<program, declared, instances, status>>

Matches == ~ReadsBehind(ThisCall, Asked) /\ MatchesAll(ThisCall, Asked)

\* The body is cloned and typed, behind it the caller's goes on.
Instantiate ==
    /\ Typed /\ IsPolymorphic(ThisCall.callee) /\ Found = 0
    /\ Matches /\ Len(frames) < MaxDepth
    /\ \E bound \in Scopes(ThisCall, Asked) :
          /\ calls' = Taken(ThisCall, Arguments.types, bound)
          /\ frames' = Append([frames EXCEPT ![Len(frames)].at = @ + 1],
                              [fn |-> ThisCall.callee, type |-> AskedType.address, at |-> 1, bound |-> bound])
    /\ known' = Arguments.known
    /\ fnTypes' = AskedType.types
    /\ UNCHANGED <<program, declared, instances, status>>

\* ll_typer_function_instance_put, when the body is done.
Return ==
    /\ status = "typing" /\ frames # <<>> /\ Frame.at > Len(Fn(Frame.fn).calls)
    /\ instances' = IF Frame.type = 0 THEN instances
                    ELSE [instances EXCEPT ![Frame.fn] = Append(@, [type |-> Frame.type, bound |-> Frame.bound])]
    /\ frames' = Front(frames)
    /\ UNCHANGED <<program, known, fnTypes, declared, calls, status>>

NewInstance == Typed /\ IsPolymorphic(ThisCall.callee) /\ Found = 0

\* An error ends the compiler.
Refuse ==
    /\ TypesCall /\ ~Misread
    /\ ~Accepted \/ (NewInstance /\ ~ReadsBehind(ThisCall, Asked) /\ ~Matches)
    /\ status' = "refused"
    /\ UNCHANGED <<program, known, fnTypes, declared, instances, frames, calls>>

\* From here on anything may happen.
Undefined ==
    /\ TypesCall
    /\ Misread \/ (Accepted /\ Overrun) \/ (NewInstance /\ ReadsBehind(ThisCall, Asked))
    /\ status' = "undefined"
    /\ UNCHANGED <<program, known, fnTypes, declared, instances, frames, calls>>

Overflow ==
    /\ NewInstance /\ Matches /\ Len(frames) = MaxDepth
    /\ status' = "overflow"
    /\ UNCHANGED <<program, known, fnTypes, declared, instances, frames, calls>>

(***************************************************************************)
(* The calls become code: whether `this' goes by address is asked of the   *)
(* type the function was declared with, which is NULL for %T.              *)
(***************************************************************************)
Generate ==
    /\ status = "typing" /\ frames = <<>> /\ Len(declared) = Len(program.fns)
    /\ status' = IF \E c \in ToSet(calls) : c.call.method /\ Signature(c.call.callee)[1] = Nothing
                 THEN "undefined" ELSE "done"
    /\ UNCHANGED <<program, known, fnTypes, declared, instances, frames, calls>>

Next ==
    Declare \/ CallFunction \/ CallInstance \/ Instantiate \/ Return \/ Refuse \/ Undefined \/ Overflow \/ Generate

Spec == Init /\ [][Next]_vars
-----------------------------------------------------------------------------
(***************************************************************************)
(* Properties.                                                             *)
(***************************************************************************)
\* Type invariant: every instance and every body being typed has a function type
\* that is there, with as many parameters as the function, and a scope for the
\* generics (src/typer.c:2155).
TypeOK ==
    /\ status \in {"typing", "refused", "undefined", "overflow", "done"}
    /\ \A t \in known : Outermost(t) \in Arrays
    /\ \A f \in DOMAIN declared : Len(Signature(f)) = Len(Fn(f).params)
    /\ \A f \in DOMAIN instances : \A instance \in ToSet(instances[f]) :
           /\ instance.type \in DOMAIN fnTypes
           /\ Nothing \notin ToSet(fnTypes[instance.type].parameters)
           /\ Len(fnTypes[instance.type].parameters) = Len(Fn(f).params)
    /\ Len(frames) \in 0 .. MaxDepth
    /\ \A k \in DOMAIN frames : (frames[k].type = 0) <=> (k = 1)

\* The record of a function's type that a method call gave a pointer, so that it
\* has no generic parameter any more (src/typer.c:1923).
ChangedInPlace(type) == \E f \in DOMAIN declared : declared[f] = type /\ IsPolymorphic(f)

\* No function is ever made twice for the same types: however calls come within
\* bodies that are typed within others, and whatever was done to the types of
\* functions in between, an instance that is there is found (ll_typer_get_fn_type,
\* ll_typer_function_instance_get).  But a change in place can make another type of
\* the bucket equal to that of an instance; it is found first when it is newer, and
\* the function is made again.
OneInstance ==
    \A f \in DOMAIN instances : \A i, j \in DOMAIN instances[f] :
        LET one == instances[f][i].type
            other == instances[f][j].type
        IN fnTypes[one].parameters = fnTypes[other].parameters
           => i = j \/ ChangedInPlace(one) \/ ChangedInPlace(other)

\* The parameter of a generic argument says the type of the argument, when the
\* generics are what they are in the scope of the instance; a second parameter of one
\* generic hides the first.
BindsArguments(c) ==
    \A i \in ArgsOf(c.call) :
        LET p == Targets(c.call)[i]
            parameter == Params(c.call)[p]
            hidden == \E q \in DOMAIN Params(c.call) : q > p /\ Params(c.call)[q].type.base = parameter.type.base
        IN IsGeneric(parameter) /\ ~hidden /\ (c.call.args[i].passes = "type" => ~parameter.named)
           => Is(parameter.type, c.bound[parameter.type.base], c.types[i])

\* A call ends up at an instance whose generics stand for what its own arguments
\* are, whichever call the instance was made for; but for `this' by its address and
\* where arrays are mixed up (ll_typer_type_expression, AST_KIND_INVOKE).
BindsAsSeen ==
    \A c \in ToSet(calls) :
        c.asWritten /\ ~(c.call.method /\ StandsForAddress(c.call, c.types[1])) => BindsArguments(c)

\* README.md:147: "%T means use any value for that argument, and bind the value to T
\* symbol": T is the type of the value (violated, src/typer.c:403).
BindsTheValue ==
    \A c \in ToSet(calls) : ~c.call.method => BindsArguments(c)

\* A call is typed when each argument can be given to a parameter of its own and the
\* rest have defaults, and refused only when not: the order of keyed and other
\* arguments, the defaults and the match of generics are right together
\* (src/typer.c:1942).
TakenIffLegal ==
    /\ \A c \in ToSet(calls) : c.asWritten /\ ~c.call.method => c.legal
    /\ status = "refused" /\ ~ThisCall.method /\ AsWritten(ThisCall, Arguments.types, Frame.bound)
       => ~Legal(ThisCall, Arguments.types)
=============================================================================
