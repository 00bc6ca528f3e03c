--------------------------- MODULE InstancesProofs ---------------------------
(***************************************************************************)
(* Proofs about the instances of polymorphic functions (Instances.tla).    *)
(*                                                                         *)
(* No function is made twice because the bodies that are typed within one  *)
(* another repeat themselves: a body that is typed for the same types as   *)
(* one below it meets the same calls in the same order, asks them for the  *)
(* same types (IRepeats) and finds no instance where the one below found   *)
(* none (INoInstance); so it cannot come past the call that the one below  *)
(* is waiting for (IBehind), and never becomes an instance itself.         *)
(***************************************************************************)
EXTENDS InstanceTypesProofs

FnTypes == [bucket : Seq(Types), parameters : Seq(Types)]

Proper(t) == t \in Types /\ t.base # "NULL"

\* The record of a function type, then and later: a method call may give it a pointer.
Evolves(old, new) ==
    /\ Len(new) = Len(old)
    /\ \A p \in 1 .. Len(old) : new[p] = old[p] \/ (p = 1 /\ old[p] = Nothing /\ IsPointer(new[p]))

Stands(params, asked) == IsPointer(params[1].type) /\ ~IsPointer(asked[1])

\* What the generics are bound to in an instance for the types `asked'.
BoundFor(params, asked, bound) ==
    \A n \in Generics :
        LET binders == {p \in DOMAIN asked : params[p].type.base = n}
            p == Max(binders)
        IN /\ binders = {} => bound[n] = Nothing
           /\ binders # {} =>
                 IF p = 1 /\ Stands(params, asked) THEN bound[n] \in {asked[1], Garbage}
                 ELSE bound[n] = Under(params[p].type, asked[p])

FitsAll(params, asked) ==
    \A p \in DOMAIN asked :
        params[p].type.base \in Generics /\ ~(p = 1 /\ Stands(params, asked)) => Fits(params[p].type, asked[p])

\* What is made, or being made, of a function.
MadeFor(f, type, bound) ==
    /\ f \in DOMAIN declared /\ IsPolymorphic(f)
    /\ type \in DOMAIN fnTypes
    /\ LET asked == fnTypes[type].parameters
       IN /\ Len(asked) = Len(Fn(f).params)
          /\ \A p \in DOMAIN asked : Proper(asked[p])
          /\ fnTypes[type].bucket = Bucket(asked)
          /\ BoundFor(Fn(f).params, asked, bound)
          /\ FitsAll(Fn(f).params, asked)
          /\ Stands(Fn(f).params, asked) => Signature(f)[1] # Nothing

N == Len(frames)
Made(m) == fnTypes[frames[m].type].parameters
Pending(m) == Fn(frames[m].fn).calls[frames[m].at - 1]

\* Two bodies of one function, for the same types.
Same(j, k) == frames[j].fn = frames[k].fn /\ Made(j) = Made(k)

ITypes ==
    /\ program \in Programs /\ KnownTypes(known)
    /\ fnTypes \in Seq(FnTypes)
    /\ \A a \in DOMAIN fnTypes : \A p \in DOMAIN fnTypes[a].parameters :
          fnTypes[a].parameters[p] = Nothing \/ Proper(fnTypes[a].parameters[p])
    /\ status \in {"typing", "refused", "undefined", "overflow", "done"}

\* The types that a function is declared with stay what they were.
Declares(f) ==
    /\ declared[f] \in DOMAIN fnTypes
    /\ Len(Signature(f)) = Len(Fn(f).params)
    /\ \A p \in DOMAIN Fn(f).params :
          IF IsGeneric(Fn(f).params[p])
          THEN Signature(f)[p] = Nothing \/ (p = 1 /\ IsPointer(Signature(f)[p]))
          ELSE LET found == ll_typer_get_type_from_typename(known, Fn(f).params[p].type, Unbound)
               IN Signature(f)[p] # Nothing /\ found.types = known /\ found.type = Signature(f)[p]

IDeclared ==
    /\ declared \in Seq(Nat) /\ Len(declared) <= Len(program.fns)
    /\ \A f \in DOMAIN declared : Declares(f)

\* One record for each function type, but for those that are changed.
Unique(types, changed) ==
    /\ \A a \in DOMAIN types \ changed : types[a].bucket = Bucket(types[a].parameters)
    /\ \A a, b \in DOMAIN types \ changed : types[a].parameters = types[b].parameters => a = b

IUnique == Unique(fnTypes, {a \in DOMAIN fnTypes : ChangedInPlace(a)})

IFrames ==
    /\ frames \in Seq([fn : Nat, type : Nat, at : Nat, bound : [Generics -> Types]]) /\ N <= MaxDepth
    /\ \A m \in 1 .. N :
          /\ frames[m].fn \in DOMAIN declared
          /\ frames[m].at \in 1 .. Len(Fn(frames[m].fn).calls) + 1
          /\ m = 1 => frames[m].type = 0 /\ ~IsPolymorphic(frames[m].fn)
          /\ m # 1 => MadeFor(frames[m].fn, frames[m].type, frames[m].bound)
          /\ m # N => frames[m].at >= 2 /\ frames[m + 1].fn = Pending(m).callee

IInstances ==
    /\ DOMAIN instances = DOMAIN program.fns
    /\ \A f \in DOMAIN instances :
          /\ instances[f] \in Seq([type : Nat, bound : [Generics -> Types]])
          /\ \A i \in DOMAIN instances[f] : MadeFor(f, instances[f][i].type, instances[f][i].bound)
          /\ \A i, j \in DOMAIN instances[f] : instances[f][i].type = instances[f][j].type => i = j

\* Of what is being made, no instance is found.
INoInstance ==
    \A m \in 2 .. N : \A a \in DOMAIN fnTypes :
        a >= frames[m].type /\ fnTypes[a] = fnTypes[frames[m].type]
        => \A i \in DOMAIN instances[frames[m].fn] : instances[frames[m].fn][i].type # a

\* Whenever the call is typed again, it asks for `asked'.
Repeats(call, bound, signature, asked) ==
    LET arguments == ArgumentTypes(known, call, bound)
    IN /\ arguments.known = known
       /\ \A i \in ArgsOf(call) : arguments.types[i].base # "garbage"
       /\ \A before, after :
             Evolves(signature, before) /\ Evolves(before, after) /\ Converts(call, arguments.types, after)
             => AskedFor(call, arguments.types, before, after) = asked

IRepeats ==
    \A m \in 1 .. N : m # N =>
        Repeats(Pending(m), frames[m].bound, Signature(Pending(m).callee), Made(m + 1))

\* A body does not come past one below it that is typed for the same types.
IBehind ==
    \A j, k \in 2 .. N : j < k /\ Same(j, k) =>
        /\ frames[k].at <= frames[j].at
        /\ k = N => frames[k].at < frames[j].at
        /\ k # N /\ frames[k].at = frames[j].at => Same(j + 1, k + 1)

Inv == ITypes /\ IDeclared /\ IUnique /\ IFrames /\ IInstances /\ INoInstance /\ IRepeats /\ IBehind
-----------------------------------------------------------------------------
\* What the program is.
LEMMA FunctionFacts ==
    ASSUME program \in Programs, NEW f \in DOMAIN program.fns
    PROVE  /\ Fn(f).params \in Seq(Parameters) /\ Fn(f).calls \in Seq(Invokes)
           /\ \A p \in DOMAIN Fn(f).params :
                 /\ Fn(f).params[p] \in Parameters /\ Fn(f).params[p].type \in Names
                 /\ Fn(f).params[p].type \in Types
           /\ f \in Nat \ {0} /\ Len(program.fns) \in Nat /\ DOMAIN program.fns = 1 .. Len(program.fns)
<1>1. program.fns \in Seq(Functions)
  BY ProgramsAssumption
<1>2. Fn(f) \in Functions
  BY <1>1 DEF Fn
<1>3. Fn(f).params \in Seq(Parameters) /\ Fn(f).calls \in Seq(Invokes)
  BY <1>2 DEF Functions
<1>4. \A p \in DOMAIN Fn(f).params : Fn(f).params[p] \in Parameters
  BY <1>3
<1>5. \A q \in Parameters : q.type \in Names
  BY DEF Parameters
<1> QED
  BY <1>1, <1>3, <1>4, <1>5, NamesAreTypes

LEMMA CallFacts ==
    ASSUME program \in Programs, NEW f \in DOMAIN program.fns, NEW k \in DOMAIN Fn(f).calls
    PROVE  LET call == Fn(f).calls[k]
           IN /\ call \in Invokes /\ call.callee \in 1 .. f /\ call.callee \in DOMAIN program.fns
              /\ ArgsOf(call) = 1 .. Len(call.args) /\ Len(call.args) \in Nat
              /\ \A i \in ArgsOf(call) : call.args[i] \in Passed
              /\ call.method => 1 \in ArgsOf(call) /\ IsThis(call, 1) /\ Targets(call)[1] = 1
                                /\ call.args[1].passes = "value"
              /\ \A i \in ArgsOf(call) : IsThis(call, i) => i = 1 /\ call.method /\ Targets(call)[i] = 1
              /\ \A i \in ArgsOf(call) :
                    call.args[i].type.base \in Generics
                    => \E p \in DOMAIN Fn(f).params : Fn(f).params[p].type.base = call.args[i].type.base
<1> DEFINE call == Fn(f).calls[k]
<1>1. Fn(f).calls \in Seq(Invokes) /\ f \in Nat \ {0} /\ DOMAIN program.fns = 1 .. Len(program.fns) /\ Len(program.fns) \in Nat
  BY FunctionFacts
<1>2. call \in Invokes
  BY <1>1
<1>3. call \in ToSet(Fn(f).calls)
  BY DEF ToSet
<1>4. /\ call.callee \in 1 .. f
      /\ call.method => call.args # <<>> /\ call.args[1].key = 0 /\ call.args[1].passes = "value"
      /\ \A arg \in ToSet(call.args) :
            arg.type.base \in Generics => \E q \in ToSet(Fn(f).params) : q.type.base = arg.type.base
  BY <1>3, ProgramsAssumption, Zenon DEF Fn
<1> HIDE DEF call
<1>5. call.args \in Seq(Passed)
  BY <1>2 DEF Invokes
<1>6. ArgsOf(call) = 1 .. Len(call.args) /\ Len(call.args) \in Nat /\ \A i \in ArgsOf(call) : call.args[i] \in Passed
  BY <1>5 DEF ArgsOf
<1>7. call.callee \in DOMAIN program.fns
  BY <1>1, <1>4
<1>8. ASSUME call.method
      PROVE 1 \in ArgsOf(call) /\ IsThis(call, 1) /\ Targets(call)[1] = 1 /\ call.args[1].passes = "value"
  <2>1. call.args # <<>> /\ call.args[1].key = 0 /\ call.args[1].passes = "value"
    BY <1>4, <1>8
  <2>2. 1 \in ArgsOf(call)
    BY <1>5, <1>6, <2>1
  <2>3. Targets(call)[1] = 1
    BY <1>2, <2>1, <2>2, TargetsIs
  <2> QED
    BY <1>8, <2>1, <2>2, <2>3 DEF IsThis
<1>9. ASSUME NEW i \in ArgsOf(call), call.args[i].type.base \in Generics
      PROVE  \E p \in DOMAIN Fn(f).params : Fn(f).params[p].type.base = call.args[i].type.base
  <2>1. call.args[i] \in ToSet(call.args)
    BY DEF ToSet, ArgsOf
  <2>2. PICK q \in ToSet(Fn(f).params) : q.type.base = call.args[i].type.base
    BY <1>4, <1>9, <2>1
  <2> QED
    BY <2>2 DEF ToSet
<1>10. \A i \in ArgsOf(call) : IsThis(call, i) => i = 1 /\ call.method
  BY DEF IsThis
<1> QED
  BY <1>2, <1>4, <1>6, <1>7, <1>8, <1>9, <1>10 DEF call
-----------------------------------------------------------------------------
\* The type of a function is found, or made.
LEMMA FnTypeFacts ==
    ASSUME NEW types \in Seq(FnTypes), NEW parameters \in Seq(Types)
    PROVE  LET r == ll_typer_get_fn_type(types, parameters)
               t == [bucket |-> Bucket(parameters), parameters |-> parameters]
           IN /\ r.types \in Seq(FnTypes) /\ Len(r.types) \in Nat
              /\ r.address \in DOMAIN r.types /\ r.types[r.address] = t
              /\ \/ r.types = types /\ \A b \in DOMAIN types : types[b] = t => b <= r.address
                 \/ /\ \A b \in DOMAIN types : types[b] # t
                    /\ r.address = Len(types) + 1 /\ Len(r.types) = Len(types) + 1
                    /\ DOMAIN r.types = DOMAIN types \union {r.address} /\ r.address \notin DOMAIN types
                    /\ \A b \in DOMAIN types : r.types[b] = types[b]
<1> DEFINE t == [bucket |-> Bucket(parameters), parameters |-> parameters]
           equal == {a \in DOMAIN types : types[a] = t}
<1>1. Len(types) \in Nat /\ DOMAIN types = 1 .. Len(types)
  OBVIOUS
<1>2. t \in FnTypes
  BY DEF FnTypes, Bucket
<1>3. FindFn(types, parameters) = IF equal = {} THEN 0 ELSE CHOOSE a \in equal : \A b \in equal : b <= a
  BY DEF FindFn
<1>4. ll_typer_get_fn_type(types, parameters) =
        IF FindFn(types, parameters) # 0 THEN [types |-> types, address |-> FindFn(types, parameters)]
        ELSE [types |-> Append(types, t), address |-> Len(types) + 1]
  BY DEF ll_typer_get_fn_type
<1>5. CASE equal # {}
  <2>1. equal \subseteq 1 .. Len(types)
    BY <1>1
  <2>2. Max(equal) \in equal /\ \A y \in equal : y <= Max(equal)
    <3> HIDE DEF equal
    <3> QED
      BY <1>1, <1>5, <2>1, MaxFacts
  <2>3. PICK newest : newest = CHOOSE a \in equal : \A b \in equal : b <= a
    OBVIOUS
  <2>4. newest \in equal /\ \A b \in equal : b <= newest
    <3> HIDE DEF equal
    <3> QED
      BY <2>2, <2>3
  <2>5. newest # 0 /\ newest \in DOMAIN types /\ types[newest] = t
    BY <1>1, <2>4
  <2>6. ll_typer_get_fn_type(types, parameters) = [types |-> types, address |-> newest]
    <3> HIDE DEF t, equal
    <3>1. FindFn(types, parameters) = newest
      BY <1>3, <1>5, <2>3
    <3> QED
      BY <1>4, <2>5, <3>1
  <2>7. \A b \in DOMAIN types : types[b] = t => b <= newest
    BY <2>4
  <2>8. PICK r : r = ll_typer_get_fn_type(types, parameters)
    OBVIOUS
  <2>9. r.types = types /\ r.address = newest
    BY <2>6, <2>8
  <2> QED
    BY <1>1, <2>5, <2>7, <2>8, <2>9
<1>6. CASE equal = {}
  <2>1. ll_typer_get_fn_type(types, parameters) = [types |-> Append(types, t), address |-> Len(types) + 1]
    <3> HIDE DEF t, equal
    <3>1. FindFn(types, parameters) = 0
      BY <1>3, <1>6
    <3> QED
      BY <1>4, <3>1
  <2>2. \A b \in DOMAIN types : types[b] # t
    BY <1>6
  <2> HIDE DEF t, equal
  <2>3. /\ Append(types, t) \in Seq(FnTypes) /\ Len(Append(types, t)) = Len(types) + 1
        /\ Append(types, t)[Len(types) + 1] = t
        /\ \A b \in 1 .. Len(types) : Append(types, t)[b] = types[b]
        /\ DOMAIN Append(types, t) = 1 .. Len(types) + 1
    BY <1>1, <1>2
  <2>4. PICK r : r = ll_typer_get_fn_type(types, parameters)
    OBVIOUS
  <2>5. r.types = Append(types, t) /\ r.address = Len(types) + 1
    BY <2>1, <2>4
  <2>6. /\ r.types \in Seq(FnTypes) /\ Len(r.types) = Len(types) + 1 /\ Len(r.types) \in Nat /\ r.types[r.address] = t
        /\ r.address \in DOMAIN r.types /\ r.address \notin DOMAIN types
        /\ DOMAIN r.types = DOMAIN types \union {r.address}
        /\ \A b \in DOMAIN types : r.types[b] = types[b]
    BY <1>1, <2>3, <2>5
  <2> QED
    BY <2>2, <2>4, <2>5, <2>6, Zenon DEF t
<1> QED
  BY <1>5, <1>6

LEMMA EvolvesOn ==
    ASSUME NEW a, NEW b, NEW c, Len(a) \in Nat, Evolves(a, b), Evolves(b, c)
    PROVE  Evolves(a, c)
<1>1. Nothing = [base |-> "NULL", wraps |-> <<>>] /\ ~IsPointer(Nothing)
  BY DEF Nothing, IsPointer, Outermost
<1> QED
  BY <1>1 DEF Evolves

LEMMA EvolvesStays ==
    ASSUME NEW a
    PROVE  Evolves(a, a)
BY DEF Evolves
-----------------------------------------------------------------------------
LEMMA NothingFacts == Nothing \in Types /\ Garbage \in Types /\ Garbage.base = "garbage" /\ TypeOfTypes \in Types /\ Garbage.base # "NULL"
                      /\ Proper(Garbage) /\ Proper(TypeOfTypes) /\ ~IsPointer(TypeOfTypes) /\ ~Proper(Nothing) /\ ~IsPointer(Nothing)
<1>1. <<>> \in Seq(Words)
  OBVIOUS
<1>2. "NULL" \in Words /\ "garbage" \in Words /\ "type" \in Words
  BY DEF Words
<1> QED
  BY <1>1, <1>2 DEF Nothing, Garbage, TypeOfTypes, Types, Proper, IsPointer, Outermost

\* What a generic is bound to is a type, and as good as the same each time.
LEMMA BoundProper ==
    ASSUME NEW params \in Seq(Parameters), NEW asked \in Seq(Types), Len(asked) = Len(params),
           \A p \in DOMAIN asked : Proper(asked[p]),
           NEW bound, BoundFor(params, asked, bound), FitsAll(params, asked),
           NEW p0 \in DOMAIN params, params[p0].type.base \in Generics
    PROVE  Proper(bound[params[p0].type.base])
<1> DEFINE n == params[p0].type.base
           binders == {p \in DOMAIN asked : params[p].type.base = n}
<1>1. DOMAIN asked = 1 .. Len(asked) /\ Len(asked) \in Nat /\ DOMAIN params = DOMAIN asked
  OBVIOUS
<1>2. binders # {} /\ binders \subseteq 1 .. Len(asked)
  BY <1>1
<1>3. PICK p : p = Max(binders)
  OBVIOUS
<1>4. p \in binders
  <2> HIDE DEF binders
  <2> QED
    BY <1>1, <1>2, <1>3, MaxFacts
<1>5. IF p = 1 /\ Stands(params, asked) THEN bound[n] \in {asked[1], Garbage}
      ELSE bound[n] = Under(params[p].type, asked[p])
  BY <1>2, <1>3 DEF BoundFor
<1>6. CASE p = 1 /\ Stands(params, asked)
  BY <1>4, <1>5, <1>6, NothingFacts
<1>7. CASE ~(p = 1 /\ Stands(params, asked))
  <2>1. Fits(params[p].type, asked[p])
    BY <1>4, <1>7 DEF FitsAll
  <2>2. params[p] \in Parameters /\ Proper(asked[p])
    BY <1>1, <1>4
  <2>3. params[p].type \in Types
    BY <2>2, NamesAreTypes DEF Parameters
  <2> QED
    BY <1>5, <1>7, <2>1, <2>2, <2>3, FitsIs DEF Proper
<1> QED
  BY <1>6, <1>7

LEMMA BoundLike ==
    ASSUME NEW params, NEW asked, NEW bound, NEW other,
           BoundFor(params, asked, bound), BoundFor(params, asked, other), NEW n \in Generics
    PROVE  Like(bound[n], other[n])
<1>1. PICK binders : binders = {p \in DOMAIN asked : params[p].type.base = n}
  OBVIOUS
<1>2. /\ binders = {} => bound[n] = Nothing /\ other[n] = Nothing
      /\ binders # {} =>
            IF Max(binders) = 1 /\ Stands(params, asked) THEN bound[n] \in {asked[1], Garbage} /\ other[n] \in {asked[1], Garbage}
            ELSE bound[n] = Under(params[Max(binders)].type, asked[Max(binders)])
                 /\ other[n] = Under(params[Max(binders)].type, asked[Max(binders)])
  BY <1>1 DEF BoundFor
<1>3. Garbage.base = "garbage"
  BY DEF Garbage
<1> QED
  BY <1>2, <1>3 DEF Like

LEMMA MadeFacts ==
    ASSUME ITypes, IDeclared, NEW f, NEW type, NEW bound, MadeFor(f, type, bound)
    PROVE  LET asked == fnTypes[type].parameters
           IN /\ f \in DOMAIN program.fns /\ Fn(f).params \in Seq(Parameters)
              /\ type \in DOMAIN fnTypes /\ asked \in Seq(Types) /\ Len(asked) = Len(Fn(f).params)
              /\ DOMAIN asked = DOMAIN Fn(f).params
              /\ \A p \in DOMAIN asked : Proper(asked[p]) /\ asked[p] # Nothing
              /\ BoundFor(Fn(f).params, asked, bound) /\ FitsAll(Fn(f).params, asked)
              /\ fnTypes[type] = [bucket |-> Bucket(asked), parameters |-> asked]
<1>1. f \in DOMAIN program.fns
  BY ProgramsAssumption DEF MadeFor, IDeclared, ITypes
<1>2. fnTypes[type] \in FnTypes
  BY DEF MadeFor, ITypes
<1>3. Fn(f).params \in Seq(Parameters)
  BY <1>1, FunctionFacts DEF ITypes
<1> QED
  BY <1>1, <1>2, <1>3, NothingFacts DEF MadeFor, FnTypes

\* What a body passes on is never NULL.
LEMMA ClosedCalls ==
    ASSUME ITypes, IDeclared, IFrames, NEW m \in 1 .. N, NEW k \in DOMAIN Fn(frames[m].fn).calls
    PROVE  /\ frames[m].fn \in DOMAIN program.fns
           /\ Closed(Fn(frames[m].fn).calls[k], frames[m].bound)
<1> DEFINE f == frames[m].fn
           call == Fn(frames[m].fn).calls[k]
           bound == frames[m].bound
<1>1. f \in DOMAIN program.fns
  <2>1. f \in DOMAIN declared
    BY DEF IFrames
  <2>2. program.fns \in Seq(Functions)
    BY ProgramsAssumption DEF ITypes
  <2> QED
    BY <2>1, <2>2 DEF IDeclared
<1>2. /\ call \in Invokes /\ \A i \in ArgsOf(call) : call.args[i] \in Passed
      /\ \A i \in ArgsOf(call) :
            call.args[i].type.base \in Generics
            => \E p \in DOMAIN Fn(f).params : Fn(f).params[p].type.base = call.args[i].type.base
  BY <1>1, CallFacts DEF ITypes
<1> HIDE DEF call
<1>3. ASSUME NEW i \in DOMAIN call.args
      PROVE  BaseOf(call.args[i].type, bound) \in Types /\ BaseOf(call.args[i].type, bound).base # "NULL"
  <2>1. call.args[i].type \in Names
    BY <1>2 DEF Passed, ArgsOf
  <2>2. CASE call.args[i].type.base \notin Generics
    <3>1. BaseOf(call.args[i].type, bound) = [base |-> call.args[i].type.base, wraps |-> <<>>]
      BY <2>2 DEF BaseOf
    <3>2. call.args[i].type.base \in Words /\ call.args[i].type.base # "NULL"
      BY <2>1 DEF Names, Words
    <3> QED
      BY <3>1, <3>2 DEF Types
  <2>3. CASE call.args[i].type.base \in Generics
    <3>1. PICK p \in DOMAIN Fn(f).params : Fn(f).params[p].type.base = call.args[i].type.base
      BY <1>2, <2>3 DEF ArgsOf
    <3>2. IsPolymorphic(f)
      BY <2>3, <3>1 DEF IsPolymorphic, IsGeneric, ToSet
    <3>3. MadeFor(f, frames[m].type, bound)
      BY <3>2 DEF IFrames
    <3>4. Proper(bound[Fn(f).params[p].type.base])
      BY <2>3, <3>1, <3>3, MadeFacts, BoundProper
    <3> QED
      BY <2>3, <3>1, <3>4 DEF BaseOf, Proper
  <2> QED
    BY <2>2, <2>3
<1> QED
  BY <1>1, <1>3 DEF Closed, call
-----------------------------------------------------------------------------
\* The call at hand.
LEMMA TopCall ==
    ASSUME ITypes, IDeclared, IFrames, TypesCall
    PROVE  /\ N \in Nat /\ N \in 1 .. N /\ N # 0 /\ Frame = frames[N]
           /\ Frame.fn \in DOMAIN program.fns /\ Frame.fn \in DOMAIN declared
           /\ Frame.at \in DOMAIN Fn(Frame.fn).calls
           /\ ThisCall \in Invokes /\ Closed(ThisCall, Frame.bound)
           /\ ThisCall.callee \in DOMAIN program.fns /\ ThisCall.callee \in DOMAIN declared
           /\ declared[ThisCall.callee] \in DOMAIN fnTypes
           /\ Params(ThisCall) \in Seq(Parameters)
           /\ Signature(ThisCall.callee) \in Seq(Types)
           /\ Len(Signature(ThisCall.callee)) = Len(Params(ThisCall))
           /\ DOMAIN Signature(ThisCall.callee) = DOMAIN Params(ThisCall)
<1>1. N \in Nat /\ N # 0 /\ N \in 1 .. N /\ Frame = frames[N]
  <2>1. frames \in Seq([fn : Nat, type : Nat, at : Nat, bound : [Generics -> Types]]) /\ frames # <<>>
    BY DEF IFrames, TypesCall
  <2> QED
    BY <2>1 DEF N, Frame, Last
<1>2. Frame.at \in DOMAIN Fn(Frame.fn).calls /\ Frame.fn \in DOMAIN declared /\ Frame.fn \in DOMAIN program.fns
  <2>1. Frame.fn \in DOMAIN declared /\ Frame.at \in 1 .. Len(Fn(Frame.fn).calls) + 1
    BY <1>1 DEF IFrames
  <2>2. Frame.fn \in DOMAIN program.fns
    BY <2>1, ProgramsAssumption DEF IDeclared, ITypes
  <2>3. Fn(Frame.fn).calls \in Seq(Invokes)
    BY <2>2, FunctionFacts DEF ITypes
  <2> QED
    BY <2>1, <2>2, <2>3 DEF TypesCall
<1>3. /\ ThisCall \in Invokes /\ ThisCall.callee \in 1 .. Frame.fn
      /\ ThisCall.callee \in DOMAIN program.fns
  BY <1>2, CallFacts DEF ThisCall, ITypes
<1>4. ThisCall.callee \in DOMAIN declared
  BY <1>2, <1>3 DEF IDeclared
<1>5. Closed(ThisCall, Frame.bound)
  BY <1>1, <1>2, ClosedCalls DEF ThisCall
<1>6. Params(ThisCall) \in Seq(Parameters)
  BY <1>3, FunctionFacts DEF Params, ITypes
<1>7. declared[ThisCall.callee] \in DOMAIN fnTypes /\ Len(Signature(ThisCall.callee)) = Len(Params(ThisCall))
  BY <1>4 DEF IDeclared, Declares, Params
<1>8. Signature(ThisCall.callee) \in Seq(Types)
  <2>1. fnTypes[declared[ThisCall.callee]] \in FnTypes
    BY <1>7 DEF ITypes
  <2> QED
    BY <2>1 DEF FnTypes, Signature
<1> QED
  BY <1>1, <1>2, <1>3, <1>4, <1>5, <1>6, <1>7, <1>8

LEMMA TopArguments ==
    ASSUME ITypes, IDeclared, IFrames, TypesCall
    PROVE  /\ KnownTypes(Arguments.known) /\ known \subseteq Arguments.known
           /\ DOMAIN Arguments.types = ArgsOf(ThisCall)
           /\ \A i \in ArgsOf(ThisCall) : Proper(Arguments.types[i])
           /\ ArgsOf(ThisCall) = 1 .. Len(ThisCall.args) /\ Len(ThisCall.args) \in Nat
           /\ \A i \in ArgsOf(ThisCall) : ThisCall.args[i] \in Passed
           /\ ThisCall.method => 1 \in ArgsOf(ThisCall) /\ IsThis(ThisCall, 1) /\ Targets(ThisCall)[1] = 1
                                 /\ ThisCall.args[1].passes = "value"
           /\ \A i \in ArgsOf(ThisCall) : IsThis(ThisCall, i) => i = 1 /\ ThisCall.method /\ Targets(ThisCall)[i] = 1
<1>1. ThisCall \in Invokes /\ Closed(ThisCall, Frame.bound) /\ KnownTypes(known)
  BY TopCall DEF ITypes
<1>2. /\ KnownTypes(Arguments.known) /\ known \subseteq Arguments.known
      /\ DOMAIN Arguments.types = ArgsOf(ThisCall)
      /\ \A i \in ArgsOf(ThisCall) : Arguments.types[i] \in Types /\ Arguments.types[i].base # "NULL"
  <2>1. PICK bound : bound = Frame.bound
    OBVIOUS
  <2>2. PICK call : call = ThisCall
    OBVIOUS
  <2>3. Arguments = ArgumentTypes(known, call, bound)
    BY <2>1, <2>2 DEF Arguments
  <2>4. call \in Invokes /\ Closed(call, bound)
    BY <1>1, <2>1, <2>2
  <2>5. PICK r : r = ArgumentTypes(known, call, bound)
    OBVIOUS
  <2>6. /\ KnownTypes(r.known) /\ known \subseteq r.known
        /\ DOMAIN r.types = ArgsOf(call)
        /\ \A i \in ArgsOf(call) : r.types[i] \in Types /\ r.types[i].base # "NULL"
    BY <1>1, <2>4, <2>5, ArgumentFacts
  <2> QED
    BY <2>2, <2>3, <2>5, <2>6
<1>3. Frame.fn \in DOMAIN program.fns /\ Frame.at \in DOMAIN Fn(Frame.fn).calls
  BY TopCall
<1> QED
  BY <1>2, <1>3, CallFacts DEF Proper, ThisCall, ITypes

\* What a method call does to the type of the function.
LEMMA AfterFacts ==
    ASSUME ITypes, IDeclared, IFrames, TypesCall
    PROVE  /\ After \in Seq(FnTypes) /\ DOMAIN After = DOMAIN fnTypes /\ Len(After) = Len(fnTypes)
           /\ \A a \in DOMAIN fnTypes :
                 /\ Evolves(fnTypes[a].parameters, After[a].parameters)
                 /\ Nothing \notin ToSet(fnTypes[a].parameters) => After[a] = fnTypes[a]
                 /\ \A p \in DOMAIN After[a].parameters :
                       After[a].parameters[p] = Nothing \/ Proper(After[a].parameters[p])
                 /\ After[a] = fnTypes[a] \/ (a = declared[ThisCall.callee] /\ AutoReference(ThisCall, This))
           /\ AutoReference(ThisCall, This) => 
                 /\ ThisCall.method /\ IsPolymorphic(ThisCall.callee)
                 /\ After[declared[ThisCall.callee]].parameters[1] = PointerTo(This) /\ IsPointer(PointerTo(This))
                 /\ PointerTo(This) # Nothing /\ 1 \in DOMAIN Params(ThisCall)
<1> DEFINE d == declared[ThisCall.callee]
           sig == fnTypes[d].parameters
<1>1. /\ d \in DOMAIN fnTypes /\ fnTypes \in Seq(FnTypes) /\ sig \in Seq(Types)
      /\ DOMAIN sig = DOMAIN Params(ThisCall)
  BY TopCall DEF Signature, ITypes
<1>2. \A a \in DOMAIN fnTypes : Evolves(fnTypes[a].parameters, fnTypes[a].parameters)
  BY EvolvesStays
<1>3. CASE ~AutoReference(ThisCall, This)
  <2>1. After = fnTypes
    BY <1>3 DEF After, Referenced
  <2> QED
    BY <1>1, <1>2, <1>3, <2>1 DEF ITypes
<1>4. CASE AutoReference(ThisCall, This)
  <2>1. ThisCall.method /\ IsPolymorphic(ThisCall.callee) /\ sig[1] = Nothing
    BY <1>4 DEF AutoReference, Signature
  <2>2. Proper(This)
    BY <2>1, TopArguments DEF This
  <2>3. PICK t : t = PointerTo(This)
    OBVIOUS
  <2>4. t \in Types /\ Proper(t) /\ IsPointer(t) /\ t # Nothing
    BY <2>2, <2>3, PointerFacts, NothingFacts DEF Proper
  <2>5. 1 \in DOMAIN Params(ThisCall)
    <3>1. PICK p \in DOMAIN Params(ThisCall) : TRUE
      BY <2>1 DEF IsPolymorphic, Params, ToSet
    <3>2. Params(ThisCall) \in Seq(Parameters)
      BY TopCall
    <3> QED
      BY <3>1, <3>2
  <2>6. After = [fnTypes EXCEPT ![d].parameters[1] = t]
    BY <1>4, <2>3 DEF After, Referenced
  <2>7. fnTypes[d] = [bucket |-> fnTypes[d].bucket, parameters |-> sig] /\ fnTypes[d].bucket \in Seq(Types)
    <3>1. fnTypes[d] \in FnTypes
      BY <1>1
    <3> HIDE DEF d
    <3> QED
      BY <3>1 DEF FnTypes
  <2> HIDE DEF d
  <2>8. PICK new : new = [sig EXCEPT ![1] = t]
    OBVIOUS
  <2>9. new \in Seq(Types) /\ Len(new) = Len(sig) /\ DOMAIN new = DOMAIN sig /\ new[1] = t
        /\ \A p \in DOMAIN sig : p # 1 => new[p] = sig[p]
    BY <1>1, <2>4, <2>5, <2>8
  <2>10. PICK changed : changed = [bucket |-> fnTypes[d].bucket, parameters |-> new]
    OBVIOUS
  <2>11. changed \in FnTypes /\ changed.parameters = new
    BY <2>7, <2>9, <2>10 DEF FnTypes
  <2>12. After[d] = changed /\ \A a \in DOMAIN fnTypes : a # d => After[a] = fnTypes[a]
    BY <1>1, <2>6, <2>7, <2>8, <2>10
  <2>13. After \in Seq(FnTypes) /\ DOMAIN After = DOMAIN fnTypes /\ Len(After) = Len(fnTypes)
    <3>1. PICK r : r = fnTypes[d]
      OBVIOUS
    <3>2. After = [fnTypes EXCEPT ![d] = [r EXCEPT !.parameters = new]]
      BY <2>6, <2>8, <3>1
    <3>3. [r EXCEPT !.parameters = new] = changed
      <4>1. PICK bucket : bucket = r.bucket
        OBVIOUS
      <4>2. PICK parameters : parameters = r.parameters
        OBVIOUS
      <4>3. r = [bucket |-> bucket, parameters |-> parameters]
        BY <2>7, <3>1, <4>1, <4>2
      <4> QED
        BY <2>10, <3>1, <4>1, <4>3
    <3>4. After = [fnTypes EXCEPT ![d] = changed]
      BY <3>2, <3>3
    <3> QED
      BY <1>1, <2>11, <3>4
  <2>14. Evolves(sig, new)
    BY <1>1, <2>1, <2>4, <2>9 DEF Evolves
  <2>15. Nothing \in ToSet(sig)
    BY <1>1, <2>1, <2>5 DEF ToSet
  <2>16. \A p \in DOMAIN new : new[p] = Nothing \/ Proper(new[p])
    BY <1>1, <2>4, <2>9 DEF ITypes
  <2>17. After[d].parameters = new
    BY <2>11, <2>12
  <2>18. ASSUME NEW a \in DOMAIN fnTypes
         PROVE  /\ Evolves(fnTypes[a].parameters, After[a].parameters)
                /\ Nothing \notin ToSet(fnTypes[a].parameters) => After[a] = fnTypes[a]
                /\ \A p \in DOMAIN After[a].parameters :
                      After[a].parameters[p] = Nothing \/ Proper(After[a].parameters[p])
                /\ After[a] = fnTypes[a] \/ a = d
    <3>1. CASE a = d
      BY <2>14, <2>15, <2>16, <2>17, <3>1
    <3>2. CASE a # d
      <4>1. After[a] = fnTypes[a]
        BY <2>12, <3>2
      <4>2. \A p \in DOMAIN fnTypes[a].parameters :
               fnTypes[a].parameters[p] = Nothing \/ Proper(fnTypes[a].parameters[p])
        BY DEF ITypes
      <4> QED
        BY <1>2, <4>1, <4>2
    <3> QED
      BY <3>1, <3>2
  <2> QED
    BY <1>4, <2>1, <2>3, <2>4, <2>5, <2>9, <2>13, <2>17, <2>18 DEF d
<1> QED
  BY <1>3, <1>4
-----------------------------------------------------------------------------
\* What a call asks for at a parameter, by its argument.
LEMMA AskedAt ==
    ASSUME NEW call, NEW types, NEW before, NEW after, ~GivenTwice(call),
           NEW i \in ArgsOf(call), NEW p \in DOMAIN Params(call), Targets(call)[i] = p
    PROVE  AskedFor(call, types, before, after)[p] =
              IF IsThis(call, i)
              THEN IF before[p] # Nothing /\ can_implicitly_cast(types[i], before[p]) THEN before[p] ELSE types[i]
              ELSE IF after[p] # Nothing THEN after[p]
              ELSE IF ~Params(call)[p].named THEN types[i] ELSE Provided(call, types, i)
<1>1. \A j \in ArgsOf(call) : Targets(call)[j] = p => j = i
  BY DEF GivenTwice
<1>2. (CHOOSE j \in ArgsOf(call) : Targets(call)[j] = p) = i
  BY <1>1
<1> QED
  BY <1>2 DEF AskedFor

LEMMA AskedDomain ==
    ASSUME NEW call, NEW types, NEW before, NEW after
    PROVE  /\ DOMAIN AskedFor(call, types, before, after) = DOMAIN Params(call)
           /\ \A asked : (/\ DOMAIN asked = DOMAIN Params(call) /\ asked = [p \in DOMAIN asked |-> asked[p]]
                          /\ \A p \in DOMAIN Params(call) : AskedFor(call, types, before, after)[p] = asked[p])
                         => AskedFor(call, types, before, after) = asked
           /\ AskedFor(call, types, before, after) =
                [p \in DOMAIN Params(call) |-> AskedFor(call, types, before, after)[p]]
BY DEF AskedFor

\* Each parameter gets one argument, the first one `this'.
AllGiven(call, signature) ==
    /\ DOMAIN Params(call) = 1 .. Len(signature) /\ Len(signature) \in Nat
    /\ ~GivenTwice(call) /\ \A p \in DOMAIN Params(call) : \E i \in ArgsOf(call) : Targets(call)[i] = p
    /\ \A i \in ArgsOf(call) : IsThis(call, i) => Targets(call)[i] = 1

\* Once more, it asks for the same: only its own first parameter can have got a type,
\* a pointer, and what converts to that is that.
LEMMA AsksAgain ==
    ASSUME NEW call, NEW signature, NEW first, NEW before, NEW after, NEW types, AllGiven(call, signature),
           Evolves(signature, first), Evolves(first, before), Evolves(before, after),
           Converts(call, types, after)
    PROVE  AskedFor(call, types, before, after) = AskedFor(call, types, signature, first)
<1> USE DEF AllGiven
<1> SUFFICES ASSUME NEW p \in DOMAIN Params(call)
             PROVE  AskedFor(call, types, before, after)[p] = AskedFor(call, types, signature, first)[p]
  BY AskedDomain
<1>1. PICK i \in ArgsOf(call) : Targets(call)[i] = p
  OBVIOUS
<1>2. ~IsPointer(Nothing) /\ ~IsPointer(TypeOfTypes)
  BY NothingFacts
<1>3. Evolves(signature, before) /\ Evolves(first, after)
  <2>1. Len(first) \in Nat
    BY DEF Evolves
  <2> QED
    BY <2>1, EvolvesOn
<1>4. CASE IsThis(call, i)
  <2>1. p = 1 /\ p \in 1 .. Len(signature)
    BY <1>1, <1>4
  <2>2. before[p] = signature[p] \/ (signature[p] = Nothing /\ IsPointer(before[p]))
    BY <1>3, <2>1 DEF Evolves
  <2>3. before[p] # signature[p] /\ can_implicitly_cast(types[i], before[p]) => types[i] = before[p]
    BY <2>2, CastToPointer
  <2> QED
    BY <1>1, <1>4, <2>2, <2>3, AskedAt
<1>5. CASE ~IsThis(call, i)
  <2>1. after[p] = first[p] \/ (p = 1 /\ first[p] = Nothing /\ IsPointer(after[p]))
    BY <1>3 DEF Evolves
  <2>2. CASE after[p] = first[p]
    BY <1>1, <1>5, <2>2, AskedAt
  <2>3. CASE after[p] # first[p]
    <3>1. first[p] = Nothing /\ IsPointer(after[p]) /\ after[p] # Nothing
      BY <1>2, <2>1, <2>3
    <3>2. can_implicitly_cast(Provided(call, types, i), after[p])
      BY <1>1, <1>5, <3>1 DEF Converts
    <3>3. Provided(call, types, i) = after[p]
      BY <3>1, <3>2, CastToPointer
    <3>4. Provided(call, types, i) = types[i]
      BY <1>2, <3>1, <3>3 DEF Provided
    <3>5. AskedFor(call, types, before, after)[p] = after[p]
      BY <1>1, <1>5, <3>1, AskedAt
    <3>6. AskedFor(call, types, signature, first)[p] = types[i]
      BY <1>1, <1>5, <3>1, <3>4, AskedAt
    <3> QED
      BY <3>3, <3>4, <3>5, <3>6
  <2> QED
    BY <2>2, <2>3
<1> QED
  BY <1>4, <1>5

LEMMA ArgumentsFun ==
    ASSUME NEW types, NEW call, NEW bound
    PROVE  ArgumentTypes(types, call, bound).types =
              [i \in ArgsOf(call) |-> ArgumentTypes(types, call, bound).types[i]]
BY DEF ArgumentTypes

\* Of a polymorphic function a call asks for a type at each parameter.
LEMMA AskedFacts ==
    ASSUME ITypes, IDeclared, IFrames, Typed, IsPolymorphic(ThisCall.callee)
    PROVE  /\ Asked \in Seq(Types) /\ Len(Asked) = Len(Params(ThisCall)) /\ DOMAIN Asked = DOMAIN Params(ThisCall)
           /\ \A p \in DOMAIN Asked : Proper(Asked[p])
           /\ \A p \in DOMAIN Params(ThisCall) : \E i \in ArgsOf(ThisCall) : Targets(ThisCall)[i] = p
           /\ ~GivenTwice(ThisCall)
           /\ Converts(ThisCall, Arguments.types, After[declared[ThisCall.callee]].parameters)
           /\ \A i \in ArgsOf(ThisCall) : Arguments.types[i].base # "garbage"
<1> DEFINE d == declared[ThisCall.callee]
           before == Signature(ThisCall.callee)
           after == After[d].parameters
<1>1. TypesCall /\ ~GivenTwice(ThisCall) /\ Left(ThisCall) = {}
      /\ Converts(ThisCall, Arguments.types, after)
      /\ \A i \in ArgsOf(ThisCall) : Arguments.types[i].base # "garbage"
  BY DEF Typed, Overrun, Accepted, Misread
<1>2. \A p \in DOMAIN Params(ThisCall) : \E i \in ArgsOf(ThisCall) : Targets(ThisCall)[i] = p
  BY <1>1 DEF Left
<1>3. /\ Params(ThisCall) \in Seq(Parameters) /\ d \in DOMAIN fnTypes
      /\ before \in Seq(Types) /\ DOMAIN before = DOMAIN Params(ThisCall) /\ before = fnTypes[d].parameters
  BY <1>1, TopCall DEF Signature
<1>4. \A p \in DOMAIN Params(ThisCall) : before[p] = Nothing \/ Proper(before[p])
  BY <1>3 DEF ITypes
<1>5. /\ \A p \in DOMAIN after : after[p] = Nothing \/ Proper(after[p])
      /\ Evolves(before, after) /\ After[d] \in FnTypes
  BY <1>1, <1>3, AfterFacts
<1>6. DOMAIN after = DOMAIN Params(ThisCall)
  BY <1>3, <1>5 DEF Evolves, FnTypes
<1>7. \A i \in ArgsOf(ThisCall) : Proper(Arguments.types[i]) /\ Proper(Provided(ThisCall, Arguments.types, i))
  BY <1>1, TopArguments, NothingFacts DEF Provided
<1>8. ASSUME NEW p \in DOMAIN Params(ThisCall) PROVE Proper(Asked[p])
  <2>1. PICK i \in ArgsOf(ThisCall) : Targets(ThisCall)[i] = p
    BY <1>2
  <2> HIDE DEF before, after
  <2>2. Asked = AskedFor(ThisCall, Arguments.types, before, after)
    BY DEF Asked, before, after
  <2> QED
    BY <1>1, <1>4, <1>5, <1>6, <1>7, <2>1, <2>2, AskedAt
<1>9. DOMAIN Asked = DOMAIN Params(ThisCall) /\ Asked = [p \in DOMAIN Params(ThisCall) |-> Asked[p]]
  BY AskedDomain DEF Asked
<1>10. Asked \in Seq(Types) /\ Len(Asked) = Len(Params(ThisCall))
  <2>1. Len(Params(ThisCall)) \in Nat /\ DOMAIN Params(ThisCall) = 1 .. Len(Params(ThisCall))
    BY <1>3
  <2>2. \A p \in 1 .. Len(Params(ThisCall)) : Asked[p] \in Types
    BY <1>8, <2>1 DEF Proper
  <2> QED
    BY <1>9, <2>1, <2>2
<1> QED
  BY <1>1, <1>2, <1>8, <1>9, <1>10
-----------------------------------------------------------------------------
\* What no step takes away.
Keeps ==
    /\ program' = program
    /\ known \subseteq known' /\ KnownTypes(known')
    /\ \A a \in DOMAIN fnTypes :
          /\ a \in DOMAIN fnTypes'
          /\ Evolves(fnTypes[a].parameters, fnTypes'[a].parameters)
          /\ Nothing \notin ToSet(fnTypes[a].parameters) => fnTypes'[a] = fnTypes[a]
    /\ \A f \in DOMAIN declared : f \in DOMAIN declared' /\ declared'[f] = declared[f]

LEMMA KeptProgram ==
    ASSUME program' = program
    PROVE  /\ \A f : Fn(f)' = Fn(f) /\ IsPolymorphic(f)' = IsPolymorphic(f)
           /\ \A call : Params(call)' = Params(call)
           /\ \A parameters : Bucket(parameters)' = Bucket(parameters)
           /\ \A call, types, before, after :
                 AskedFor(call, types, before, after)' = AskedFor(call, types, before, after)
           /\ \A types, changed : Unique(types, changed) => Unique(types, changed)'
<1>1. \A f : Fn(f)' = Fn(f)
  BY DEF Fn
<1>2. \A f : IsPolymorphic(f)' = IsPolymorphic(f)
  BY <1>1 DEF IsPolymorphic
<1>3. \A call : Params(call)' = Params(call)
  BY <1>1 DEF Params
<1>4. \A parameters : Bucket(parameters)' = Bucket(parameters)
  BY DEF Bucket
<1>5. ASSUME NEW call, NEW types, NEW before, NEW after
      PROVE  AskedFor(call, types, before, after)' = AskedFor(call, types, before, after)
  BY <1>3 DEF AskedFor
<1>6. ASSUME NEW types, NEW changed, Unique(types, changed) PROVE Unique(types, changed)'
  BY <1>4, <1>6 DEF Unique
<1> QED
  BY <1>1, <1>2, <1>3, <1>4, <1>5, <1>6

LEMMA KeptMade ==
    ASSUME ITypes, IDeclared, Keeps, NEW f, NEW type, NEW bound, MadeFor(f, type, bound)
    PROVE  MadeFor(f, type, bound)' /\ fnTypes'[type] = fnTypes[type]
<1> DEFINE asked == fnTypes[type].parameters
<1>1. /\ type \in DOMAIN fnTypes /\ asked \in Seq(Types)
      /\ \A p \in DOMAIN asked : asked[p] # Nothing
  BY MadeFacts
<1>2. Nothing \notin ToSet(asked)
  BY <1>1 DEF ToSet
<1>3. fnTypes'[type] = fnTypes[type] /\ type \in DOMAIN fnTypes'
  BY <1>1, <1>2 DEF Keeps
<1>4. /\ f \in DOMAIN declared' /\ declared'[f] = declared[f]
      /\ Fn(f)' = Fn(f) /\ IsPolymorphic(f)' = IsPolymorphic(f)
      /\ \A parameters : Bucket(parameters)' = Bucket(parameters)
      /\ declared[f] \in DOMAIN fnTypes /\ Len(Signature(f)) = Len(Fn(f).params)
  BY KeptProgram DEF Keeps, MadeFor, IDeclared, Declares
<1>5. Evolves(Signature(f), Signature(f)')
  BY <1>4 DEF Keeps, Signature
<1>6. Signature(f)[1] # Nothing => Signature(f)'[1] # Nothing
  <2>1. f \in DOMAIN program.fns /\ Fn(f).params \in Seq(Parameters) /\ IsPolymorphic(f)
    BY MadeFacts DEF MadeFor
  <2>2. 1 \in 1 .. Len(Signature(f))
    <3>1. PICK p \in DOMAIN Fn(f).params : TRUE
      BY <2>1 DEF IsPolymorphic, ToSet
    <3> QED
      BY <1>4, <2>1, <3>1
  <2> QED
    BY <1>5, <2>2 DEF Evolves
<1> QED
  BY <1>3, <1>4, <1>6 DEF MadeFor

\* A call that repeats goes on doing so.
LEMMA KeptRepeats ==
    ASSUME ITypes, Keeps, NEW call \in Invokes, NEW bound, Closed(call, bound), NEW asked,
           NEW signature, NEW new, Evolves(signature, new), Len(signature) \in Nat,
           Repeats(call, bound, signature, asked)
    PROVE  Repeats(call, bound, new, asked)'
<1> DEFINE old == ArgumentTypes(known, call, bound)
           arguments == ArgumentTypes(known', call, bound)
<1>0. PICK types : types = arguments.types
  OBVIOUS
<1>1. old.known = known
  BY DEF Repeats
<1>2. arguments.known = known' /\ arguments.types = old.types
  <2>1. \A i \in ArgsOf(call) : Like(BaseOf(call.args[i].type, bound), BaseOf(call.args[i].type, bound))
    BY DEF Like
  <2>2. KnownTypes(known) /\ KnownTypes(known') /\ old.known \subseteq known'
    BY <1>1 DEF ITypes, Keeps
  <2> QED
    BY <2>1, <2>2, ArgumentsAgain
<1>3. \A i \in ArgsOf(call) : arguments.types[i].base # "garbage"
  BY <1>2 DEF Repeats
<1>4. ASSUME NEW before, NEW after, Evolves(new, before), Evolves(before, after),
             Converts(call, types, after)
      PROVE  AskedFor(call, types, before, after)' = asked
  <2>1. Evolves(signature, before)
    BY <1>4, EvolvesOn
  <2>2. AskedFor(call, types, before, after) = asked
    BY <1>2, <1>0, <1>4, <2>1 DEF Repeats
  <2> QED
    BY <2>2, KeptProgram DEF Keeps
<1> QED
  BY <1>0, <1>2, <1>3, <1>4 DEF Repeats

LEMMA PlainName ==
    ASSUME NEW name \in Names, name.base \notin Generics, NEW bound
    PROVE  Sane(name, bound) /\ BaseOf(name, bound) = [base |-> name.base, wraps |-> <<>>] /\ BaseOf(name, bound).base # "NULL"
<1>1. name \in Types /\ name.base # "NULL" /\ name.base \in Words
  BY NamesAreTypes DEF Names, Words
<1>2. BaseOf(name, bound) = [base |-> name.base, wraps |-> <<>>]
  BY DEF BaseOf
<1> QED
  BY <1>1, <1>2 DEF Sane, Types

LEMMA SignatureFacts ==
    ASSUME ITypes, IDeclared, NEW f \in DOMAIN declared
    PROVE  /\ f \in DOMAIN program.fns /\ Fn(f).params \in Seq(Parameters)
           /\ declared[f] \in DOMAIN fnTypes /\ Signature(f) \in Seq(Types)
           /\ Len(Signature(f)) = Len(Fn(f).params) /\ DOMAIN Signature(f) = DOMAIN Fn(f).params
           /\ Signature(f) = fnTypes[declared[f]].parameters
           /\ \A p \in DOMAIN Fn(f).params : Signature(f)[p] = Nothing \/ Proper(Signature(f)[p])
<1>1. f \in DOMAIN program.fns
  BY ProgramsAssumption DEF IDeclared, ITypes
<1>2. Fn(f).params \in Seq(Parameters)
  BY <1>1, FunctionFacts DEF ITypes
<1>3. declared[f] \in DOMAIN fnTypes /\ Len(Signature(f)) = Len(Fn(f).params)
  BY DEF IDeclared, Declares
<1>4. fnTypes[declared[f]] \in FnTypes
  BY <1>3 DEF ITypes
<1>5. Signature(f) \in Seq(Types)
  BY <1>4 DEF FnTypes, Signature
<1>6. DOMAIN Signature(f) = DOMAIN Fn(f).params
  BY <1>2, <1>3, <1>5
<1>7. \A p \in DOMAIN Signature(f) : Signature(f)[p] = Nothing \/ Proper(Signature(f)[p])
  BY <1>3 DEF ITypes, Signature
<1> QED
  BY <1>1, <1>2, <1>3, <1>5, <1>6, <1>7 DEF Signature

LEMMA KeptDeclares ==
    ASSUME ITypes, IDeclared, Keeps, NEW f \in DOMAIN declared
    PROVE  Declares(f)' /\ Evolves(Signature(f), Signature(f)')
<1>1. /\ Fn(f).params \in Seq(Parameters) /\ declared[f] \in DOMAIN fnTypes
      /\ Signature(f) \in Seq(Types) /\ Len(Signature(f)) = Len(Fn(f).params)
      /\ DOMAIN Signature(f) = DOMAIN Fn(f).params /\ Declares(f)
  BY SignatureFacts DEF IDeclared
<1>2. /\ Fn(f)' = Fn(f) /\ f \in DOMAIN declared' /\ declared'[f] = declared[f]
      /\ declared[f] \in DOMAIN fnTypes'
  BY <1>1, KeptProgram DEF Keeps
<1>3. Evolves(Signature(f), Signature(f)')
  BY <1>1, <1>2 DEF Keeps, Signature
<1>4. PICK new : new = Signature(f)'
  OBVIOUS
<1>5. ASSUME NEW p \in DOMAIN Fn(f).params
      PROVE  IF IsGeneric(Fn(f).params[p])
             THEN new[p] = Nothing \/ (p = 1 /\ IsPointer(new[p]))
             ELSE LET found == ll_typer_get_type_from_typename(known', Fn(f).params[p].type, Unbound)
                  IN new[p] # Nothing /\ found.types = known' /\ found.type = new[p]
  <2>1. p \in 1 .. Len(Signature(f))
    BY <1>1
  <2>2. new[p] = Signature(f)[p] \/ (p = 1 /\ Signature(f)[p] = Nothing /\ IsPointer(new[p]))
    BY <1>3, <1>4, <2>1 DEF Evolves
  <2>3. CASE IsGeneric(Fn(f).params[p])
    <3>1. Signature(f)[p] = Nothing \/ (p = 1 /\ IsPointer(Signature(f)[p]))
      BY <1>1, <2>3 DEF Declares
    <3> QED
      BY <2>2, <2>3, <3>1
  <2>4. CASE ~IsGeneric(Fn(f).params[p])
    <3>1. PICK name : name = Fn(f).params[p].type
      OBVIOUS
    <3>2. name \in Names /\ name.base \notin Generics
      <4>1. Fn(f).params[p] \in Parameters
        BY <1>1
      <4> QED
        BY <2>4, <3>1, <4>1 DEF IsGeneric, Parameters
    <3>3. LET found == ll_typer_get_type_from_typename(known, name, Unbound)
          IN Signature(f)[p] # Nothing /\ found.types = known /\ found.type = Signature(f)[p]
      BY <1>1, <2>4, <3>1 DEF Declares
    <3>4. KnownTypes(known) /\ KnownTypes(known') /\ known \subseteq known'
      BY DEF ITypes, Keeps
    <3>5. Sane(name, Unbound)
      BY <3>2, PlainName
    <3>6. Like(BaseOf(name, Unbound), BaseOf(name, Unbound))
      BY DEF Like
    <3>7. LET found == ll_typer_get_type_from_typename(known', name, Unbound)
          IN found.types = known' /\ found.type = Signature(f)[p]
      BY <3>3, <3>4, <3>5, <3>6, ResolvesAgain
    <3>8. new[p] = Signature(f)[p]
      BY <2>2, <3>3
    <3> QED
      BY <2>4, <3>1, <3>3, <3>7, <3>8
  <2> QED
    BY <2>3, <2>4
<1> QED
  BY <1>1, <1>2, <1>3, <1>4, <1>5 DEF Declares, Evolves

\* The type that is found or made is the only one.
LEMMA UniqueGet ==
    ASSUME NEW types \in Seq(FnTypes), NEW parameters \in Seq(Types), NEW changed, Unique(types, changed)
    PROVE  Unique(ll_typer_get_fn_type(types, parameters).types, changed)
<1>1. PICK r : r = ll_typer_get_fn_type(types, parameters)
  OBVIOUS
<1>2. PICK t : t = [bucket |-> Bucket(parameters), parameters |-> parameters]
  OBVIOUS
<1>3. /\ r.address \in DOMAIN r.types /\ r.types[r.address] = t
      /\ \/ r.types = types
         \/ /\ \A b \in DOMAIN types : types[b] # t
            /\ DOMAIN r.types = DOMAIN types \union {r.address} /\ r.address \notin DOMAIN types
            /\ \A b \in DOMAIN types : r.types[b] = types[b]
  BY <1>1, <1>2, FnTypeFacts
<1>4. CASE r.types = types
  BY <1>1, <1>4
<1>5. CASE /\ \A b \in DOMAIN types : types[b] # t
           /\ DOMAIN r.types = DOMAIN types \union {r.address} /\ r.address \notin DOMAIN types
           /\ \A b \in DOMAIN types : r.types[b] = types[b]
  <2>1. t.bucket = Bucket(parameters) /\ t.parameters = parameters
    BY <1>2
  <2>2. ASSUME NEW b \in DOMAIN types \ changed, types[b].parameters = parameters PROVE FALSE
    <3>1. types[b].bucket = Bucket(parameters)
      BY <2>2 DEF Unique
    <3>2. types[b] \in FnTypes
      OBVIOUS
    <3>3. types[b] = t
      BY <1>2, <2>2, <3>1, <3>2 DEF FnTypes
    <3> QED
      BY <1>5, <3>3
  <2>3. \A a \in DOMAIN r.types \ changed : r.types[a].bucket = Bucket(r.types[a].parameters)
    BY <1>3, <1>5, <2>1 DEF Unique
  <2>4. ASSUME NEW a \in DOMAIN r.types \ changed, NEW b \in DOMAIN r.types \ changed,
               r.types[a].parameters = r.types[b].parameters
        PROVE  a = b
    <3>1. CASE a \in DOMAIN types /\ b \in DOMAIN types
      BY <1>5, <2>4, <3>1 DEF Unique
    <3>2. CASE a \notin DOMAIN types
      BY <1>3, <1>5, <2>1, <2>2, <2>4, <3>2
    <3>3. CASE b \notin DOMAIN types
      BY <1>3, <1>5, <2>1, <2>2, <2>4, <3>3
    <3> QED
      BY <3>1, <3>2, <3>3
  <2>5. Unique(r.types, changed)
    BY <2>3, <2>4 DEF Unique
  <2> QED
    BY <1>1, <2>5
<1> QED
  BY <1>3, <1>4, <1>5
-----------------------------------------------------------------------------
\* The function type that a call asks for.
LEMMA AskedTypeFacts ==
    ASSUME ITypes, IDeclared, IFrames, Typed, IsPolymorphic(ThisCall.callee)
    PROVE  LET types == AskedType.types
               address == AskedType.address
           IN /\ types \in Seq(FnTypes) /\ address \in DOMAIN types /\ address \in Nat \ {0}
              /\ types[address] = [bucket |-> Bucket(Asked), parameters |-> Asked]
              /\ \A b \in DOMAIN types : types[b] = types[address] => b <= address
              /\ \A a \in DOMAIN fnTypes : a \in DOMAIN types /\ types[a] = After[a]
              /\ \A a \in DOMAIN types : a \in DOMAIN fnTypes \/ a = address
              /\ \A a \in DOMAIN types : \A p \in DOMAIN types[a].parameters :
                    types[a].parameters[p] = Nothing \/ Proper(types[a].parameters[p])
              /\ \A changed : Unique(After, changed) => Unique(types, changed)
<1>1. PICK asked : asked = Asked
  OBVIOUS
<1>2. PICK after : after = After
  OBVIOUS
<1>3. PICK r : r = ll_typer_get_fn_type(after, asked)
  OBVIOUS
<1>4. PICK t : t = [bucket |-> Bucket(asked), parameters |-> asked]
  OBVIOUS
<1>5. AskedType = r
  BY <1>1, <1>2, <1>3 DEF AskedType
<1>6. TypesCall
  BY DEF Typed
<1>7. /\ after \in Seq(FnTypes) /\ DOMAIN after = DOMAIN fnTypes /\ Len(after) \in Nat
      /\ \A a \in DOMAIN fnTypes : \A p \in DOMAIN after[a].parameters :
            after[a].parameters[p] = Nothing \/ Proper(after[a].parameters[p])
  BY <1>2, <1>6, AfterFacts
<1>8. asked \in Seq(Types) /\ \A p \in DOMAIN asked : Proper(asked[p])
  BY <1>1, AskedFacts
<1>9. /\ r.types \in Seq(FnTypes) /\ Len(r.types) \in Nat
      /\ r.address \in DOMAIN r.types /\ r.types[r.address] = t
      /\ \/ r.types = after /\ \A b \in DOMAIN after : after[b] = t => b <= r.address
         \/ /\ \A b \in DOMAIN after : after[b] # t
            /\ r.address = Len(after) + 1 /\ Len(r.types) = Len(after) + 1
            /\ DOMAIN r.types = DOMAIN after \union {r.address} /\ r.address \notin DOMAIN after
            /\ \A b \in DOMAIN after : r.types[b] = after[b]
  BY <1>3, <1>4, <1>7, <1>8, FnTypeFacts
<1>10. DOMAIN r.types = 1 .. Len(r.types) /\ r.address \in Nat \ {0}
  BY <1>9
<1>11. /\ \A b \in DOMAIN r.types : r.types[b] = t => b <= r.address
       /\ \A a \in DOMAIN fnTypes : a \in DOMAIN r.types /\ r.types[a] = after[a]
       /\ \A a \in DOMAIN r.types : a \in DOMAIN fnTypes \/ a = r.address
  BY <1>7, <1>9, <1>10
<1>12. t.parameters = asked
  BY <1>4
<1>13. \A a \in DOMAIN r.types : \A p \in DOMAIN r.types[a].parameters :
          r.types[a].parameters[p] = Nothing \/ Proper(r.types[a].parameters[p])
  BY <1>7, <1>8, <1>9, <1>11, <1>12
<1>14. \A changed : Unique(after, changed) => Unique(r.types, changed)
  BY <1>3, <1>7, <1>8, UniqueGet
<1> QED
  BY <1>1, <1>2, <1>4, <1>5, <1>9, <1>10, <1>11, <1>13, <1>14

LEMMA UniqueAfter ==
    ASSUME ITypes, IDeclared, IFrames, IUnique, TypesCall
    PROVE  Unique(After, {a \in DOMAIN fnTypes : ChangedInPlace(a)})
<1>1. PICK changed : changed = {a \in DOMAIN fnTypes : ChangedInPlace(a)}
  OBVIOUS
<1>2. Unique(fnTypes, changed)
  BY <1>1 DEF IUnique
<1>3. DOMAIN After = DOMAIN fnTypes
  BY AfterFacts
<1>4. \A a \in DOMAIN fnTypes : a \notin changed => After[a] = fnTypes[a]
  <2>1. SUFFICES ASSUME NEW a \in DOMAIN fnTypes, After[a] # fnTypes[a] PROVE a \in changed
    OBVIOUS
  <2>2. a = declared[ThisCall.callee] /\ AutoReference(ThisCall, This)
    BY <2>1, AfterFacts
  <2>3. IsPolymorphic(ThisCall.callee) /\ ThisCall.callee \in DOMAIN declared
    BY <2>2, TopCall DEF AutoReference
  <2> QED
    BY <1>1, <2>2, <2>3 DEF ChangedInPlace
<1>5. Unique(After, changed)
  BY <1>2, <1>3, <1>4 DEF Unique
<1> QED
  BY <1>1, <1>5

\* Typing a call keeps what there is.
LEMMA CallKeeps ==
    ASSUME ITypes, IDeclared, IUnique, IFrames, TypesCall,
           program' = program, declared' = declared, status' = status, known' = Arguments.known,
           fnTypes' = fnTypes \/ (Typed /\ IsPolymorphic(ThisCall.callee) /\ fnTypes' = AskedType.types)
    PROVE  Keeps /\ ITypes' /\ IDeclared' /\ IUnique'
<1>1. known \subseteq known' /\ KnownTypes(known')
  BY TopArguments
<1>2. /\ fnTypes' \in Seq(FnTypes)
      /\ \A a \in DOMAIN fnTypes : 
            /\ a \in DOMAIN fnTypes'
            /\ Evolves(fnTypes[a].parameters, fnTypes'[a].parameters)
            /\ Nothing \notin ToSet(fnTypes[a].parameters) => fnTypes'[a] = fnTypes[a]
      /\ \A a \in DOMAIN fnTypes' : \A p \in DOMAIN fnTypes'[a].parameters :
            fnTypes'[a].parameters[p] = Nothing \/ Proper(fnTypes'[a].parameters[p])
      /\ Unique(fnTypes', {a \in DOMAIN fnTypes : ChangedInPlace(a)})
  <2>1. CASE fnTypes' = fnTypes
    <3>1. \A a \in DOMAIN fnTypes : Evolves(fnTypes[a].parameters, fnTypes[a].parameters)
      BY EvolvesStays
    <3> QED
      BY <2>1, <3>1 DEF ITypes, IUnique
  <2>2. CASE Typed /\ IsPolymorphic(ThisCall.callee) /\ fnTypes' = AskedType.types
    <3>1. Unique(After, {a \in DOMAIN fnTypes : ChangedInPlace(a)})
      BY UniqueAfter
    <3>2. PICK types : types = AskedType.types
      OBVIOUS
    <3>3. /\ types \in Seq(FnTypes)
          /\ \A a \in DOMAIN fnTypes : a \in DOMAIN types /\ types[a] = After[a]
          /\ \A a \in DOMAIN types : \A p \in DOMAIN types[a].parameters :
                types[a].parameters[p] = Nothing \/ Proper(types[a].parameters[p])
          /\ \A changed : Unique(After, changed) => Unique(types, changed)
      BY <2>2, <3>2, AskedTypeFacts
    <3>4. \A a \in DOMAIN fnTypes :
             /\ Evolves(fnTypes[a].parameters, After[a].parameters)
             /\ Nothing \notin ToSet(fnTypes[a].parameters) => After[a] = fnTypes[a]
      BY AfterFacts
    <3>5. fnTypes' = types
      BY <2>2, <3>2
    <3> QED
      BY <3>1, <3>3, <3>4, <3>5
  <2> QED
    BY <2>1, <2>2
<1>3. Keeps
  BY <1>1, <1>2 DEF Keeps
<1>4. ITypes'
  BY <1>1, <1>2 DEF ITypes
<1>5. IDeclared'
  <2>1. \A f \in DOMAIN declared : Declares(f)'
    BY <1>3, KeptDeclares
  <2> QED
    BY <2>1 DEF IDeclared
<1>6. IUnique'
  <2>1. PICK changed : changed = {a \in DOMAIN fnTypes : ChangedInPlace(a)}
    OBVIOUS
  <2>2. PICK types : types = fnTypes'
    OBVIOUS
  <2>3. Unique(types, changed)'
    BY <1>2, <2>1, <2>2, KeptProgram
  <2>4. \A a : ChangedInPlace(a)' = ChangedInPlace(a)
    BY KeptProgram DEF ChangedInPlace
  <2>5. \A a \in changed : a \in DOMAIN types /\ ChangedInPlace(a)'
    BY <1>2, <2>1, <2>2, <2>4
  <2>6. PICK new : new = {a \in DOMAIN fnTypes' : ChangedInPlace(a)'}
    OBVIOUS
  <2>7. changed \subseteq new
    BY <2>2, <2>5, <2>6
  <2>8. Unique(types, new)'
    BY <2>3, <2>7 DEF Unique
  <2> QED
    BY <2>2, <2>6, <2>8 DEF IUnique
<1> QED
  BY <1>3, <1>4, <1>5, <1>6
-----------------------------------------------------------------------------
\* What holds of a body goes on to hold.
Still(m) ==
    frames'[m].fn = frames[m].fn /\ frames'[m].type = frames[m].type /\ frames'[m].bound = frames[m].bound

LEMMA StillMade ==
    ASSUME ITypes, IDeclared, IFrames, Keeps, NEW m \in 1 .. N, Still(m)
    PROVE  /\ frames'[m].fn \in DOMAIN declared' /\ Fn(frames[m].fn)' = Fn(frames[m].fn)
           /\ m = 1 => (frames[m].type = 0 /\ ~IsPolymorphic(frames[m].fn))'
           /\ m # 1 => /\ MadeFor(frames[m].fn, frames[m].type, frames[m].bound)'
                       /\ Made(m)' = Made(m)
                       /\ frames[m].type \in DOMAIN fnTypes /\ frames[m].type \in DOMAIN fnTypes'
                       /\ fnTypes'[frames[m].type] = fnTypes[frames[m].type]
<1>1. PICK f : f = frames[m].fn
  OBVIOUS
<1>2. PICK t : t = frames[m].type
  OBVIOUS
<1>3. PICK b : b = frames[m].bound
  OBVIOUS
<1>4. frames'[m].fn = f /\ frames'[m].type = t /\ frames'[m].bound = b
  BY <1>1, <1>2, <1>3 DEF Still
<1>5. f \in DOMAIN declared' /\ Fn(f)' = Fn(f) /\ IsPolymorphic(f)' = IsPolymorphic(f)
  BY <1>1, KeptProgram DEF Keeps, IFrames
<1>6. CASE m = 1
  BY <1>1, <1>2, <1>4, <1>5, <1>6 DEF IFrames
<1>7. CASE m # 1
  <2>1. MadeFor(f, t, b)
    BY <1>1, <1>2, <1>3, <1>7 DEF IFrames
  <2>2. MadeFor(f, t, b)' /\ fnTypes'[t] = fnTypes[t]
    BY <2>1, KeptMade
  <2>3. t \in DOMAIN fnTypes /\ t \in DOMAIN fnTypes'
    BY <2>1 DEF MadeFor, Keeps
  <2> QED
    BY <1>1, <1>2, <1>4, <1>5, <1>7, <2>2, <2>3 DEF Made
<1> QED
  BY <1>6, <1>7

LEMMA KeptInstances ==
    ASSUME ITypes, IDeclared, IInstances, Keeps, instances' = instances
    PROVE  IInstances'
<1>1. ASSUME NEW f \in DOMAIN instances, NEW i \in DOMAIN instances[f]
      PROVE  MadeFor(f, instances[f][i].type, instances[f][i].bound)'
  <2>1. PICK t : t = instances[f][i].type
    OBVIOUS
  <2>2. PICK b : b = instances[f][i].bound
    OBVIOUS
  <2>3. MadeFor(f, t, b)
    BY <2>1, <2>2 DEF IInstances
  <2>4. MadeFor(f, t, b)'
    BY <2>3, KeptMade
  <2> QED
    BY <2>1, <2>2, <2>4
<1> QED
  BY <1>1 DEF IInstances, Keeps

LEMMA StillNoInstance ==
    ASSUME ITypes, IDeclared, IFrames, IInstances, INoInstance, Keeps, NEW m \in 2 .. N, Still(m),
           NEW a \in DOMAIN fnTypes', a >= frames[m].type, fnTypes'[a] = fnTypes'[frames[m].type],
           NEW i \in DOMAIN instances[frames[m].fn]
    PROVE  instances[frames[m].fn][i].type # a
<1> SUFFICES ASSUME instances[frames[m].fn][i].type = a PROVE FALSE
  OBVIOUS
<1>1. PICK f : f = frames[m].fn
  OBVIOUS
<1>2. PICK b : b = instances[f][i].bound
  OBVIOUS
<1>3. m \in 1 .. N /\ m # 1
  OBVIOUS
<1>4. f \in DOMAIN instances
  <2>1. f \in DOMAIN declared
    BY <1>1, <1>3 DEF IFrames
  <2> QED
    BY <2>1, SignatureFacts DEF IInstances
<1>5. MadeFor(f, a, b)
  BY <1>1, <1>2, <1>4 DEF IInstances
<1>6. a \in DOMAIN fnTypes /\ fnTypes'[a] = fnTypes[a]
  BY <1>5, KeptMade DEF MadeFor
<1>7. fnTypes'[frames[m].type] = fnTypes[frames[m].type]
  BY <1>3, StillMade
<1> QED
  BY <1>6, <1>7 DEF INoInstance

LEMMA StillRepeats ==
    ASSUME ITypes, IDeclared, IFrames, IRepeats, Keeps, NEW m \in 1 .. N, m # N,
           Still(m), Still(m + 1), frames'[m].at = frames[m].at
    PROVE  /\ Repeats(Pending(m), frames[m].bound, Signature(Pending(m).callee), Made(m + 1))'
           /\ Pending(m)' = Pending(m)
<1>1. /\ N \in Nat /\ m + 1 \in 1 .. N /\ m + 1 # 1
      /\ frames[m].at \in 1 .. Len(Fn(frames[m].fn).calls) + 1 /\ frames[m].at >= 2
      /\ frames[m].fn \in DOMAIN declared
  <2>1. N \in Nat
    BY DEF IFrames, N
  <2>2. m + 1 \in 1 .. N /\ m + 1 # 1
    BY <2>1
  <2> QED
    BY <2>1, <2>2 DEF IFrames
<1>2. PICK k : k = frames[m].at - 1
  OBVIOUS
<1>3. frames[m].fn \in DOMAIN program.fns /\ Fn(frames[m].fn).calls \in Seq(Invokes)
  <2>1. frames[m].fn \in DOMAIN program.fns
    BY <1>1, SignatureFacts
  <2> QED
    BY <2>1, FunctionFacts DEF ITypes
<1>4. k \in DOMAIN Fn(frames[m].fn).calls
  <2>1. Len(Fn(frames[m].fn).calls) \in Nat /\ DOMAIN Fn(frames[m].fn).calls = 1 .. Len(Fn(frames[m].fn).calls)
    BY <1>3
  <2> QED
    BY <1>1, <1>2, <2>1
<1>5. PICK call : call = Fn(frames[m].fn).calls[k]
  OBVIOUS
<1>6. PICK bound : bound = frames[m].bound
  OBVIOUS
<1>7. Pending(m) = call
  BY <1>2, <1>5 DEF Pending
<1>8. /\ call \in Invokes /\ Closed(call, bound) /\ call.callee \in DOMAIN declared
      /\ call.callee = frames[m + 1].fn
  <2>1. call \in Invokes /\ Closed(call, bound)
    BY <1>1, <1>3, <1>4, <1>5, <1>6, ClosedCalls, CallFacts DEF ITypes
  <2>2. call.callee = frames[m + 1].fn
    BY <1>7 DEF IFrames
  <2>3. frames[m + 1].fn \in DOMAIN declared
    BY <1>1 DEF IFrames
  <2> QED
    BY <2>1, <2>2, <2>3
<1>9. PICK signature : signature = Signature(call.callee)
  OBVIOUS
<1>10. PICK new : new = Signature(call.callee)'
  OBVIOUS
<1>11. Evolves(signature, new) /\ Len(signature) \in Nat
  BY <1>8, <1>9, <1>10, KeptDeclares, SignatureFacts
<1>12. PICK asked : asked = Made(m + 1)
  OBVIOUS
<1>13. Repeats(call, bound, signature, asked)
  BY <1>6, <1>7, <1>9, <1>12 DEF IRepeats
<1>14. Repeats(call, bound, new, asked)'
  BY <1>8, <1>11, <1>13, KeptRepeats
<1>15. Pending(m)' = call
  <2>1. Fn(frames[m].fn)' = Fn(frames[m].fn)
    BY StillMade
  <2>2. frames'[m].at - 1 = k
    BY <1>2
  <2> QED
    BY <1>5, <2>1, <2>2 DEF Pending
<1>16. Made(m + 1)' = asked
  BY <1>1, <1>12, StillMade
<1>17. frames'[m].bound = bound
  BY <1>6 DEF Still
<1>18. Signature(Pending(m).callee)' = new
  BY <1>10, <1>15 DEF Signature
<1> QED
  BY <1>7, <1>14, <1>15, <1>16, <1>17, <1>18
-----------------------------------------------------------------------------
\* The body on top has come to the call that one below it waits for, typed for the
\* same types: it asks for the same once more.
LEMMA RepeatsHere ==
    ASSUME ITypes, IDeclared, IFrames, IRepeats, Typed, IsPolymorphic(ThisCall.callee),
           NEW j \in 2 .. N, j # N, Same(j, N), frames[j].at = Frame.at + 1
    PROVE  ThisCall.callee = frames[j + 1].fn /\ Asked = Made(j + 1)
<1>1. /\ TypesCall /\ N \in Nat /\ j \in 1 .. N /\ j # 1 /\ N \in 1 .. N /\ N # 1 /\ Frame = frames[N]
      /\ Frame.at \in Nat
  <2>1. TypesCall
    BY DEF Typed
  <2>2. N \in Nat /\ N \in 1 .. N /\ Frame = frames[N]
    BY <2>1, TopCall
  <2>3. Frame.at \in Nat
    BY <2>2, SMTT(40) DEF IFrames
  <2> QED
    BY <2>1, <2>2, <2>3
<1>2. PICK call : call = ThisCall
  OBVIOUS
<1>3. PICK f : f = frames[N].fn
  OBVIOUS
<1>4. frames[j].fn = f /\ Frame.fn = f /\ Made(j) = Made(N)
  BY <1>1, <1>3 DEF Same
<1>5. Pending(j) = call
  <2>1. frames[j].at - 1 = Frame.at
    BY <1>1
  <2>2. Pending(j) = Fn(f).calls[Frame.at]
    BY <1>4, <2>1 DEF Pending
  <2> QED
    BY <1>2, <1>4, <2>2 DEF ThisCall
<1>6. call.callee = frames[j + 1].fn
  BY <1>1, <1>5 DEF IFrames
<1>7. PICK mine : mine = frames[N].bound
  OBVIOUS
<1>8. PICK other : other = frames[j].bound
  OBVIOUS
<1>9. \A n \in Generics : Like(other[n], mine[n])
  <2>1. MadeFor(f, frames[N].type, mine) /\ MadeFor(f, frames[j].type, other)
    BY <1>1, <1>3, <1>4, <1>7, <1>8 DEF IFrames
  <2>2. BoundFor(Fn(f).params, Made(N), mine) /\ BoundFor(Fn(f).params, Made(N), other)
    BY <1>4, <2>1 DEF MadeFor, Made
  <2> QED
    BY <2>2, BoundLike
<1>10. /\ call \in Invokes /\ Closed(call, mine) /\ Closed(call, other)
       /\ Frame.at \in DOMAIN Fn(f).calls /\ KnownTypes(known)
  <2>1. call \in Invokes /\ Closed(call, mine) /\ Frame.at \in DOMAIN Fn(f).calls
    BY <1>1, <1>2, <1>4, <1>7, TopCall
  <2>2. call = Fn(frames[j].fn).calls[Frame.at] /\ Frame.at \in DOMAIN Fn(frames[j].fn).calls
    BY <1>2, <1>4, <2>1 DEF ThisCall
  <2>3. Closed(call, other)
    BY <1>1, <1>8, <2>2, ClosedCalls
  <2> QED
    BY <2>1, <2>3 DEF ITypes
<1>11. \A i \in ArgsOf(call) : Like(BaseOf(call.args[i].type, other), BaseOf(call.args[i].type, mine))
  BY <1>9 DEF BaseOf, Like
<1>12. PICK old : old = ArgumentTypes(known, call, other)
  OBVIOUS
<1>13. PICK new : new = ArgumentTypes(known, call, mine)
  OBVIOUS
<1>14. /\ old.known = known /\ \A i \in ArgsOf(call) : old.types[i].base # "garbage"
       /\ \A before, after :
             Evolves(Signature(call.callee), before) /\ Evolves(before, after) /\ Converts(call, old.types, after)
             => AskedFor(call, old.types, before, after) = Made(j + 1)
  BY <1>1, <1>5, <1>8, <1>12 DEF IRepeats, Repeats
<1>15. \A i \in ArgsOf(call) : Like(old.types[i], new.types[i])
  BY <1>10, <1>11, <1>12, <1>13, <1>14, ArgumentsAgain
<1>16. Arguments = new
  BY <1>1, <1>2, <1>7, <1>13 DEF Arguments
<1>17. \A i \in ArgsOf(call) : old.types[i] = new.types[i]
  BY <1>2, <1>14, <1>15, <1>16, AskedFacts DEF Like
<1>18. old.types = new.types
  <2>1. old.types = [i \in ArgsOf(call) |-> old.types[i]] /\ new.types = [i \in ArgsOf(call) |-> new.types[i]]
    BY <1>12, <1>13, ArgumentsFun
  <2> QED
    BY <1>17, <2>1
<1>19. PICK before : before = Signature(call.callee)
  OBVIOUS
<1>20. PICK after : after = After[declared[call.callee]].parameters
  OBVIOUS
<1>21. Evolves(before, before) /\ Evolves(before, after)
  BY <1>1, <1>2, <1>19, <1>20, EvolvesStays, AfterFacts, TopCall DEF Signature
<1>22. Converts(call, new.types, after) /\ Asked = AskedFor(call, new.types, before, after)
  BY <1>2, <1>16, <1>19, <1>20, AskedFacts DEF Asked
<1> QED
  BY <1>2, <1>6, <1>14, <1>18, <1>19, <1>21, <1>22

\* The body on top goes on behind the call.
LEMMA GoesOn ==
    ASSUME ITypes, IDeclared, IFrames, TypesCall, NEW new,
           new = [frames EXCEPT ![Len(frames)].at = @ + 1]
    PROVE  /\ new \in Seq([fn : Nat, type : Nat, at : Nat, bound : [Generics -> Types]])
           /\ Len(new) = N
           /\ \A m \in 1 .. N : 
                 /\ new[m].fn = frames[m].fn /\ new[m].type = frames[m].type /\ new[m].bound = frames[m].bound
                 /\ m # N => new[m].at = frames[m].at
           /\ new[N].at = frames[N].at + 1 /\ frames[N].at \in Nat
<1> DEFINE Bodies == [fn : Nat, type : Nat, at : Nat, bound : [Generics -> Types]]
<1>1. frames \in Seq(Bodies)
  BY DEF IFrames
<1>2. N \in 1 .. N /\ N \in Nat /\ N = Len(frames)
  BY TopCall DEF N
<1>3. PICK r : r = frames[N]
  OBVIOUS
<1>4. r \in Bodies
  <2> HIDE DEF Bodies
  <2> QED
    BY <1>1, <1>2, <1>3
<1>5. PICK s : s = [r EXCEPT !.at = r.at + 1]
  OBVIOUS
<1>6. s \in Bodies /\ s.fn = r.fn /\ s.type = r.type /\ s.bound = r.bound /\ s.at = r.at + 1 /\ r.at \in Nat
  BY <1>4, <1>5
<1>7. new = [frames EXCEPT ![N] = s]
  BY <1>2, <1>3, <1>5
<1> HIDE DEF Bodies
<1>8. new \in Seq(Bodies) /\ Len(new) = N /\ new[N] = s /\ \A m \in 1 .. N : m # N => new[m] = frames[m]
  BY <1>1, <1>2, <1>6, <1>7
<1> QED
  BY <1>2, <1>3, <1>6, <1>8 DEF Bodies
-----------------------------------------------------------------------------
\* An instance is found where there is one.
LEMMA FoundFacts ==
    ASSUME NEW f, NEW address, Len(instances[f]) \in Nat, DOMAIN instances[f] = 1 .. Len(instances[f])
    PROVE  LET found == ll_typer_function_instance_get(f, address)
           IN /\ found # 0 => found \in DOMAIN instances[f] /\ instances[f][found].type = address
              /\ found = 0 => \A i \in DOMAIN instances[f] : instances[f][i].type # address
<1> DEFINE I == {i \in 1 .. Len(instances[f]) : instances[f][i].type = address}
<1>1. ll_typer_function_instance_get(f, address) = IF I # {} THEN CHOOSE x \in I : \A y \in I : x =< y ELSE 0
  BY Zenon DEF ll_typer_function_instance_get, SelectInSeq, Min
<1>2. I \subseteq Nat /\ 0 \notin I
  OBVIOUS
<1>3. I # {} => (CHOOSE x \in I : \A y \in I : x =< y) \in I
  <2> HIDE DEF I
  <2>1. SUFFICES ASSUME I # {} PROVE (CHOOSE x \in I : \A y \in I : x =< y) \in I
    OBVIOUS
  <2>2. \E x \in I : \A y \in I : x <= y
    BY <1>2, <2>1, Least
  <2> QED
    BY <2>2
<1>4. PICK found : found = ll_typer_function_instance_get(f, address)
  OBVIOUS
<1>5. CASE I = {}
  BY <1>1, <1>4, <1>5
<1>6. CASE I # {}
  <2>1. found \in I
    <3> HIDE DEF I
    <3> QED
      BY <1>1, <1>3, <1>4, <1>6
  <2> QED
    BY <1>2, <1>4, <2>1
<1> QED
  BY <1>5, <1>6

\* The instances of the function that is called.
LEMMA FoundHere ==
    ASSUME ITypes, IDeclared, IFrames, IInstances, TypesCall
    PROVE  LET f == ThisCall.callee
           IN /\ f \in DOMAIN instances
              /\ Found # 0 => Found \in DOMAIN instances[f] /\ instances[f][Found].type = AskedType.address
              /\ Found = 0 => \A i \in DOMAIN instances[f] : instances[f][i].type # AskedType.address
<1>1. PICK f : f = ThisCall.callee
  OBVIOUS
<1>2. f \in DOMAIN instances
  BY <1>1, TopCall DEF IInstances
<1>3. Len(instances[f]) \in Nat /\ DOMAIN instances[f] = 1 .. Len(instances[f])
  BY <1>2 DEF IInstances
<1>4. PICK address : address = AskedType.address
  OBVIOUS
<1>5. Found = ll_typer_function_instance_get(f, address)
  BY <1>1, <1>4 DEF Found
<1> QED
  BY <1>1, <1>2, <1>3, <1>4, <1>5, FoundFacts

-----------------------------------------------------------------------------
\* The call at hand is behind the body on top, and nothing else happened to the bodies.
LEMMA BodiesGoOn ==
    ASSUME ITypes, IDeclared, IFrames, TypesCall, Keeps, NEW new,
           new = [frames EXCEPT ![Len(frames)].at = @ + 1],
           \A m \in 1 .. N : frames'[m] = new[m]
    PROVE  \A m \in 1 .. N :
              /\ Still(m)
              /\ m # N => frames'[m].at = frames[m].at /\ frames'[m + 1].fn = (Pending(m)').callee
              /\ m = N => frames'[m].at = Frame.at + 1 /\ Pending(m)' = ThisCall
              /\ frames'[m].fn \in DOMAIN declared'
              /\ (frames[m].at \in 1 .. Len(Fn(frames[m].fn).calls) + 1)' /\ frames'[m].at >= 2
              /\ m = 1 => (frames[m].type = 0 /\ ~IsPolymorphic(frames[m].fn))'
              /\ m # 1 => MadeFor(frames[m].fn, frames[m].type, frames[m].bound)'
<1> TAKE m \in 1 .. N
<1>1. /\ N \in Nat /\ N \in 1 .. N /\ Frame = frames[N] /\ Frame.at \in DOMAIN Fn(Frame.fn).calls
      /\ Frame.fn \in DOMAIN program.fns
  BY TopCall
<1>2. /\ \A i \in 1 .. N : 
            /\ new[i].fn = frames[i].fn /\ new[i].type = frames[i].type /\ new[i].bound = frames[i].bound
            /\ i # N => new[i].at = frames[i].at
      /\ new[N].at = frames[N].at + 1 /\ frames[N].at \in Nat
  BY GoesOn
<1>3. \A i \in 1 .. N : Still(i)
  BY <1>2 DEF Still
<1>4. /\ frames[m].fn \in DOMAIN declared /\ frames[m].at \in 1 .. Len(Fn(frames[m].fn).calls) + 1
      /\ m # N => frames[m].at >= 2 /\ frames[m + 1].fn = Pending(m).callee
  BY DEF IFrames
<1>5. PICK f : f = frames[m].fn
  OBVIOUS
<1>6. frames'[m].fn = f /\ Fn(f)' = Fn(f)
  BY <1>3, <1>5, KeptProgram DEF Still, Keeps
<1>7. PICK calls_f : calls_f = Fn(f).calls
  OBVIOUS
<1>8. calls_f \in Seq(Invokes) /\ Len(calls_f) \in Nat /\ DOMAIN calls_f = 1 .. Len(calls_f)
  <2>1. f \in DOMAIN program.fns
    BY <1>4, <1>5, SignatureFacts
  <2> QED
    BY <1>7, <2>1, FunctionFacts DEF ITypes
<1>9. /\ frames'[m].fn \in DOMAIN declared'
      /\ m = 1 => (frames[m].type = 0 /\ ~IsPolymorphic(frames[m].fn))'
      /\ m # 1 => MadeFor(frames[m].fn, frames[m].type, frames[m].bound)'
  <2>1. Still(m)
    BY <1>3
  <2> QED
    BY <2>1, StillMade
<1>10. Fn(frames[m].fn)'.calls = calls_f
  BY <1>6, <1>7 DEF Fn
<1>11. CASE m # N
  <2>1. frames'[m].at = frames[m].at
    BY <1>2, <1>11
  <2>2. frames'[m].at \in 1 .. Len(calls_f) + 1 /\ frames'[m].at >= 2
    BY <1>4, <1>5, <1>7, <1>11, <2>1
  <2>3. Pending(m)' = Pending(m)
    BY <1>3, <1>6, <1>10, <1>7, <1>5, <2>1 DEF Pending
  <2>4. m + 1 \in 1 .. N
    BY <1>1, <1>11
  <2>5. frames'[m + 1].fn = frames[m + 1].fn
    BY <1>3, <2>4 DEF Still
  <2> QED
    BY <1>3, <1>4, <1>9, <1>10, <1>11, <2>1, <2>2, <2>3, <2>5
<1>12. CASE m = N
  <2>1. frames'[m].at = Frame.at + 1 /\ Frame.at \in 1 .. Len(calls_f)
    BY <1>1, <1>2, <1>5, <1>7, <1>8, <1>12
  <2>2. frames'[m].at \in 1 .. Len(calls_f) + 1 /\ frames'[m].at >= 2 /\ frames'[m].at - 1 = Frame.at
    BY <1>8, <2>1
  <2>3. Pending(m)' = calls_f[Frame.at]
    BY <1>10, <2>2 DEF Pending
  <2>4. ThisCall = calls_f[Frame.at]
    BY <1>1, <1>5, <1>7, <1>12 DEF ThisCall
  <2> QED
    BY <1>3, <1>9, <1>10, <1>12, <2>1, <2>2, <2>3, <2>4
<1> QED
  BY <1>11, <1>12

\* Of two bodies for the same types, the upper one is still not past the other.
LEMMA BehindGoesOn ==
    ASSUME ITypes, IDeclared, IFrames, IBehind, TypesCall, Keeps, NEW new,
           new = [frames EXCEPT ![Len(frames)].at = @ + 1],
           \A m \in 1 .. N : frames'[m] = new[m],
           NEW j \in 2 .. N, NEW k \in 2 .. N, j < k, Same(j, k)'
    PROVE  /\ Same(j, k) /\ frames'[j].at = frames[j].at
           /\ frames'[k].at <= frames'[j].at
           /\ k # N => (frames'[k].at = frames'[j].at => Same(j + 1, k + 1)')
           /\ k = N => frames'[k].at = Frame.at + 1
<1>1. N \in Nat /\ N \in 1 .. N /\ Frame = frames[N]
  BY TopCall
<1>2. j \in 1 .. N /\ k \in 1 .. N /\ j # 1 /\ k # 1 /\ j # N
  BY <1>1
<1>3. \A m \in 1 .. N :
          /\ Still(m)
          /\ m # N => frames'[m].at = frames[m].at
          /\ m = N => frames'[m].at = Frame.at + 1
  BY BodiesGoOn
<1>4. \A m \in 2 .. N : Made(m)' = Made(m) /\ frames'[m].fn = frames[m].fn
  <2> TAKE m \in 2 .. N
  <2>1. m \in 1 .. N /\ m # 1
    OBVIOUS
  <2>2. Still(m)
    BY <1>3, <2>1
  <2> QED
    BY <2>1, <2>2, StillMade DEF Still
<1>5. \A a, b \in 2 .. N : Same(a, b)' <=> Same(a, b)
  <2> TAKE a, b \in 2 .. N
  <2>1. Same(a, b)' <=> (frames'[a].fn = frames'[b].fn /\ Made(a)' = Made(b)')
    BY DEF Same
  <2> QED
    BY <1>4, <2>1 DEF Same
<1>6. Same(j, k)
  BY <1>5
<1>7. /\ frames[k].at <= frames[j].at
      /\ k = N => frames[k].at < frames[j].at
      /\ k # N /\ frames[k].at = frames[j].at => Same(j + 1, k + 1)
  BY <1>6 DEF IBehind
<1>8. frames[k].at \in Nat /\ frames[j].at \in Nat
  <2>1. \A m \in 1 .. N : frames[m].at \in 1 .. Len(Fn(frames[m].fn).calls) + 1
    BY DEF IFrames
  <2>2. frames[k].at \in 1 .. Len(Fn(frames[k].fn).calls) + 1
    BY <1>2, <2>1
  <2>3. frames[j].at \in 1 .. Len(Fn(frames[j].fn).calls) + 1
    BY <1>2, <2>1
  <2> QED
    BY <2>2, <2>3
<1>9. CASE k = N
  BY <1>1, <1>2, <1>3, <1>6, <1>7, <1>8, <1>9
<1>10. CASE k # N
  <2>1. frames'[k].at = frames[k].at /\ frames'[j].at = frames[j].at
    BY <1>2, <1>3, <1>10
  <2>2. j + 1 \in 2 .. N /\ k + 1 \in 2 .. N
    BY <1>1, <1>10
  <2> QED
    BY <1>5, <1>6, <1>7, <1>10, <2>1, <2>2
<1> QED
  BY <1>9, <1>10
\* The body on top has come to the call that one below it waits for.
LEMMA PendingHere ==
    ASSUME ITypes, IDeclared, IFrames, TypesCall, NEW j \in 2 .. N, j # N,
           frames[j].fn = Frame.fn, frames[j].at = Frame.at + 1
    PROVE  /\ Pending(j) = ThisCall /\ frames[j + 1].fn = ThisCall.callee /\ j + 1 \in 2 .. N
           /\ MadeFor(ThisCall.callee, frames[j + 1].type, frames[j + 1].bound)
<1>1. N \in Nat /\ j \in 1 .. N /\ j + 1 \in 1 .. N /\ j + 1 \in 2 .. N /\ j + 1 # 1
  BY TopCall
<1>2. frames[j].at - 1 = Frame.at
  <2>1. Frame.at \in DOMAIN Fn(Frame.fn).calls /\ Fn(Frame.fn).calls \in Seq(Invokes)
    BY TopCall, FunctionFacts DEF ITypes
  <2> QED
    BY <2>1
<1>3. Pending(j) = ThisCall
  BY <1>2 DEF Pending, ThisCall
<1>4. frames[j + 1].fn = ThisCall.callee
  BY <1>1, <1>3 DEF IFrames
<1>5. MadeFor(frames[j + 1].fn, frames[j + 1].type, frames[j + 1].bound)
  BY <1>1 DEF IFrames
<1> QED
  BY <1>1, <1>3, <1>4, <1>5

\* Where the call finds an instance, the body on top is not at the call that one
\* below it waits for: that one found none.
LEMMA NotHere ==
    ASSUME Inv, Typed, Keeps, IsPolymorphic(ThisCall.callee), fnTypes' = AskedType.types, Found # 0,
           NEW j \in 2 .. N, j # N, Same(j, N), frames[j].at = Frame.at + 1, Still(j + 1)
    PROVE  FALSE
<1>1. /\ ITypes /\ IDeclared /\ IFrames /\ IInstances /\ INoInstance /\ IRepeats /\ TypesCall
      /\ Frame = frames[N]
  <2>1. ITypes /\ IDeclared /\ IFrames /\ IInstances /\ INoInstance /\ IRepeats /\ TypesCall
    BY DEF Inv, Typed
  <2> QED
    BY <2>1, TopCall
<1>2. frames[j].fn = Frame.fn
  BY <1>1 DEF Same
<1>3. /\ j + 1 \in 2 .. N /\ frames[j + 1].fn = ThisCall.callee
      /\ MadeFor(ThisCall.callee, frames[j + 1].type, frames[j + 1].bound)
  BY <1>1, <1>2, PendingHere
<1>4. Asked = Made(j + 1)
  BY <1>1, RepeatsHere
<1>5. PICK a : a = AskedType.address
  OBVIOUS
<1>6. PICK b : b = frames[j + 1].type
  OBVIOUS
<1>7. fnTypes[b] = [bucket |-> Bucket(Asked), parameters |-> Asked] /\ b \in DOMAIN fnTypes
  BY <1>1, <1>3, <1>4, <1>6, MadeFacts DEF Made
<1>8. /\ a \in DOMAIN fnTypes' /\ fnTypes'[a] = [bucket |-> Bucket(Asked), parameters |-> Asked]
      /\ \A c \in DOMAIN fnTypes' : fnTypes'[c] = fnTypes'[a] => c <= a
  BY <1>1, <1>5, AskedTypeFacts
<1>9. fnTypes'[b] = fnTypes[b] /\ b \in DOMAIN fnTypes'
  <2>1. fnTypes'[b] = fnTypes[b]
    BY <1>1, <1>3, <1>6, KeptMade
  <2> QED
    BY <1>7, <2>1 DEF Keeps
<1>10. fnTypes'[a] = fnTypes'[b] /\ b <= a
  BY <1>7, <1>8, <1>9
<1>11. a \in Nat /\ b \in Nat
  <2>1. a \in Nat
    BY <1>1, <1>5, AskedTypeFacts
  <2>2. fnTypes \in Seq(FnTypes)
    BY <1>1 DEF ITypes
  <2>3. b \in Nat
    BY <1>7, <2>2
  <2> QED
    BY <2>1, <2>3
<1>12. \A i \in DOMAIN instances[frames[j + 1].fn] : instances[frames[j + 1].fn][i].type # a
  <2> TAKE i \in DOMAIN instances[frames[j + 1].fn]
  <2>1. a >= frames[j + 1].type /\ fnTypes'[a] = fnTypes'[frames[j + 1].type]
    BY <1>6, <1>10, <1>11
  <2> QED
    BY <1>1, <1>3, <1>8, <2>1, StillNoInstance
<1>13. Found \in DOMAIN instances[ThisCall.callee] /\ instances[ThisCall.callee][Found].type = a
  BY <1>1, <1>5, FoundHere
<1> QED
  BY <1>3, <1>12, <1>13

\* A call is typed, and nothing is made for it.
LEMMA AdvanceStep ==
    ASSUME Inv, Typed, program' = program, declared' = declared, status' = status, instances' = instances,
           known' = Arguments.known, frames' = [frames EXCEPT ![Len(frames)].at = @ + 1],
           \/ ~IsPolymorphic(ThisCall.callee) /\ fnTypes' = fnTypes
           \/ IsPolymorphic(ThisCall.callee) /\ Found # 0 /\ fnTypes' = AskedType.types
    PROVE  Inv'
<1>1. /\ ITypes /\ IDeclared /\ IUnique /\ IFrames /\ IInstances /\ INoInstance /\ IRepeats /\ IBehind
      /\ TypesCall
  BY DEF Inv, Typed
<1>2. Keeps /\ ITypes' /\ IDeclared' /\ IUnique'
  BY <1>1, CallKeeps
<1>3. PICK new : new = frames'
  OBVIOUS
<1>4. new = [frames EXCEPT ![Len(frames)].at = @ + 1] /\ \A m \in 1 .. N : frames'[m] = new[m]
  BY <1>3
<1>5. new \in Seq([fn : Nat, type : Nat, at : Nat, bound : [Generics -> Types]]) /\ Len(new) = N
  BY <1>1, <1>4, GoesOn
<1>6. N' = N /\ N \in Nat /\ N \in 1 .. N /\ Frame = frames[N]
  BY <1>1, <1>3, <1>5, TopCall DEF N
<1>7. \A m \in 1 .. N :
          /\ Still(m)
          /\ m # N => frames'[m].at = frames[m].at /\ frames'[m + 1].fn = (Pending(m)').callee
          /\ frames'[m].fn \in DOMAIN declared'
          /\ (frames[m].at \in 1 .. Len(Fn(frames[m].fn).calls) + 1)' /\ frames'[m].at >= 2
          /\ m = 1 => (frames[m].type = 0 /\ ~IsPolymorphic(frames[m].fn))'
          /\ m # 1 => MadeFor(frames[m].fn, frames[m].type, frames[m].bound)'
  BY <1>1, <1>2, <1>4, BodiesGoOn
<1>8. IFrames'
  <2>1. frames' \in Seq([fn : Nat, type : Nat, at : Nat, bound : [Generics -> Types]]) /\ N' <= MaxDepth
    BY <1>1, <1>3, <1>5, <1>6 DEF IFrames
  <2> QED
    BY <1>6, <1>7, <2>1 DEF IFrames
<1>9. IInstances'
  BY <1>1, <1>2, KeptInstances
<1>10. INoInstance'
  <2>1. ASSUME NEW m \in 2 .. N, NEW a \in DOMAIN fnTypes', a >= frames'[m].type, fnTypes'[a] = fnTypes'[frames'[m].type],
               NEW i \in DOMAIN instances[frames'[m].fn]
        PROVE  instances[frames'[m].fn][i].type # a
    <3>1. m \in 1 .. N
      OBVIOUS
    <3>2. Still(m) /\ frames'[m].fn = frames[m].fn /\ frames'[m].type = frames[m].type
      BY <1>7, <3>1 DEF Still
    <3>3. i \in DOMAIN instances[frames[m].fn] /\ a >= frames[m].type /\ fnTypes'[a] = fnTypes'[frames[m].type]
      BY <2>1, <3>2
    <3>4. instances[frames[m].fn][i].type # a
      BY <1>1, <1>2, <3>2, <3>3, StillNoInstance
    <3> QED
      BY <3>2, <3>4
  <2> QED
    BY <1>6, <2>1, ZenonT(40) DEF INoInstance
<1>11. IRepeats'
  <2>1. ASSUME NEW m \in 1 .. N, m # N
        PROVE  Repeats(Pending(m), frames[m].bound, Signature(Pending(m).callee), Made(m + 1))'
    <3>1. m + 1 \in 1 .. N
      BY <1>6, <2>1
    <3>2. Still(m) /\ Still(m + 1) /\ frames'[m].at = frames[m].at
      BY <1>7, <2>1, <3>1
    <3> QED
      BY <1>1, <1>2, <2>1, <3>2, StillRepeats
  <2> QED
    BY <1>6, <2>1 DEF IRepeats
<1>12. IBehind'
  <2>1. ASSUME NEW j \in 2 .. N, NEW k \in 2 .. N, j < k, Same(j, k)'
        PROVE  /\ frames'[k].at <= frames'[j].at
               /\ k = N => frames'[k].at < frames'[j].at
               /\ k # N => (frames'[k].at = frames'[j].at => Same(j + 1, k + 1)')
    <3>1. /\ Same(j, k) /\ frames'[j].at = frames[j].at
          /\ frames'[k].at <= frames'[j].at
          /\ k # N => (frames'[k].at = frames'[j].at => Same(j + 1, k + 1)')
          /\ k = N => frames'[k].at = Frame.at + 1
      BY <1>1, <1>2, <1>4, <2>1, BehindGoesOn
    <3>2. ASSUME k = N, frames'[k].at = frames'[j].at
          PROVE  FALSE
      <4>1. j # N /\ Same(j, N) /\ frames[j].at = Frame.at + 1 /\ j + 1 \in 1 .. N
        BY <1>6, <2>1, <3>1, <3>2
      <4>2. frames[j].fn = Frame.fn
        BY <1>6, <4>1 DEF Same
      <4>3. IsPolymorphic(ThisCall.callee)
        BY <1>1, <4>1, <4>2, PendingHere DEF MadeFor
      <4>4. Still(j + 1) /\ Found # 0 /\ fnTypes' = AskedType.types
        BY <1>7, <4>1, <4>3
      <4> QED
        BY <1>2, <4>1, <4>3, <4>4, NotHere
    <3>3. frames'[k].at \in Int /\ frames'[j].at \in Int
      <4>1. j \in 1 .. N /\ k \in 1 .. N
        OBVIOUS
      <4>2. (frames[k].at \in 1 .. Len(Fn(frames[k].fn).calls) + 1)' /\ (frames[j].at \in 1 .. Len(Fn(frames[j].fn).calls) + 1)'
        BY <1>7, <4>1
      <4> QED
        BY <4>2
    <3> QED
      BY <3>1, <3>2, <3>3
  <2> QED
    BY <1>6, <2>1 DEF IBehind
<1> QED
  BY <1>2, <1>8, <1>9, <1>10, <1>11, <1>12 DEF Inv
-----------------------------------------------------------------------------
\* What the match binds the generics to.
LEMMA MatchFacts ==
    ASSUME ITypes, IDeclared, IFrames, Typed, IsPolymorphic(ThisCall.callee),
           MatchesAll(ThisCall, Asked), NEW bound \in Scopes(ThisCall, Asked)
    PROVE  /\ FitsAll(Params(ThisCall), Asked) /\ BoundFor(Params(ThisCall), Asked, bound)
           /\ Stands(Params(ThisCall), Asked) /\ Params(ThisCall)[1].type.base \in Generics => ThisCall.method
           /\ 1 \in DOMAIN Params(ThisCall)
<1>1. /\ TypesCall /\ ThisCall.callee \in DOMAIN program.fns
      /\ Asked \in Seq(Types) /\ DOMAIN Asked = DOMAIN Params(ThisCall) /\ Params(ThisCall) \in Seq(Parameters)
  BY TopCall, AskedFacts DEF Typed
<1>2. 1 \in DOMAIN Params(ThisCall)
  <2>1. PICK p \in DOMAIN Params(ThisCall) : TRUE
    BY DEF IsPolymorphic, ToSet, Params
  <2> QED
    BY <1>1, <2>1
<1>3. PICK params : params = Params(ThisCall)
  OBVIOUS
<1>4. PICK asked : asked = Asked
  OBVIOUS
<1>5. \A p \in DOMAIN asked :
          params[p].type.base \in Generics /\ ~(p = 1 /\ StandsForAddress(ThisCall, asked[1])) => Fits(params[p].type, asked[p])
  BY <1>3, <1>4 DEF MatchesAll
<1>6. StandsForAddress(ThisCall, asked[1]) <=> ThisCall.method /\ Stands(params, asked)
  BY <1>3 DEF StandsForAddress, Stands
<1>7. ASSUME Stands(params, asked), params[1].type.base \in Generics PROVE ThisCall.method
  <2>1. SUFFICES ASSUME ~ThisCall.method PROVE FALSE
    OBVIOUS
  <2>2. Fits(params[1].type, asked[1])
    BY <1>1, <1>2, <1>4, <1>5, <1>6, <1>7, <2>1
  <2>3. params[1].type \in Names /\ asked[1] \in Types
    BY <1>1, <1>2, <1>3, <1>4, FunctionFacts DEF Params, ITypes
  <2> QED
    BY <1>7, <2>2, <2>3, FitsPointer DEF Stands
<1>8. FitsAll(params, asked)
  BY <1>5, <1>6 DEF FitsAll
<1>9. ASSUME NEW n \in Generics
      PROVE  LET binders == {p \in DOMAIN asked : params[p].type.base = n}
                 p == Max(binders)
             IN /\ binders = {} => bound[n] = Nothing
                /\ binders # {} =>
                      IF p = 1 /\ Stands(params, asked) THEN bound[n] \in {asked[1], Garbage}
                      ELSE bound[n] = Under(params[p].type, asked[p])
  <2>1. PICK binders : binders = {p \in DOMAIN asked : params[p].type.base = n}
    OBVIOUS
  <2>2. PICK p : p = Max(binders)
    OBVIOUS
  <2>3. PICK found \in {asked[1], Garbage} : bound = BoundTo(ThisCall, asked, found)
    BY <1>4 DEF Scopes
  <2>4. bound[n] = IF binders = {} THEN Nothing
                   ELSE IF p = 1 /\ StandsForAddress(ThisCall, asked[1]) THEN found
                   ELSE Under(params[p].type, asked[p])
    BY <1>3, <2>1, <2>2, <2>3 DEF BoundTo
  <2>5. binders # {} => p \in binders
    <3>1. binders \subseteq 1 .. Len(asked) /\ Len(asked) \in Nat
      BY <1>1, <1>4, <2>1
    <3> QED
      BY <2>2, <3>1, MaxFacts
  <2>6. binders # {} /\ p = 1 /\ Stands(params, asked) => ThisCall.method
    BY <1>7, <2>1, <2>5
  <2> QED
    BY <1>6, <2>1, <2>2, <2>3, <2>4, <2>6
<1>10. BoundFor(params, asked, bound)
  BY <1>9 DEF BoundFor
<1> QED
  BY <1>2, <1>3, <1>4, <1>7, <1>8, <1>10

\* What the types of a method that is called are when `this' is to be a pointer.
LEMMA ReferencedFacts ==
    ASSUME ITypes, IDeclared, IFrames, Typed, IsPolymorphic(ThisCall.callee),
           ThisCall.method, 1 \in DOMAIN Params(ThisCall), Stands(Params(ThisCall), Asked),
           Signature(ThisCall.callee)[1] = Nothing
    PROVE  AutoReference(ThisCall, This)
<1>1. /\ TypesCall /\ ~GivenTwice(ThisCall) /\ ThisCall.callee \in DOMAIN program.fns
      /\ 1 \in ArgsOf(ThisCall) /\ IsThis(ThisCall, 1) /\ Targets(ThisCall)[1] = 1
  BY TopCall, TopArguments DEF Typed, Overrun
<1>2. Asked[1] = This
  <2>1. PICK before : before = Signature(ThisCall.callee)
    OBVIOUS
  <2>2. PICK after : after = After[declared[ThisCall.callee]].parameters
    OBVIOUS
  <2>3. Asked = AskedFor(ThisCall, Arguments.types, before, after)
    BY <2>1, <2>2 DEF Asked
  <2>4. AskedFor(ThisCall, Arguments.types, before, after)[1] = Arguments.types[1]
    BY <1>1, <2>1, AskedAt
  <2> QED
    BY <2>3, <2>4 DEF This
<1>3. PICK name : name = Params(ThisCall)[1].type
  OBVIOUS
<1>4. name \in Names /\ name.base # "*" /\ name.wraps \in Seq(Words) /\ IsPointer(name)
  <2>1. name \in Names /\ name \in Types
    BY <1>1, <1>3, FunctionFacts DEF Params, ITypes
  <2> QED
    BY <1>3, <2>1 DEF Names, Types, Stands
<1>5. "*" \in ToSet(name.wraps)
  <2>1. name.wraps # <<>> /\ name.wraps[Len(name.wraps)] = "*"
    BY <1>4 DEF IsPointer, Outermost, Last
  <2>2. Len(name.wraps) \in DOMAIN name.wraps
    BY <1>4, <2>1
  <2> QED
    BY <2>1, <2>2 DEF ToSet
<1>6. ~IsPointer(This)
  BY <1>2 DEF Stands
<1> QED
  BY <1>3, <1>4, <1>5, <1>6 DEF AutoReference

\* The body that is made is a proper one.
LEMMA MadeNew ==
    ASSUME ITypes, IDeclared, IUnique, IFrames, Typed, IsPolymorphic(ThisCall.callee),
           MatchesAll(ThisCall, Asked), NEW bound \in Scopes(ThisCall, Asked),
           Keeps, IDeclared', fnTypes' = AskedType.types,
           NEW f, f = ThisCall.callee, NEW address, address = AskedType.address
    PROVE  MadeFor(f, address, bound)'
<1>1. /\ TypesCall /\ ThisCall.callee \in DOMAIN declared /\ ThisCall.callee \in DOMAIN program.fns
      /\ Asked \in Seq(Types) /\ Len(Asked) = Len(Params(ThisCall)) /\ \A p \in DOMAIN Asked : Proper(Asked[p])
      /\ declared[ThisCall.callee] \in DOMAIN fnTypes
  BY TopCall, AskedFacts DEF Typed
<1>2. /\ FitsAll(Params(ThisCall), Asked) /\ BoundFor(Params(ThisCall), Asked, bound)
      /\ Stands(Params(ThisCall), Asked) /\ Params(ThisCall)[1].type.base \in Generics => ThisCall.method
      /\ 1 \in DOMAIN Params(ThisCall)
  BY MatchFacts
<1>3. f = ThisCall.callee
  OBVIOUS
<1>4. address = AskedType.address
  OBVIOUS
<1>5. PICK asked : asked = Asked
  OBVIOUS
<1>6. PICK params : params = Fn(f).params
  OBVIOUS
<1>7. params = Params(ThisCall)
  BY <1>3, <1>6 DEF Params
<1>8. address \in DOMAIN fnTypes' /\ fnTypes'[address] = [bucket |-> Bucket(asked), parameters |-> asked]
  BY <1>4, <1>5, AskedTypeFacts
<1>9. /\ f \in DOMAIN declared' /\ declared'[f] = declared[f]
      /\ Fn(f)' = Fn(f) /\ IsPolymorphic(f)' = IsPolymorphic(f)
      /\ \A parameters : Bucket(parameters)' = Bucket(parameters)
  BY <1>1, <1>3, KeptProgram DEF Keeps
<1>10. ASSUME Stands(params, asked) PROVE Signature(f)'[1] # Nothing
  <2>1. CASE ~IsGeneric(params[1])
    <3>1. Declares(f)'
      BY <1>9 DEF IDeclared
    <3> QED
      BY <1>2, <1>6, <1>7, <1>9, <2>1, <3>1, ZenonT(40) DEF Declares, IsGeneric
  <2>2. CASE IsGeneric(params[1]) /\ Signature(f)[1] # Nothing
    <3>1. Evolves(Signature(f), Signature(f)')
      BY <1>1, <1>3, KeptDeclares
    <3>2. 1 \in 1 .. Len(Signature(f))
      <4>1. Signature(f) \in Seq(Types) /\ DOMAIN Signature(f) = DOMAIN params
        BY <1>1, <1>3, <1>6, SignatureFacts
      <4> QED
        BY <1>2, <1>7, <4>1
    <3> QED
      BY <2>2, <3>1, <3>2 DEF Evolves
  <2>3. CASE IsGeneric(params[1]) /\ Signature(f)[1] = Nothing
    <3>1. ThisCall.method
      BY <1>2, <1>5, <1>7, <1>10, <2>3 DEF IsGeneric
    <3>2. AutoReference(ThisCall, This)
      BY <1>1, <1>2, <1>3, <1>5, <1>7, <1>10, <2>3, <3>1, ReferencedFacts
    <3>3. /\ After[declared[f]].parameters[1] = PointerTo(This) /\ PointerTo(This) # Nothing
      BY <1>1, <1>3, <3>2, AfterFacts
    <3>4. fnTypes'[declared[f]] = After[declared[f]]
      BY <1>1, <1>3, AskedTypeFacts
    <3>5. Signature(f)' = After[declared[f]].parameters
      BY <1>9, <3>4 DEF Signature
    <3> QED
      BY <3>3, <3>5
  <2> QED
    BY <2>1, <2>2, <2>3
<1>11. f \in DOMAIN declared' /\ IsPolymorphic(f)' /\ Fn(f)'.params = params
  BY <1>3, <1>6, <1>9
<1>12. fnTypes'[address].parameters = asked /\ fnTypes'[address].bucket = Bucket(asked)'
  BY <1>8, <1>9
<1>13. /\ Len(asked) = Len(params) /\ \A p \in DOMAIN asked : Proper(asked[p])
       /\ BoundFor(params, asked, bound) /\ FitsAll(params, asked)
  BY <1>1, <1>2, <1>5, <1>7
<1> QED
  BY <1>8, <1>10, <1>11, <1>12, <1>13 DEF MadeFor
\* The call that something is made for asks for the same whenever it is typed again.
LEMMA RepeatsNew ==
    ASSUME ITypes, IDeclared, IUnique, IFrames, Typed, IsPolymorphic(ThisCall.callee),
           Keeps, known' = Arguments.known, fnTypes' = AskedType.types,
           NEW call, call = ThisCall, NEW bound, bound = Frame.bound, NEW asked, asked = Asked,
           NEW first, first = Signature(call.callee)'
    PROVE  Repeats(call, bound, first, asked)'
<1>1. /\ TypesCall /\ call \in Invokes /\ Closed(call, bound) /\ KnownTypes(known)
      /\ call.callee \in DOMAIN declared /\ declared[call.callee] \in DOMAIN fnTypes
      /\ KnownTypes(Arguments.known)
      /\ \A i \in ArgsOf(call) : IsThis(call, i) => Targets(call)[i] = 1
  BY TopCall, TopArguments DEF Typed, ITypes
<1>2. PICK old : old = ArgumentTypes(known, call, bound)
  OBVIOUS
<1>3. PICK new : new = ArgumentTypes(known', call, bound)
  OBVIOUS
<1>4. old = Arguments
  BY <1>2 DEF Arguments
<1>5. new.known = known' /\ new.types = old.types
  <2>1. \A i \in ArgsOf(call) : Like(BaseOf(call.args[i].type, bound), BaseOf(call.args[i].type, bound))
    BY DEF Like
  <2>2. old.known \subseteq known' /\ KnownTypes(known')
    BY <1>1, <1>4
  <2> QED
    BY <1>1, <1>2, <1>3, <2>1, <2>2, ArgumentsAgain
<1>6. PICK signature : signature = Signature(call.callee)
  OBVIOUS
<1>7. first = Signature(call.callee)'
  OBVIOUS
<1>8. first = After[declared[call.callee]].parameters
  <2>1. fnTypes'[declared[call.callee]] = After[declared[call.callee]]
    BY <1>1, AskedTypeFacts
  <2>2. declared'[call.callee] = declared[call.callee]
    BY <1>1 DEF Keeps
  <2> QED
    BY <1>7, <2>1, <2>2 DEF Signature
<1>9. Evolves(signature, first)
  BY <1>1, <1>6, <1>8, AfterFacts DEF Signature
<1>10. /\ ~GivenTwice(call) /\ \A p \in DOMAIN Params(call) : \E i \in ArgsOf(call) : Targets(call)[i] = p
       /\ \A i \in ArgsOf(call) : old.types[i].base # "garbage"
  BY <1>4, AskedFacts
<1>11. asked = AskedFor(call, old.types, signature, first)
  BY <1>4, <1>6, <1>8 DEF Asked
<1>12. DOMAIN Params(call) = 1 .. Len(signature) /\ Len(signature) \in Nat
  <2>1. signature \in Seq(Types) /\ DOMAIN signature = DOMAIN Params(call)
    BY <1>1, <1>6, SignatureFacts DEF Params
  <2> QED
    BY <2>1
<1>13. PICK types : types = old.types
  OBVIOUS
<1>14. ASSUME NEW before, NEW after, Evolves(first, before), Evolves(before, after), Converts(call, types, after)
       PROVE  AskedFor(call, types, before, after)' = asked
  <2>1. AllGiven(call, signature)
    BY <1>1, <1>10, <1>12 DEF AllGiven
  <2>3. AskedFor(call, types, before, after) = AskedFor(call, types, signature, first)
    BY <1>9, <1>14, <2>1, AsksAgain
  <2> QED
    BY <1>11, <1>13, <2>3, KeptProgram DEF Keeps
<1> QED
  BY <1>3, <1>5, <1>7, <1>10, <1>13, <1>14 DEF Repeats

\* The scope of the new body is one.
LEMMA BoundInTypes ==
    ASSUME ITypes, IDeclared, IFrames, Typed, IsPolymorphic(ThisCall.callee),
           MatchesAll(ThisCall, Asked), NEW bound \in Scopes(ThisCall, Asked)
    PROVE  bound \in [Generics -> Types]
<1>1. /\ Asked \in Seq(Types) /\ Len(Asked) = Len(Params(ThisCall)) /\ DOMAIN Asked = DOMAIN Params(ThisCall)
      /\ \A p \in DOMAIN Asked : Proper(Asked[p])
      /\ Params(ThisCall) \in Seq(Parameters)
  BY TopCall, AskedFacts DEF Typed
<1>2. FitsAll(Params(ThisCall), Asked) /\ BoundFor(Params(ThisCall), Asked, bound)
  BY MatchFacts
<1>3. bound = [n \in Generics |-> bound[n]]
  BY DEF Scopes, BoundTo
<1>4. ASSUME NEW n \in Generics PROVE bound[n] \in Types
  <2>1. PICK binders : binders = {p \in DOMAIN Asked : Params(ThisCall)[p].type.base = n}
    OBVIOUS
  <2>2. CASE binders = {}
    <3>1. bound[n] = Nothing
      BY <1>2, <2>1, <2>2 DEF BoundFor
    <3> QED
      BY <3>1, NothingFacts
  <2>3. CASE binders # {}
    <3>1. PICK p \in DOMAIN Params(ThisCall) : Params(ThisCall)[p].type.base = n
      BY <1>1, <2>1, <2>3
    <3>2. Proper(bound[Params(ThisCall)[p].type.base])
      BY <1>1, <1>2, <3>1, BoundProper
    <3> QED
      BY <3>1, <3>2 DEF Proper
  <2> QED
    BY <2>2, <2>3
<1> QED
  BY <1>3, <1>4

Bodies == [fn : Nat, type : Nat, at : Nat, bound : [Generics -> Types]]

\* A new body on top of the n there are.
Pushed(n, f, address, bound, old) ==
    /\ n = N /\ f = ThisCall.callee /\ address = AskedType.address
    /\ old = [frames EXCEPT ![Len(frames)].at = @ + 1]
    /\ N' = n + 1 /\ frames' \in Seq(Bodies) /\ \A m \in 1 .. n : frames'[m] = old[m]
    /\ frames'[n + 1].fn = f /\ frames'[n + 1].type = address /\ frames'[n + 1].at = 1 /\ frames'[n + 1].bound = bound

\* A body is made for the call, and typed in the middle of this one.
LEMMA PushedStep ==
    ASSUME Inv, Typed, IsPolymorphic(ThisCall.callee), Found = 0, MatchesAll(ThisCall, Asked), N < MaxDepth,
           NEW bound \in Scopes(ThisCall, Asked), Keeps, ITypes', IDeclared', IUnique',
           instances' = instances, known' = Arguments.known, fnTypes' = AskedType.types,
           NEW n, NEW f, NEW address, NEW old, Pushed(n, f, address, bound, old)
    PROVE  Inv'
<1>1. /\ ITypes /\ IDeclared /\ IUnique /\ IFrames /\ IInstances /\ INoInstance /\ IRepeats /\ IBehind
      /\ TypesCall /\ n = N
  BY DEF Inv, Typed, Pushed
<1>2. Keeps
  OBVIOUS
<1>3. old = [frames EXCEPT ![Len(frames)].at = @ + 1]
  BY DEF Pushed
<1>4. PICK call : call = ThisCall
  OBVIOUS
<1>5. f = ThisCall.callee
  BY DEF Pushed
<1>6. address = AskedType.address
  BY DEF Pushed
<1>7. PICK asked : asked = Asked
  OBVIOUS
<1>8. PICK mine : mine = Frame.bound
  OBVIOUS
<1>11. /\ n = N /\ n \in Nat /\ n \in 1 .. n /\ Frame = frames[n] /\ f \in DOMAIN program.fns /\ f \in DOMAIN declared
       /\ f \in Nat /\ call \in Invokes
  <2>1. n \in Nat /\ n \in 1 .. n /\ Frame = frames[n] /\ f \in DOMAIN program.fns /\ f \in DOMAIN declared /\ call \in Invokes
    BY <1>1, <1>4, <1>5, TopCall
  <2> QED
    BY <1>1, <2>1, FunctionFacts DEF ITypes
<1>12. MadeFor(f, address, bound)' /\ address \in Nat
  BY <1>1, <1>2, <1>5, <1>6, MadeNew, AskedTypeFacts
<1>15. N' = n + 1 /\ \A m \in 1 .. n : frames'[m] = old[m]
  BY DEF Pushed
<1>16. /\ frames'[n + 1].fn = f /\ frames'[n + 1].type = address /\ frames'[n + 1].at = 1 /\ frames'[n + 1].bound = bound
  BY DEF Pushed
<1>17. \A m \in 1 .. n :
          /\ Still(m)
          /\ m # n => frames'[m].at = frames[m].at /\ frames'[m + 1].fn = (Pending(m)').callee
          /\ m = n => frames'[m].at = Frame.at + 1 /\ Pending(m)' = ThisCall
          /\ frames'[m].fn \in DOMAIN declared'
          /\ (frames[m].at \in 1 .. Len(Fn(frames[m].fn).calls) + 1)' /\ frames'[m].at >= 2
          /\ m = 1 => (frames[m].type = 0 /\ ~IsPolymorphic(frames[m].fn))'
          /\ m # 1 => MadeFor(frames[m].fn, frames[m].type, frames[m].bound)'
  BY <1>1, <1>2, <1>3, <1>15, BodiesGoOn
<1>18. Made(n + 1)' = asked /\ fnTypes'[address] = [bucket |-> Bucket(asked), parameters |-> asked]
       /\ \A a \in DOMAIN fnTypes' : fnTypes'[a] = fnTypes'[address] => a <= address
  <2>1. /\ fnTypes'[address] = [bucket |-> Bucket(asked), parameters |-> asked]
        /\ \A a \in DOMAIN fnTypes' : fnTypes'[a] = fnTypes'[address] => a <= address
    BY <1>1, <1>6, <1>7, AskedTypeFacts
  <2> QED
    BY <1>16, <2>1 DEF Made
<1>19. IFrames'
  <2>1. N' <= MaxDepth
    BY <1>11, <1>15, WrapAssumption
  <2>2. ASSUME NEW m \in 1 .. n + 1
        PROVE  /\ frames'[m].fn \in DOMAIN declared'
               /\ (frames[m].at \in 1 .. Len(Fn(frames[m].fn).calls) + 1)'
               /\ m = 1 => (frames[m].type = 0 /\ ~IsPolymorphic(frames[m].fn))'
               /\ m # 1 => MadeFor(frames[m].fn, frames[m].type, frames[m].bound)'
               /\ m # n + 1 => frames'[m].at >= 2 /\ frames'[m + 1].fn = (Pending(m)').callee
    <3>1. CASE m = n + 1
      <4>1. frames'[m].fn \in DOMAIN declared' /\ m # 1
        BY <1>2, <1>11, <1>16, <3>1 DEF Keeps
      <4>2. Fn(frames[m].fn)' = Fn(f)
        BY <1>2, <1>16, <3>1, KeptProgram DEF Keeps, Fn
      <4>3. Len(Fn(f).calls) \in Nat
        BY <1>1, <1>11, FunctionFacts DEF ITypes
      <4>4. (frames[m].at \in 1 .. Len(Fn(frames[m].fn).calls) + 1)'
        BY <1>16, <3>1, <4>2, <4>3
      <4>5. MadeFor(frames[m].fn, frames[m].type, frames[m].bound)'
        BY <1>12, <1>16, <3>1
      <4> QED
        BY <3>1, <4>1, <4>4, <4>5
    <3>2. CASE m # n + 1
      <4>1. m \in 1 .. n
        BY <1>11, <3>2
      <4>2. Still(m)
        BY <1>17, <4>1
      <4>3. m # 1 => MadeFor(frames[m].fn, frames[m].type, frames[m].bound)'
        <5>1. PICK g : g = frames[m].fn
          OBVIOUS
        <5>2. PICK t : t = frames[m].type
          OBVIOUS
        <5>3. PICK b : b = frames[m].bound
          OBVIOUS
        <5>4. m # 1 => MadeFor(g, t, b)
          BY <1>1, <4>1, <5>1, <5>2, <5>3 DEF IFrames
        <5>5. m # 1 => MadeFor(g, t, b)'
          BY <1>1, <1>2, <5>4, KeptMade
        <5>6. frames'[m].fn = g /\ frames'[m].type = t /\ frames'[m].bound = b
          BY <4>2, <5>1, <5>2, <5>3 DEF Still
        <5> QED
          BY <5>5, <5>6
      <4>4. frames'[m + 1].fn = (Pending(m)').callee
        BY <1>5, <1>16, <1>17, <4>1
      <4> QED
        BY <1>17, <3>2, <4>1, <4>3, <4>4
    <3> QED
      BY <3>1, <3>2
  <2>3. frames' \in Seq(Bodies)
    BY DEF Pushed
  <2> QED
    BY <1>15, <2>1, <2>2, <2>3 DEF IFrames, Bodies
<1>20. IInstances'
  BY <1>1, <1>2, KeptInstances
<1>21. INoInstance'
  <2>1. ASSUME NEW m \in 2 .. n + 1, NEW a \in DOMAIN fnTypes', a >= frames'[m].type, fnTypes'[a] = fnTypes'[frames'[m].type],
               NEW i \in DOMAIN instances[frames'[m].fn]
        PROVE  instances[frames'[m].fn][i].type # a
    <3>1. CASE m = n + 1
      <4>1. a = address
        <5>1. fnTypes'[a] = fnTypes'[address] /\ a >= address
          BY <1>16, <2>1, <3>1
        <5>2. a <= address /\ a \in Nat
          BY <1>2, <1>18, <5>1 DEF ITypes
        <5> QED
          BY <1>12, <5>1, <5>2
      <4>2. \A x \in DOMAIN instances[f] : instances[f][x].type # address
        BY <1>1, <1>5, <1>6, FoundHere
      <4>3. frames'[m].fn = f
        BY <1>16, <3>1
      <4> QED
        BY <4>1, <4>2, <4>3
    <3>2. CASE m # n + 1
      <4>1. m \in 1 .. n /\ m \in 2 .. n
        BY <1>11, <3>2
      <4>2. Still(m) /\ frames'[m].fn = frames[m].fn /\ frames'[m].type = frames[m].type
        BY <1>17, <4>1 DEF Still
      <4>3. i \in DOMAIN instances[frames[m].fn] /\ a >= frames[m].type /\ fnTypes'[a] = fnTypes'[frames[m].type]
        BY <2>1, <4>2
      <4>4. instances[frames[m].fn][i].type # a
        BY <1>1, <1>2, <4>1, <4>2, <4>3, StillNoInstance
      <4> QED
        BY <4>2, <4>4
    <3> QED
      BY <3>1, <3>2
  <2> QED
    BY <1>15, <2>1 DEF INoInstance
<1>22. IRepeats'
  <2>1. ASSUME NEW m \in 1 .. n
        PROVE  Repeats(Pending(m), frames[m].bound, Signature(Pending(m).callee), Made(m + 1))'
    <3>1. CASE m = n
      <4>1. PICK first : first = Signature(call.callee)'
        OBVIOUS
      <4>2. Repeats(call, mine, first, asked)'
        BY <1>1, <1>2, <1>4, <1>7, <1>8, <4>1, RepeatsNew
      <4>3. Pending(m)' = call /\ frames'[m].bound = mine /\ Made(m + 1)' = asked
        BY <1>4, <1>8, <1>11, <1>17, <1>18, <3>1 DEF Still
      <4>4. Signature(Pending(m).callee)' = first
        BY <4>1, <4>3 DEF Signature
      <4> QED
        BY <4>2, <4>3, <4>4
    <3>2. CASE m # n
      <4>1. m + 1 \in 1 .. n
        BY <1>11, <3>2
      <4>2. Still(m) /\ Still(m + 1) /\ frames'[m].at = frames[m].at
        BY <1>17, <3>2, <4>1
      <4> QED
        BY <1>1, <1>2, <3>2, <4>2, StillRepeats
    <3> QED
      BY <3>1, <3>2
  <2>2. \A m \in 1 .. n + 1 : m # n + 1 => m \in 1 .. n
    BY <1>11
  <2> QED
    BY <1>15, <2>1, <2>2 DEF IRepeats
<1>23. IBehind'
  <2>1. ASSUME NEW j \in 2 .. n + 1, NEW k \in 2 .. n + 1, j < k, Same(j, k)'
        PROVE  /\ frames'[k].at <= frames'[j].at
               /\ k = n + 1 => frames'[k].at < frames'[j].at
               /\ k # n + 1 /\ frames'[k].at = frames'[j].at => Same(j + 1, k + 1)'
    <3>1. CASE k = n + 1
      <4>1. j \in 1 .. n
        BY <1>11, <2>1, <3>1
      <4>2. frames'[j].at >= 2 /\ frames'[k].at = 1 /\ (frames[j].at \in 1 .. Len(Fn(frames[j].fn).calls) + 1)'
        BY <1>16, <1>17, <3>1, <4>1
      <4>3. frames'[j].at \in Int
        BY <4>2
      <4> QED
        BY <3>1, <4>2, <4>3
    <3>2. CASE k # n + 1
      <4>1. j \in 2 .. n /\ k \in 2 .. n /\ j # n
        BY <1>11, <2>1, <3>2
      <4>2. /\ Same(j, k) /\ frames'[j].at = frames[j].at
            /\ frames'[k].at <= frames'[j].at
            /\ k # n => (frames'[k].at = frames'[j].at => Same(j + 1, k + 1)')
            /\ k = n => frames'[k].at = Frame.at + 1
        BY <1>1, <1>2, <1>3, <1>15, <2>1, <4>1, BehindGoesOn
      <4>3. ASSUME k = n, frames'[k].at = frames'[j].at
            PROVE  Same(j + 1, k + 1)'
        <5>1. Same(j, n) /\ frames[j].at = Frame.at + 1
          BY <4>2, <4>3
        <5>2. ThisCall.callee = frames[j + 1].fn /\ Asked = Made(j + 1)
          BY <1>1, <4>1, <5>1, RepeatsHere
        <5>3. j + 1 \in 1 .. n /\ j + 1 # 1
          BY <1>11, <4>1
        <5>4. Still(j + 1)
          BY <1>17, <5>3
        <5>5. Made(j + 1)' = Made(j + 1) /\ frames'[j + 1].fn = frames[j + 1].fn
          BY <1>1, <1>2, <5>3, <5>4, StillMade DEF Still
        <5>6. frames'[j + 1].fn = f /\ Made(j + 1)' = asked /\ frames'[k + 1].fn = f /\ Made(k + 1)' = asked
          BY <1>5, <1>7, <1>16, <1>18, <4>3, <5>2, <5>5
        <5> QED
          BY <5>6 DEF Same
      <4> QED
        BY <3>2, <4>2, <4>3
    <3> QED
      BY <3>1, <3>2
  <2> QED
    BY <1>15, <2>1 DEF IBehind
<1> QED
  BY <1>2, <1>19, <1>20, <1>21, <1>22, <1>23 DEF Inv

LEMMA PushStep ==
    ASSUME Inv, Typed, IsPolymorphic(ThisCall.callee), Found = 0, MatchesAll(ThisCall, Asked), N < MaxDepth,
           NEW bound \in Scopes(ThisCall, Asked),
           program' = program, declared' = declared, status' = status, instances' = instances,
           known' = Arguments.known, fnTypes' = AskedType.types,
           frames' = Append([frames EXCEPT ![Len(frames)].at = @ + 1],
                            [fn |-> ThisCall.callee, type |-> AskedType.address, at |-> 1, bound |-> bound])
    PROVE  Inv'
<1>0. PICK n : n = N
  OBVIOUS
<1>1. /\ ITypes /\ IDeclared /\ IUnique /\ IFrames /\ IInstances /\ INoInstance /\ IRepeats /\ IBehind
      /\ TypesCall /\ n = N
  BY <1>0 DEF Inv, Typed
<1>2. Keeps /\ ITypes' /\ IDeclared' /\ IUnique'
  BY <1>1, CallKeeps
<1>3. PICK old : old = [frames EXCEPT ![Len(frames)].at = @ + 1]
  OBVIOUS
<1>5. PICK f : f = ThisCall.callee
  OBVIOUS
<1>6. PICK address : address = AskedType.address
  OBVIOUS
<1>9. PICK body : body = [fn |-> f, type |-> address, at |-> 1, bound |-> bound]
  OBVIOUS
<1>10. old \in Seq(Bodies) /\ Len(old) = N
  BY <1>1, <1>3, GoesOn DEF Bodies
<1>11. /\ n = N /\ n \in Nat /\ n \in 1 .. n /\ Frame = frames[n] /\ f \in DOMAIN program.fns /\ f \in DOMAIN declared
       /\ f \in Nat
  <2>1. n \in Nat /\ n \in 1 .. n /\ Frame = frames[n] /\ f \in DOMAIN program.fns /\ f \in DOMAIN declared
    BY <1>1, <1>5, TopCall
  <2> QED
    BY <1>1, <2>1, FunctionFacts DEF ITypes
<1>12. MadeFor(f, address, bound)' /\ address \in Nat
  BY <1>1, <1>2, <1>5, <1>6, MadeNew, AskedTypeFacts
<1>13. body \in Bodies
  <2>1. bound \in [Generics -> Types]
    BY <1>1, BoundInTypes
  <2> QED
    BY <1>9, <1>11, <1>12, <2>1 DEF Bodies
<1>14. frames' = Append(old, body)
  BY <1>3, <1>5, <1>6, <1>9
<1>15. /\ frames' \in Seq(Bodies) /\ N' = n + 1 /\ frames'[n + 1] = body
       /\ \A m \in 1 .. n : frames'[m] = old[m]
  <2>2. old \in Seq(Bodies) /\ Len(old) = n /\ body \in Bodies
    BY <1>10, <1>11, <1>13
  <2>3. PICK long : long = Append(old, body)
    OBVIOUS
  <2>4. /\ long \in Seq(Bodies) /\ Len(long) = n + 1 /\ long[n + 1] = body
        /\ \A m \in 1 .. n : long[m] = old[m]
    BY <1>11, <2>2, <2>3
  <2>5. N' = Len(long)
    BY <1>14, <2>3 DEF N
  <2> QED
    BY <1>14, <2>3, <2>4, <2>5
<1>16. /\ frames'[n + 1].fn = f /\ frames'[n + 1].type = address /\ frames'[n + 1].at = 1 /\ frames'[n + 1].bound = bound
  <2>1. body.fn = f /\ body.type = address /\ body.at = 1 /\ body.bound = bound
    BY <1>9
  <2>2. frames'[n + 1] = body
    BY <1>15
  <2> QED
    BY <2>1, <2>2
<1> QED
  <2>1. N' = n + 1 /\ frames' \in Seq(Bodies) /\ \A m \in 1 .. n : frames'[m] = old[m]
    BY <1>15
  <2>2. Pushed(n, f, address, bound, old)
    BY <1>0, <1>3, <1>5, <1>6, <1>16, <2>1 DEF Pushed
  <2> QED
    BY <1>1, <1>2, <2>2, PushedStep
-----------------------------------------------------------------------------
\* What is declared, the types there are and the program stay as they are.
LEMMA NothingDeclared ==
    ASSUME ITypes, IDeclared, IUnique, UNCHANGED <<program, known, fnTypes, declared>>,
           status' \in {"typing", "refused", "undefined", "overflow", "done"}
    PROVE  Keeps /\ ITypes' /\ IDeclared' /\ IUnique'
<1>1. Keeps
  BY EvolvesStays DEF Keeps, ITypes
<1>2. ITypes'
  BY DEF ITypes
<1>3. IDeclared'
  <2>1. \A f \in DOMAIN declared : Declares(f)'
    BY <1>1, KeptDeclares
  <2> QED
    BY <2>1 DEF IDeclared
<1>4. IUnique'
  <2>1. \A a : ChangedInPlace(a)' <=> ChangedInPlace(a)
    BY KeptProgram DEF ChangedInPlace
  <2>2. PICK changed : changed = {a \in DOMAIN fnTypes : ChangedInPlace(a)}
    OBVIOUS
  <2>3. PICK types : types = fnTypes
    OBVIOUS
  <2>4. Unique(types, changed)
    BY <2>2, <2>3 DEF IUnique
  <2>5. Unique(types, changed)'
    BY <2>4, KeptProgram
  <2>6. types = fnTypes' /\ changed = {a \in DOMAIN fnTypes : ChangedInPlace(a)}'
    BY <2>1, <2>2, <2>3
  <2> QED
    BY <2>5, <2>6 DEF IUnique
<1> QED
  BY <1>1, <1>2, <1>3, <1>4

\* Of two bodies for the same types, the upper one is not done.
LEMMA NotDone ==
    ASSUME ITypes, IDeclared, IFrames, IBehind, Frame = frames[N], Frame.at > Len(Fn(Frame.fn).calls), NEW j \in 2 .. N, j < N, N \in 2 .. N
    PROVE  ~Same(j, N)
<1> SUFFICES ASSUME Same(j, N) PROVE FALSE
  OBVIOUS
<1>1. frames[N].at < frames[j].at
  BY DEF IBehind
<1>2. frames[j].fn = frames[N].fn
  BY DEF Same
<1>3. N \in Nat
  BY DEF IFrames, N
<1>4. \A m \in 1 .. N : frames[m].at \in 1 .. Len(Fn(frames[m].fn).calls) + 1
  BY DEF IFrames
<1>5. j \in 1 .. N /\ N \in 1 .. N
  BY <1>3
<1>6. frames[j].at \in 1 .. Len(Fn(frames[j].fn).calls) + 1 /\ frames[N].at \in 1 .. Len(Fn(frames[N].fn).calls) + 1
  BY <1>4, <1>5
<1>7. PICK l : l = Len(Fn(frames[N].fn).calls)
  OBVIOUS
<1>8. frames[N].at > l /\ frames[N].at \in 1 .. l + 1 /\ frames[j].at \in 1 .. l + 1
  BY <1>2, <1>6, <1>7
<1>9. l \in Nat
  <2>1. frames[N].fn \in DOMAIN program.fns
    BY <1>5, SignatureFacts DEF IFrames
  <2>2. Fn(frames[N].fn).calls \in Seq(Invokes)
    BY <2>1, FunctionFacts DEF ITypes
  <2> QED
    BY <1>7, <2>2
<1> QED
  BY <1>1, <1>8, <1>9

Instance == [type : Nat, bound : [Generics -> Types]]

\* The body on top is done, and becomes an instance.
LEMMA ReturnStep ==
    ASSUME Inv, Return
    PROVE  Inv'
<1>1. /\ ITypes /\ IDeclared /\ IUnique /\ IFrames /\ IInstances /\ INoInstance /\ IRepeats /\ IBehind
  BY DEF Inv
<1>2. Keeps /\ ITypes' /\ IDeclared' /\ IUnique'
  BY <1>1, NothingDeclared DEF Return
<1>3. PICK n : n = N
  OBVIOUS
<1>4. n \in Nat /\ n \in 1 .. n /\ Frame = frames[n] /\ frames \in Seq(Bodies)
  BY <1>1, <1>3 DEF Return, IFrames, N, Frame, Last, Bodies
<1>5. frames' \in Seq(Bodies) /\ N' = n - 1 /\ \A m \in 1 .. n - 1 : frames'[m] = frames[m]
  <2>1. frames' = SubSeq(frames, 1, n - 1) /\ N' = Len(frames')
    BY <1>3 DEF Return, Front, N
  <2>2. PICK rest : rest = SubSeq(frames, 1, n - 1)
    OBVIOUS
  <2>3. rest \in Seq(Bodies) /\ Len(rest) = n - 1 /\ \A m \in 1 .. n - 1 : rest[m] = frames[m]
    <3>1. n = Len(frames)
      BY <1>3 DEF N
    <3> QED
      BY <1>4, <2>2, <3>1
  <2> QED
    BY <2>1, <2>2, <2>3
<1>6. PICK f : f = Frame.fn
  OBVIOUS
<1>7. PICK t : t = Frame.type
  OBVIOUS
<1>8. PICK b : b = Frame.bound
  OBVIOUS
<1>9. f \in DOMAIN declared /\ f \in DOMAIN instances /\ t \in Nat /\ b \in [Generics -> Types]
  <2>1. f \in DOMAIN declared
    BY <1>1, <1>3, <1>4, <1>6 DEF IFrames
  <2>2. frames[n] \in Bodies
    BY <1>3, <1>4 DEF N
  <2>3. f \in DOMAIN instances
    BY <1>1, <2>1, SignatureFacts DEF IInstances
  <2> QED
    BY <1>4, <1>7, <1>8, <2>1, <2>2, <2>3 DEF Bodies
<1>10. \A m \in 1 .. n - 1 : m \in 1 .. n /\ m # n /\ Still(m) /\ frames'[m].at = frames[m].at /\ Fn(frames[m].fn)' = Fn(frames[m].fn)
  <2> TAKE m \in 1 .. n - 1
  <2>1. frames'[m] = frames[m] /\ m \in 1 .. n /\ m # n
    BY <1>4, <1>5
  <2>2. Still(m)
    BY <2>1 DEF Still
  <2>3. Fn(frames[m].fn)' = Fn(frames[m].fn)
    BY <1>1, <1>2, <1>3, <2>1, <2>2, StillMade
  <2> QED
    BY <2>1, <2>2, <2>3
<1>11. \A m \in 2 .. n - 1 : Made(m)' = Made(m) /\ frames'[m].fn = frames[m].fn /\ frames'[m].type = frames[m].type
  BY <1>5 DEF Return, Made
<1>12. \A j, k \in 2 .. n - 1 : Same(j, k)' <=> Same(j, k)
  <2> TAKE j, k \in 2 .. n - 1
  <2>1. Same(j, k)' <=> (frames'[j].fn = frames'[k].fn /\ Made(j)' = Made(k)')
    BY DEF Same
  <2> QED
    BY <1>11, <2>1 DEF Same
<1>13. IFrames'
  <2>1. N' <= MaxDepth
    BY <1>1, <1>3, <1>4, <1>5, WrapAssumption DEF IFrames
  <2>2. ASSUME NEW m \in 1 .. n - 1
        PROVE  /\ frames'[m].fn \in DOMAIN declared'
               /\ (frames[m].at \in 1 .. Len(Fn(frames[m].fn).calls) + 1)'
               /\ m = 1 => (frames[m].type = 0 /\ ~IsPolymorphic(frames[m].fn))'
               /\ m # 1 => MadeFor(frames[m].fn, frames[m].type, frames[m].bound)'
               /\ m # n - 1 => frames'[m].at >= 2 /\ frames'[m + 1].fn = (Pending(m)').callee
    <3>1. m \in 1 .. n /\ m # n /\ Still(m) /\ frames'[m].at = frames[m].at /\ Fn(frames[m].fn)' = Fn(frames[m].fn)
      BY <1>10
    <3>2. /\ frames'[m].fn \in DOMAIN declared'
          /\ m = 1 => (frames[m].type = 0 /\ ~IsPolymorphic(frames[m].fn))'
      BY <1>1, <1>2, <1>3, <3>1, StillMade
    <3>3. m # 1 => MadeFor(frames[m].fn, frames[m].type, frames[m].bound)'
      <4>1. PICK g : g = frames[m].fn
        OBVIOUS
      <4>2. PICK u : u = frames[m].type
        OBVIOUS
      <4>3. PICK c : c = frames[m].bound
        OBVIOUS
      <4>4. m # 1 => MadeFor(g, u, c)
        BY <1>1, <1>3, <3>1, <4>1, <4>2, <4>3 DEF IFrames
      <4>5. m # 1 => MadeFor(g, u, c)'
        BY <1>1, <1>2, <4>4, KeptMade
      <4>6. frames'[m].fn = g /\ frames'[m].type = u /\ frames'[m].bound = c
        BY <3>1, <4>1, <4>2, <4>3 DEF Still
      <4> QED
        BY <4>5, <4>6
    <3>4. /\ frames[m].at \in 1 .. Len(Fn(frames[m].fn).calls) + 1
          /\ frames[m].at >= 2 /\ frames[m + 1].fn = Pending(m).callee
      BY <1>1, <1>3, <3>1 DEF IFrames
    <3>5. (frames[m].at \in 1 .. Len(Fn(frames[m].fn).calls) + 1)'
      BY <3>1, <3>4
    <3>6. Pending(m)' = Pending(m)
      BY <3>1 DEF Pending
    <3>7. m # n - 1 => frames'[m + 1].fn = frames[m + 1].fn
      BY <1>4, <1>5, SMTT(40)
    <3> QED
      BY <3>1, <3>2, <3>3, <3>4, <3>5, <3>6, <3>7
  <2> QED
    BY <1>5, <2>1, <2>2 DEF IFrames, Bodies
<1>14. t # 0 => n # 1 /\ MadeFor(f, t, b)
  BY <1>1, <1>3, <1>4, <1>6, <1>7, <1>8 DEF IFrames
<1>15. t = 0 => instances' = instances
  BY <1>7 DEF Return
<1>16. PICK new : new = [type |-> t, bound |-> b]
  OBVIOUS
<1>17. t # 0 => /\ DOMAIN instances' = DOMAIN instances /\ instances'[f] = Append(instances[f], new)
                /\ \A g \in DOMAIN instances : g # f => instances'[g] = instances[g]
  BY <1>6, <1>7, <1>8, <1>9, <1>16 DEF Return
<1>18. PICK l : l = Len(instances[f])
  OBVIOUS
<1>19. instances[f] \in Seq(Instance) /\ l \in Nat /\ DOMAIN instances[f] = 1 .. l
  <2>1. instances[f] \in Seq(Instance)
    BY <1>1, <1>9 DEF IInstances, Instance
  <2> QED
    BY <1>18, <2>1
<1>20. t # 0 => /\ instances'[f] \in Seq(Instance)
                /\ DOMAIN instances'[f] = 1 .. l + 1 /\ instances'[f][l + 1] = new
                /\ \A i \in 1 .. l : instances'[f][i] = instances[f][i]
  <2>1. new \in Instance
    BY <1>9, <1>16 DEF Instance
  <2>2. PICK long : long = Append(instances[f], new)
    OBVIOUS
  <2>3. long \in Seq(Instance) /\ DOMAIN long = 1 .. l + 1 /\ long[l + 1] = new /\ \A i \in 1 .. l : long[i] = instances[f][i]
    BY <1>18, <1>19, <2>1, <2>2
  <2> QED
    BY <1>17, <2>2, <2>3
<1>21. new.type = t /\ new.bound = b
  BY <1>16
<1>22. t # 0 => \A i \in 1 .. l : instances[f][i].type # t
  <2> SUFFICES ASSUME t # 0, NEW i \in 1 .. l PROVE instances[f][i].type # t
    OBVIOUS
  <2>1. n \in 2 .. n /\ t \in DOMAIN fnTypes /\ t >= t
    BY <1>4, <1>9, <1>14 DEF MadeFor
  <2> QED
    BY <1>1, <1>3, <1>4, <1>6, <1>7, <1>19, <2>1 DEF INoInstance
<1>23. IInstances'
  <2>1. CASE t = 0
    BY <1>1, <1>2, <1>15, <2>1, KeptInstances
  <2>2. CASE t # 0
    <3>1. DOMAIN instances' = DOMAIN program.fns'
      BY <1>1, <1>2, <1>17, <2>2 DEF IInstances, Keeps
    <3>2. ASSUME NEW g \in DOMAIN instances, NEW i \in DOMAIN instances[g]
          PROVE  MadeFor(g, instances[g][i].type, instances[g][i].bound)
      BY <1>1 DEF IInstances
    <3>3. ASSUME NEW g \in DOMAIN instances, NEW i \in DOMAIN instances[g], NEW u, u = instances[g][i].type, NEW c, c = instances[g][i].bound
          PROVE  MadeFor(g, u, c)'
      BY <1>1, <1>2, <3>2, <3>3, KeptMade
    <3>4. MadeFor(f, t, b)'
      BY <1>1, <1>2, <1>14, <2>2, KeptMade
    <3>5. ASSUME NEW g \in DOMAIN instances
          PROVE  /\ instances'[g] \in Seq(Instance)
                 /\ \A i \in DOMAIN instances'[g] : MadeFor(g, instances[g][i].type, instances[g][i].bound)'
                 /\ \A i, j \in DOMAIN instances'[g] : instances'[g][i].type = instances'[g][j].type => i = j
      <4>1. CASE g # f
        <5>1. instances'[g] = instances[g]
          BY <1>17, <2>2, <4>1
        <5>2. ASSUME NEW i \in DOMAIN instances'[g] PROVE MadeFor(g, instances[g][i].type, instances[g][i].bound)'
          <6>1. PICK u : u = instances[g][i].type
            OBVIOUS
          <6>2. PICK c : c = instances[g][i].bound
            OBVIOUS
          <6>3. MadeFor(g, u, c)'
            BY <3>3, <5>1, <6>1, <6>2
          <6> QED
            BY <5>1, <6>1, <6>2, <6>3
        <5>3. /\ instances[g] \in Seq(Instance)
              /\ \A i, j \in DOMAIN instances[g] : instances[g][i].type = instances[g][j].type => i = j
          BY <1>1 DEF IInstances, Instance
        <5> QED
          BY <5>1, <5>2, <5>3
      <4>2. CASE g = f
        <5>1. ASSUME NEW i \in DOMAIN instances'[g] PROVE MadeFor(g, instances[g][i].type, instances[g][i].bound)'
          <6>1. CASE i = l + 1
            BY <1>20, <1>21, <2>2, <3>4, <4>2, <6>1
          <6>2. CASE i # l + 1
            <7>1. i \in 1 .. l
              BY <1>19, <1>20, <2>2, <4>2, <6>2
            <7>2. PICK u : u = instances[g][i].type
              OBVIOUS
            <7>3. PICK c : c = instances[g][i].bound
              OBVIOUS
            <7>4. MadeFor(g, u, c)'
              BY <1>19, <3>3, <4>2, <7>1, <7>2, <7>3
            <7> QED
              BY <1>20, <2>2, <4>2, <7>1, <7>2, <7>3, <7>4
          <6> QED
            BY <6>1, <6>2
        <5>2. ASSUME NEW i \in DOMAIN instances'[f], NEW j \in DOMAIN instances'[f], instances'[f][i].type = instances'[f][j].type
              PROVE  i = j
          <6>1. \A x, y \in 1 .. l : instances[f][x].type = instances[f][y].type => x = y
            BY <1>1, <1>9, <1>19 DEF IInstances
          <6>2. (i \in 1 .. l \/ i = l + 1) /\ (j \in 1 .. l \/ j = l + 1)
            BY <1>19, <1>20, <2>2, <5>2
          <6> QED
            BY <1>20, <1>21, <1>22, <2>2, <5>2, <6>1, <6>2
        <5> QED
          BY <1>20, <2>2, <4>2, <5>1, <5>2
      <4> QED
        BY <4>1, <4>2
    <3> QED
      BY <1>17, <2>2, <3>1, <3>5 DEF IInstances, Instance
  <2> QED
    BY <2>1, <2>2
<1>24. \A j \in 2 .. n : j < n => ~Same(j, n)
  <2> SUFFICES ASSUME NEW j \in 2 .. n, j < n PROVE ~Same(j, n)
    OBVIOUS
  <2>1. n \in 2 .. n
    BY <1>4
  <2>2. Frame.at > Len(Fn(Frame.fn).calls)
    BY DEF Return
  <2> QED
    BY <1>1, <1>3, <1>4, <2>1, <2>2, NotDone
<1>25. INoInstance'
  <2>1. ASSUME NEW m \in 2 .. n - 1, NEW a \in DOMAIN fnTypes', a >= frames'[m].type, fnTypes'[a] = fnTypes'[frames'[m].type],
               NEW i \in DOMAIN instances'[frames'[m].fn]
        PROVE  instances'[frames'[m].fn][i].type # a
    <3>1. m \in 1 .. n - 1 /\ m \in 2 .. n /\ m < n
      BY <1>4
    <3>2. Still(m) /\ frames'[m].fn = frames[m].fn /\ frames'[m].type = frames[m].type
      BY <1>10, <3>1 DEF Still
    <3>3. a >= frames[m].type /\ fnTypes'[a] = fnTypes'[frames[m].type]
      BY <2>1, <3>2
    <3>4. \A x \in DOMAIN instances[frames[m].fn] : instances[frames[m].fn][x].type # a
      BY <1>1, <1>2, <1>3, <3>1, <3>2, <3>3, StillNoInstance
    <3>5. CASE t = 0 \/ frames[m].fn # f
      <4>1. frames[m].fn \in DOMAIN instances
        <5>1. frames[m].fn \in DOMAIN declared
          BY <1>1, <1>3, <1>10, <3>1 DEF IFrames
        <5> QED
          BY <1>1, <5>1, SignatureFacts DEF IInstances
      <4>2. instances'[frames[m].fn] = instances[frames[m].fn]
        BY <1>15, <1>17, <3>5, <4>1
      <4> QED
        BY <3>2, <3>4, <4>2
    <3>6. CASE t # 0 /\ frames[m].fn = f
      <4>1. i \in 1 .. l \/ i = l + 1
        BY <1>19, <1>20, <3>2, <3>6
      <4>2. CASE i \in 1 .. l
        BY <1>19, <1>20, <3>2, <3>4, <3>6, <4>2
      <4>3. CASE i = l + 1
        <5>1. instances'[frames'[m].fn][i].type = t
          BY <1>20, <1>21, <3>2, <3>6, <4>3
        <5>2. ASSUME t = a PROVE FALSE
          <6>1. fnTypes[t] = fnTypes[frames[m].type]
            BY <3>3, <5>2 DEF Return
          <6>2. Same(m, n)
            BY <1>4, <1>6, <1>7, <3>6, <6>1 DEF Same, Made
          <6> QED
            BY <1>24, <3>1, <6>2
        <5> QED
          BY <5>1, <5>2
      <4> QED
        BY <4>1, <4>2, <4>3
    <3> QED
      BY <3>5, <3>6
  <2> QED
    BY <1>5, <2>1 DEF INoInstance
<1>26. IRepeats'
  <2>1. ASSUME NEW m \in 1 .. n - 1, m # n - 1
        PROVE  Repeats(Pending(m), frames[m].bound, Signature(Pending(m).callee), Made(m + 1))'
    <3>1. m + 1 \in 1 .. n - 1
      BY <1>4, <2>1
    <3>2. Still(m) /\ Still(m + 1) /\ frames'[m].at = frames[m].at /\ m \in 1 .. n /\ m # n
      BY <1>10, <2>1, <3>1
    <3> QED
      BY <1>1, <1>2, <1>3, <3>2, StillRepeats
  <2> QED
    BY <1>5, <2>1 DEF IRepeats
<1>27. IBehind'
  <2>1. ASSUME NEW j \in 2 .. n - 1, NEW k \in 2 .. n - 1, j < k, Same(j, k)'
        PROVE  /\ frames'[k].at <= frames'[j].at
               /\ k = n - 1 => frames'[k].at < frames'[j].at
               /\ k # n - 1 /\ frames'[k].at = frames'[j].at => Same(j + 1, k + 1)'
    <3>1. j \in 1 .. n - 1 /\ k \in 1 .. n - 1 /\ j \in 2 .. n /\ k \in 2 .. n /\ k # n
      BY <1>4
    <3>2. frames'[j].at = frames[j].at /\ frames'[k].at = frames[k].at
      BY <1>10, <3>1
    <3>3. Same(j, k)
      BY <1>12, <2>1
    <3>4. frames[k].at <= frames[j].at /\ (frames[k].at = frames[j].at => Same(j + 1, k + 1))
      BY <1>1, <1>3, <2>1, <3>1, <3>3 DEF IBehind
    <3>5. ASSUME k = n - 1 PROVE frames[k].at # frames[j].at
      <4>1. j + 1 \in 2 .. n /\ j + 1 < n /\ k + 1 = n
        BY <1>4, <2>1, <3>5
      <4>2. ~Same(j + 1, k + 1)
        BY <1>24, <4>1
      <4> QED
        BY <3>4, <4>2
    <3>6. k # n - 1 => (Same(j + 1, k + 1)' <=> Same(j + 1, k + 1))
      <4>1. k # n - 1 => j + 1 \in 2 .. n - 1 /\ k + 1 \in 2 .. n - 1
        BY <1>4, <2>1
      <4> QED
        BY <1>12, <4>1
    <3>7. frames[j].at \in Int /\ frames[k].at \in Int
      <4>1. \A m \in 1 .. n : frames[m].at \in 1 .. Len(Fn(frames[m].fn).calls) + 1
        BY <1>1, <1>3 DEF IFrames
      <4>2. frames[j].at \in 1 .. Len(Fn(frames[j].fn).calls) + 1
        BY <1>10, <3>1, <4>1
      <4>3. frames[k].at \in 1 .. Len(Fn(frames[k].fn).calls) + 1
        BY <1>10, <3>1, <4>1
      <4> QED
        BY <4>2, <4>3
    <3> QED
      BY <3>2, <3>4, <3>5, <3>6, <3>7
  <2> QED
    BY <1>5, <2>1 DEF IBehind
<1> QED
  BY <1>2, <1>13, <1>23, <1>25, <1>26, <1>27 DEF Inv
-----------------------------------------------------------------------------
\* What the parameters are declared with.
DeclaredNames(f) ==
    [p \in DOMAIN Fn(f).params |-> IF IsGeneric(Fn(f).params[p]) THEN Nothing ELSE Fn(f).params[p].type]

\* The types of the parameters: none where they are generic, and found again later.
LEMMA DeclaredTypes ==
    ASSUME ITypes, NEW f \in DOMAIN program.fns
    PROVE  LET r == TypesOf(known, DeclaredNames(f), Unbound)
           IN /\ KnownTypes(r.known) /\ known \subseteq r.known
              /\ r.types \in Seq(Types) /\ Len(r.types) = Len(Fn(f).params)
              /\ DOMAIN r.types = DOMAIN Fn(f).params
              /\ \A p \in DOMAIN Fn(f).params :
                    IF IsGeneric(Fn(f).params[p]) THEN r.types[p] = Nothing
                    ELSE /\ Proper(r.types[p]) /\ r.types[p] # Nothing
                         /\ ll_typer_get_type_from_typename(r.known, Fn(f).params[p].type, Unbound).types = r.known
                         /\ ll_typer_get_type_from_typename(r.known, Fn(f).params[p].type, Unbound).type = r.types[p]
<1>1. PICK params : params = Fn(f).params
  OBVIOUS
<1>2. /\ params \in Seq(Parameters)
      /\ \A p \in DOMAIN params : params[p].type \in Names /\ params[p].type \in Types
  BY <1>1, FunctionFacts DEF ITypes
<1>3. PICK names : names = DeclaredNames(f)
  OBVIOUS
<1>4. /\ DOMAIN names = DOMAIN params /\ names = [p \in DOMAIN params |-> names[p]]
      /\ \A p \in DOMAIN params :
            IF params[p].type.base \in Generics THEN names[p] = Nothing ELSE names[p] = params[p].type
  BY <1>1, <1>3 DEF DeclaredNames, IsGeneric
<1>5. names \in Seq(Types) /\ Len(names) = Len(params)
  <2>1. \A p \in DOMAIN params : names[p] \in Types
    BY <1>2, <1>4, NothingFacts
  <2>2. DOMAIN params = 1 .. Len(params) /\ Len(params) \in Nat
    BY <1>2
  <2> QED
    BY <1>4, <2>1, <2>2
<1>6. Sane(Nothing, Unbound) /\ BaseOf(Nothing, Unbound) = Nothing /\ Nothing.wraps = <<>>
  <2>1. Nothing \in Types
    BY NothingFacts
  <2>2. Nothing.base = "NULL" /\ Nothing.wraps = <<>> /\ Nothing.base \notin Generics
    BY WrapAssumption DEF Nothing
  <2>3. BaseOf(Nothing, Unbound) = Nothing
    BY <2>2 DEF BaseOf, Nothing
  <2> QED
    BY <2>1, <2>2, <2>3 DEF Sane
<1>7. \A p \in DOMAIN params :
          /\ Sane(names[p], Unbound)
          /\ params[p].type.base \in Generics => BaseOf(names[p], Unbound) = Nothing /\ names[p].wraps = <<>>
          /\ params[p].type.base \notin Generics => BaseOf(names[p], Unbound).base # "NULL"
  BY <1>2, <1>4, <1>6, PlainName
<1>8. PICK r : r = TypesOf(known, names, Unbound)
  OBVIOUS
<1>9. /\ KnownTypes(r.known) /\ known \subseteq r.known
      /\ DOMAIN r.types = DOMAIN names /\ r.types \in Seq(Types) /\ Len(r.types) = Len(names)
      /\ \A k \in DOMAIN names :
            /\ BaseOf(names[k], Unbound).base # "NULL" => r.types[k].base # "NULL"
            /\ names[k].wraps = <<>> => r.types[k] = BaseOf(names[k], Unbound)
            /\ \A q : q = ll_typer_get_type_from_typename(r.known, names[k], Unbound)
                     => q.types = r.known /\ q.type = r.types[k]
  <2>1. KnownTypes(known) /\ \A k \in DOMAIN names : Sane(names[k], Unbound)
    BY <1>4, <1>7 DEF ITypes
  <2>2. /\ KnownTypes(r.known) /\ known \subseteq r.known
        /\ DOMAIN r.types = DOMAIN names /\ r.types \in Seq(Types) /\ Len(r.types) = Len(names)
    BY <1>5, <1>8, <2>1, TypesOfFacts
  <2>3. \A k \in DOMAIN names :
            /\ BaseOf(names[k], Unbound).base # "NULL" => r.types[k].base # "NULL"
            /\ names[k].wraps = <<>> => r.types[k] = BaseOf(names[k], Unbound)
    BY <1>5, <1>8, <2>1, TypesOfFacts
  <2>4. ASSUME NEW k \in DOMAIN names
        PROVE  /\ ll_typer_get_type_from_typename(r.known, names[k], Unbound).types = r.known
               /\ ll_typer_get_type_from_typename(r.known, names[k], Unbound).type = r.types[k]
    <3>1. Like(BaseOf(names[k], Unbound), BaseOf(names[k], Unbound))
      BY DEF Like
    <3> QED
      BY <1>5, <1>8, <2>1, <2>2, <3>1, TypesOfFacts
  <2> QED
    BY <2>2, <2>3, <2>4
<1>10. ASSUME NEW p \in DOMAIN params
       PROVE  IF params[p].type.base \in Generics THEN r.types[p] = Nothing
              ELSE /\ Proper(r.types[p]) /\ r.types[p] # Nothing
                   /\ ll_typer_get_type_from_typename(r.known, params[p].type, Unbound).types = r.known
                   /\ ll_typer_get_type_from_typename(r.known, params[p].type, Unbound).type = r.types[p]
  <2>1. CASE params[p].type.base \in Generics
    BY <1>4, <1>7, <1>9, <2>1
  <2>2. CASE params[p].type.base \notin Generics
    <3>1. names[p] = params[p].type /\ p \in DOMAIN names
      BY <1>4, <2>2
    <3>2. r.types[p] \in Types /\ r.types[p].base # "NULL"
      BY <1>7, <1>9, <2>2, <3>1
    <3>3. Proper(r.types[p]) /\ r.types[p] # Nothing
      BY <3>2, NothingFacts DEF Proper
    <3>5. PICK q : q = ll_typer_get_type_from_typename(r.known, names[p], Unbound)
      OBVIOUS
    <3>6. q.types = r.known /\ q.type = r.types[p]
      BY <1>9, <3>1, <3>5
    <3> QED
      BY <2>2, <3>1, <3>3, <3>5, <3>6
  <2> QED
    BY <2>1, <2>2
<1> QED
  BY <1>1, <1>3, <1>4, <1>5, <1>8, <1>9, <1>10 DEF IsGeneric

\* A function is declared.
LEMMA DeclareStep ==
    ASSUME Inv, Declare
    PROVE  Inv'
<1>1. /\ ITypes /\ IDeclared /\ IUnique /\ IFrames /\ IInstances /\ INoInstance /\ IRepeats /\ IBehind
  BY DEF Inv
<1>2. PICK d : d = Len(declared)
  OBVIOUS
<1>3. PICK f : f = Len(declared) + 1
  OBVIOUS
<1>4. PICK r : r = TypesOf(known, DeclaredNames(f), Unbound)
  OBVIOUS
<1>5. PICK t : t = ll_typer_get_fn_type(fnTypes, r.types)
  OBVIOUS
<1>6. /\ known' = r.known /\ fnTypes' = t.types /\ declared' = Append(declared, t.address)
      /\ frames' = IF IsPolymorphic(f) THEN <<>> ELSE <<[fn |-> f, type |-> 0, at |-> 1, bound |-> Unbound]>>
      /\ UNCHANGED <<program, instances, calls, status>>
      /\ Len(declared) < Len(program.fns)
  BY <1>3, <1>4, <1>5, Zenon DEF Declare, DeclaredNames
<1>7. declared \in Seq(Nat) /\ d \in Nat /\ DOMAIN declared = 1 .. d /\ f = d + 1
  BY <1>1, <1>2, <1>3 DEF IDeclared
<1>8. f \in DOMAIN program.fns /\ Len(program.fns) \in Nat
  <2>1. program.fns \in Seq(Functions)
    BY <1>1, ProgramsAssumption DEF ITypes
  <2> QED
    BY <1>2, <1>6, <1>7, <2>1
<1>9. PICK params : params = Fn(f).params
  OBVIOUS
<1>10. /\ KnownTypes(r.known) /\ known \subseteq r.known
       /\ r.types \in Seq(Types) /\ Len(r.types) = Len(params)
       /\ DOMAIN r.types = DOMAIN params
       /\ \A p \in DOMAIN params :
             IF IsGeneric(params[p]) THEN r.types[p] = Nothing
             ELSE /\ Proper(r.types[p]) /\ r.types[p] # Nothing
                  /\ ll_typer_get_type_from_typename(r.known, params[p].type, Unbound).types = r.known
                  /\ ll_typer_get_type_from_typename(r.known, params[p].type, Unbound).type = r.types[p]
  BY <1>1, <1>4, <1>8, <1>9, DeclaredTypes
<1>11. PICK record : record = [bucket |-> Bucket(r.types), parameters |-> r.types]
  OBVIOUS
<1>12. /\ t.types \in Seq(FnTypes) /\ t.address \in DOMAIN t.types /\ t.types[t.address] = record
       /\ \A b \in DOMAIN fnTypes : b \in DOMAIN t.types /\ t.types[b] = fnTypes[b]
       /\ \A b \in DOMAIN t.types : b \in DOMAIN fnTypes \/ b = t.address
  <2>1. fnTypes \in Seq(FnTypes)
    BY <1>1 DEF ITypes
  <2> QED
    BY <1>5, <1>10, <1>11, <2>1, FnTypeFacts
<1>13. t.address \in Nat
  BY <1>12
<1>14. declared' \in Seq(Nat) /\ Len(declared') = f /\ DOMAIN declared' = 1 .. f /\ declared'[f] = t.address
       /\ \A g \in 1 .. d : declared'[g] = declared[g]
  <2>1. PICK new : new = Append(declared, t.address)
    OBVIOUS
  <2>2. new \in Seq(Nat) /\ Len(new) = f /\ DOMAIN new = 1 .. f /\ new[f] = t.address /\ \A g \in 1 .. d : new[g] = declared[g]
    BY <1>2, <1>7, <1>13, <2>1
  <2> QED
    BY <1>6, <2>1, <2>2
<1>15. Keeps
  <2>1. \A g \in DOMAIN declared : g \in DOMAIN declared' /\ declared'[g] = declared[g]
    BY <1>7, <1>14
  <2>2. \A a \in DOMAIN fnTypes : a \in DOMAIN fnTypes' /\ fnTypes'[a] = fnTypes[a]
    BY <1>6, <1>12
  <2> QED
    BY <1>6, <1>10, <2>1, <2>2, EvolvesStays DEF Keeps
<1>16. fnTypes'[t.address] = record /\ record.parameters = r.types
  BY <1>6, <1>11, <1>12
<1>17. ITypes'
  <2>1. ASSUME NEW a \in DOMAIN fnTypes', NEW p \in DOMAIN fnTypes'[a].parameters
        PROVE  fnTypes'[a].parameters[p] = Nothing \/ Proper(fnTypes'[a].parameters[p])
    <3>1. CASE a \in DOMAIN fnTypes
      BY <1>1, <1>6, <1>12, <2>1, <3>1 DEF ITypes
    <3>2. CASE a = t.address
      BY <1>10, <1>16, <2>1, <3>2
    <3> QED
      BY <1>6, <1>12, <3>1, <3>2
  <2> QED
    BY <1>1, <1>6, <1>10, <1>12, <2>1 DEF ITypes
<1>18. Fn(f)'.params = params /\ IsPolymorphic(f)' = IsPolymorphic(f) /\ Fn(f)' = Fn(f)
  BY <1>6, <1>9, KeptProgram
<1>19. Declares(f)'
  <2>1. Signature(f)' = r.types
    BY <1>14, <1>16 DEF Signature
  <2>2. declared'[f] \in DOMAIN fnTypes'
    BY <1>6, <1>12, <1>14
  <2>3. \A p \in DOMAIN params :
          IF IsGeneric(params[p])
          THEN r.types[p] = Nothing
          ELSE LET found == ll_typer_get_type_from_typename(known', params[p].type, Unbound)
               IN r.types[p] # Nothing /\ found.types = known' /\ found.type = r.types[p]
    BY <1>6, <1>10
  <2> QED
    BY <1>10, <1>18, <2>1, <2>2, <2>3 DEF Declares
<1>20. IDeclared'
  <2>1. \A g \in DOMAIN declared : Declares(g)'
    BY <1>1, <1>15, KeptDeclares
  <2>2. \A g \in DOMAIN declared' : g \in DOMAIN declared \/ g = f
    BY <1>7, <1>14
  <2>3. Len(declared') <= Len(program'.fns)
    BY <1>2, <1>6, <1>7, <1>8, <1>14
  <2> QED
    BY <1>14, <1>19, <2>1, <2>2, <2>3 DEF IDeclared
<1>21. IUnique'
  <2>1. PICK changed : changed = {a \in DOMAIN fnTypes : ChangedInPlace(a)}
    OBVIOUS
  <2>2. PICK more : more = {a \in DOMAIN fnTypes : ChangedInPlace(a)}'
    OBVIOUS
  <2>3. changed \subseteq more
    <3>1. SUFFICES ASSUME NEW a \in changed PROVE a \in DOMAIN fnTypes' /\ ChangedInPlace(a)'
      BY <2>2
    <3>2. a \in DOMAIN fnTypes /\ ChangedInPlace(a)
      BY <2>1
    <3>3. PICK g \in DOMAIN declared : declared[g] = a /\ IsPolymorphic(g)
      BY <3>2 DEF ChangedInPlace
    <3>4. g \in DOMAIN declared' /\ declared'[g] = a /\ IsPolymorphic(g)'
      BY <1>6, <1>7, <1>14, <3>3, KeptProgram
    <3> QED
      BY <1>6, <1>12, <3>2, <3>4 DEF ChangedInPlace
  <2>4. PICK types : types = fnTypes'
    OBVIOUS
  <2>5. Unique(types, changed)
    BY <1>1, <1>5, <1>6, <1>10, <2>1, <2>4, UniqueGet DEF IUnique, ITypes
  <2>6. Unique(types, more)
    BY <2>3, <2>5 DEF Unique
  <2>7. Unique(types, more)'
    BY <1>6, <2>6, KeptProgram
  <2> QED
    BY <2>2, <2>4, <2>7 DEF IUnique
<1>22. IInstances'
  BY <1>1, <1>6, <1>15, KeptInstances
<1>23. Unbound \in [Generics -> Types]
  BY NothingFacts DEF Unbound
<1>24. PICK body : body = [fn |-> f, type |-> 0, at |-> 1, bound |-> Unbound]
  OBVIOUS
<1>25. /\ body \in Bodies /\ body.fn = f /\ body.type = 0 /\ body.at = 1
  BY <1>7, <1>23, <1>24 DEF Bodies
<1>26. N' \in {0, 1} /\ frames' \in Seq(Bodies) /\ (N' = 1 => frames'[1] = body /\ ~IsPolymorphic(f))
  <2>1. PICK one : one = <<body>>
    OBVIOUS
  <2>2. one \in Seq(Bodies) /\ Len(one) = 1 /\ one[1] = body
    BY <1>25, <2>1
  <2>3. CASE IsPolymorphic(f)
    <3>1. frames' = <<>>
      BY <1>6, <2>3
    <3>2. N' = 0
      BY <3>1 DEF N
    <3> QED
      BY <3>1, <3>2
  <2>4. CASE ~IsPolymorphic(f)
    <3>1. frames' = one
      BY <1>6, <1>24, <2>1, <2>4
    <3>2. N' = 1
      BY <2>2, <3>1 DEF N
    <3> QED
      BY <2>2, <2>4, <3>1, <3>2
  <2> QED
    BY <2>3, <2>4
<1>27. IFrames'
  <2>1. ASSUME NEW m \in 1 .. N'
        PROVE  /\ m = 1 /\ m = N' /\ frames'[m].fn \in DOMAIN declared'
               /\ (frames[m].at \in 1 .. Len(Fn(frames[m].fn).calls) + 1)'
               /\ (frames[m].type = 0 /\ ~IsPolymorphic(frames[m].fn))'
    <3>1. m = 1 /\ N' = 1 /\ frames'[m] = body
      BY <1>26, <2>1
    <3>2. frames'[m].fn = f /\ frames'[m].type = 0 /\ frames'[m].at = 1
      BY <1>25, <3>1
    <3>3. Fn(frames[m].fn)' = Fn(f) /\ IsPolymorphic(frames[m].fn)' = IsPolymorphic(f)
      BY <1>6, <3>2 DEF Fn, IsPolymorphic
    <3>4. Len(Fn(f).calls) \in Nat
      BY <1>1, <1>8, FunctionFacts DEF ITypes
    <3>5. f \in DOMAIN declared'
      BY <1>7, <1>14
    <3> QED
      BY <1>26, <3>1, <3>2, <3>3, <3>4, <3>5
  <2>2. N' <= MaxDepth
    BY <1>26, WrapAssumption
  <2> QED
    BY <1>26, <2>1, <2>2 DEF IFrames, Bodies
<1>28. INoInstance' /\ IRepeats' /\ IBehind'
  <2>1. \A m \in 2 .. N' : FALSE
    BY <1>26
  <2>2. \A m \in 1 .. N' : m = N'
    BY <1>26
  <2> QED
    BY <2>1, <2>2 DEF INoInstance, IRepeats, IBehind
<1> QED
  BY <1>17, <1>20, <1>21, <1>22, <1>27, <1>28 DEF Inv
-----------------------------------------------------------------------------
\* Nothing but the status changes.
LEMMA StayStep ==
    ASSUME Inv, UNCHANGED <<program, known, fnTypes, declared, instances, frames>>,
           status' \in {"typing", "refused", "undefined", "overflow", "done"}
    PROVE  Inv'
<1>1. /\ ITypes /\ IDeclared /\ IUnique /\ IFrames /\ IInstances /\ INoInstance /\ IRepeats /\ IBehind
  BY DEF Inv
<1>2. Keeps /\ ITypes' /\ IDeclared' /\ IUnique'
  BY <1>1, NothingDeclared
<1>3. N' = N /\ N \in Nat /\ frames' = frames /\ fnTypes' = fnTypes /\ instances' = instances
  BY <1>1 DEF N, IFrames
<1>4. \A m \in 1 .. N : Still(m) /\ frames'[m] = frames[m]
  BY <1>3 DEF Still
<1>5. IFrames'
  <2>1. ASSUME NEW m \in 1 .. N
        PROVE  /\ frames[m].fn \in DOMAIN declared'
               /\ (frames[m].at \in 1 .. Len(Fn(frames[m].fn).calls) + 1)'
               /\ m = 1 => (frames[m].type = 0 /\ ~IsPolymorphic(frames[m].fn))'
               /\ m # 1 => MadeFor(frames[m].fn, frames[m].type, frames[m].bound)'
               /\ m # N => frames[m].at >= 2 /\ frames[m + 1].fn = (Pending(m)').callee
    <3>1. Still(m) /\ Fn(frames[m].fn)' = Fn(frames[m].fn) /\ frames'[m] = frames[m]
      BY <1>1, <1>2, <1>4, StillMade
    <3>2. /\ frames'[m].fn \in DOMAIN declared'
          /\ m = 1 => (frames[m].type = 0 /\ ~IsPolymorphic(frames[m].fn))'
      BY <1>1, <1>2, <3>1, StillMade
    <3>3. m # 1 => MadeFor(frames[m].fn, frames[m].type, frames[m].bound)'
      <4>1. PICK g : g = frames[m].fn
        OBVIOUS
      <4>2. PICK u : u = frames[m].type
        OBVIOUS
      <4>3. PICK c : c = frames[m].bound
        OBVIOUS
      <4>4. m # 1 => MadeFor(g, u, c)
        BY <1>1, <4>1, <4>2, <4>3 DEF IFrames
      <4>5. m # 1 => MadeFor(g, u, c)'
        BY <1>1, <1>2, <4>4, KeptMade
      <4>6. frames'[m].fn = g /\ frames'[m].type = u /\ frames'[m].bound = c
        BY <3>1, <4>1, <4>2, <4>3
      <4> QED
        BY <4>5, <4>6
    <3>4. /\ frames[m].at \in 1 .. Len(Fn(frames[m].fn).calls) + 1
          /\ m # N => frames[m].at >= 2 /\ frames[m + 1].fn = Pending(m).callee
      BY <1>1 DEF IFrames
    <3>5. (frames[m].at \in 1 .. Len(Fn(frames[m].fn).calls) + 1)'
      BY <3>1, <3>4
    <3>6. Pending(m)' = Pending(m)
      BY <3>1 DEF Pending
    <3> QED
      BY <3>1, <3>2, <3>3, <3>4, <3>5, <3>6
  <2>2. frames' \in Seq(Bodies) /\ N' <= MaxDepth
    BY <1>1, <1>3 DEF IFrames, Bodies
  <2> QED
    BY <1>3, <2>1, <2>2 DEF IFrames, Bodies
<1>6. IInstances'
  BY <1>1, <1>2, <1>3, KeptInstances
<1>7. INoInstance'
  BY <1>1, <1>3 DEF INoInstance
<1>8. IRepeats'
  <2>1. ASSUME NEW m \in 1 .. N, m # N
        PROVE  Repeats(Pending(m), frames[m].bound, Signature(Pending(m).callee), Made(m + 1))'
    <3>1. m + 1 \in 1 .. N
      BY <1>3, <2>1
    <3>2. Still(m) /\ Still(m + 1) /\ frames'[m].at = frames[m].at
      BY <1>4, <3>1
    <3> QED
      BY <1>1, <1>2, <2>1, <3>2, StillRepeats
  <2> QED
    BY <1>3, <2>1 DEF IRepeats
<1>9. IBehind'
  BY <1>1, <1>3 DEF IBehind, Same, Made
<1> QED
  BY <1>2, <1>5, <1>6, <1>7, <1>8, <1>9 DEF Inv

LEMMA InitInv ==
    ASSUME Init PROVE Inv
<1>1. N = 0 /\ frames = <<>>
  BY DEF Init, N
<1>2. ITypes
  BY DEF Init, ITypes, KnownTypes
<1>3. IDeclared
  <2>1. program.fns \in Seq(Functions)
    BY ProgramsAssumption DEF Init
  <2> QED
    BY <2>1 DEF Init, IDeclared
<1>4. IUnique
  BY DEF Init, IUnique, Unique
<1>5. IFrames
  BY <1>1, WrapAssumption DEF IFrames
<1>6. IInstances
  BY DEF Init, IInstances
<1>7. INoInstance /\ IRepeats /\ IBehind
  BY <1>1 DEF INoInstance, IRepeats, IBehind
<1> QED
  BY <1>2, <1>3, <1>4, <1>5, <1>6, <1>7 DEF Inv

\* Each step keeps the invariant.
LEMMA NextInv ==
    ASSUME Inv, [Next]_vars PROVE Inv'
<1>1. status \in {"typing", "refused", "undefined", "overflow", "done"}
  BY DEF Inv, ITypes
<1>2. CASE Declare
  BY <1>2, DeclareStep
<1>3. CASE CallFunction
  BY <1>3, AdvanceStep DEF CallFunction
<1>4. CASE CallInstance
  BY <1>4, AdvanceStep DEF CallInstance
<1>5. CASE Instantiate
  <2>1. PICK bound \in Scopes(ThisCall, Asked) :
            frames' = Append([frames EXCEPT ![Len(frames)].at = @ + 1],
                             [fn |-> ThisCall.callee, type |-> AskedType.address, at |-> 1, bound |-> bound])
    BY <1>5 DEF Instantiate
  <2>2. /\ Typed /\ IsPolymorphic(ThisCall.callee) /\ Found = 0 /\ MatchesAll(ThisCall, Asked) /\ N < MaxDepth
        /\ program' = program /\ declared' = declared /\ status' = status /\ instances' = instances
        /\ known' = Arguments.known /\ fnTypes' = AskedType.types
    BY <1>5 DEF Instantiate, Matches, N
  <2> QED
    BY <2>1, <2>2, PushStep
<1>6. CASE Return
  BY <1>6, ReturnStep
<1>7. CASE Refuse
  BY <1>7, StayStep DEF Refuse
<1>8. CASE Undefined
  BY <1>8, StayStep DEF Undefined
<1>9. CASE Overflow
  BY <1>9, StayStep DEF Overflow
<1>10. CASE Generate
  BY <1>10, StayStep DEF Generate
<1>11. CASE UNCHANGED vars
  BY <1>1, <1>11, StayStep DEF vars
<1> QED
  BY <1>2, <1>3, <1>4, <1>5, <1>6, <1>7, <1>8, <1>9, <1>10, <1>11 DEF Next

\* What holds of every body that is typed and every instance (src/typer.c:2155).
THEOREM Invariant == Spec => []Inv
BY InitInv, NextInv, PTL DEF Spec

-----------------------------------------------------------------------------
\* Every instance and every body being typed has a function type that is there, with
\* as many parameters as the function, and a scope for the generics.
THEOREM InstancesTypeOK == Spec => []TypeOK
<1>1. Inv => TypeOK
  <2> SUFFICES ASSUME Inv PROVE TypeOK
    OBVIOUS
  <2>1. ITypes /\ IDeclared /\ IFrames /\ IInstances
    BY DEF Inv
  <2>2. \A t \in known : Outermost(t) \in Arrays
    BY <2>1 DEF ITypes, KnownTypes
  <2>3. \A f \in DOMAIN declared : Len(Signature(f)) = Len(Fn(f).params)
    BY <2>1 DEF IDeclared, Declares
  <2>4. ASSUME NEW f \in DOMAIN instances, NEW instance \in ToSet(instances[f])
        PROVE  /\ instance.type \in DOMAIN fnTypes
               /\ Nothing \notin ToSet(fnTypes[instance.type].parameters)
               /\ Len(fnTypes[instance.type].parameters) = Len(Fn(f).params)
    <3>1. PICK i \in DOMAIN instances[f] : instances[f][i] = instance
      BY DEF ToSet
    <3>2. MadeFor(f, instance.type, instance.bound)
      BY <2>1, <3>1 DEF IInstances
    <3> QED
      BY <2>1, <3>2, MadeFacts, ZenonT(40) DEF ToSet
  <2>5. Len(frames) \in 0 .. MaxDepth
    BY <2>1, WrapAssumption DEF IFrames, N
  <2>6. ASSUME NEW k \in DOMAIN frames
        PROVE  (frames[k].type = 0) <=> (k = 1)
    <3>1. k \in 1 .. N
      BY <2>1 DEF IFrames, N
    <3>2. k = 1 => frames[k].type = 0
      BY <2>1, <3>1 DEF IFrames
    <3>3. k # 1 => frames[k].type \in DOMAIN fnTypes
      BY <2>1, <3>1 DEF IFrames, MadeFor
    <3>4. fnTypes \in Seq(FnTypes)
      BY <2>1 DEF ITypes
    <3> QED
      BY <3>2, <3>3, <3>4
  <2> QED
    BY <2>1, <2>2, <2>3, <2>4, <2>5, <2>6 DEF TypeOK, ITypes
<1> QED
  BY <1>1, Invariant, PTL

\* No function is made twice for the same types, unless a change in place has made
\* two records equal.
THEOREM InstancesOneInstance == Spec => []OneInstance
<1>1. Inv => OneInstance
  <2> SUFFICES ASSUME Inv, NEW f \in DOMAIN instances, NEW i \in DOMAIN instances[f], NEW j \in DOMAIN instances[f],
                      fnTypes[instances[f][i].type].parameters = fnTypes[instances[f][j].type].parameters,
                      ~ChangedInPlace(instances[f][i].type), ~ChangedInPlace(instances[f][j].type)
               PROVE  i = j
    BY DEF OneInstance
  <2>1. ITypes /\ IDeclared /\ IUnique /\ IInstances
    BY DEF Inv
  <2>2. PICK one : one = instances[f][i].type
    OBVIOUS
  <2>3. PICK other : other = instances[f][j].type
    OBVIOUS
  <2>4. one \in DOMAIN fnTypes /\ other \in DOMAIN fnTypes
    BY <2>1, <2>2, <2>3 DEF IInstances, MadeFor
  <2>5. one = other
    BY <2>1, <2>2, <2>3, <2>4 DEF IUnique, Unique
  <2> QED
    BY <2>1, <2>2, <2>3, <2>5 DEF IInstances
<1> QED
  BY <1>1, Invariant, PTL
-----------------------------------------------------------------------------
\* The function at hand has the types that are written.
SignatureAsWritten ==
    \A p \in DOMAIN Params(ThisCall) :
        Signature(ThisCall.callee)[p] =
            IF IsGeneric(Params(ThisCall)[p]) THEN Nothing ELSE Params(ThisCall)[p].type

\* What is given to a parameter: the type itself, or its type.
Given(call, types, i, p) ==
    IF call.args[i].passes = "type" /\ Params(call)[p].named THEN TypeOfTypes ELSE types[i]

\* The pointer that a method call gives its function is not for other arguments.
LEMMA AfterAsWritten ==
    ASSUME ITypes, IDeclared, IFrames, TypesCall, ~GivenTwice(ThisCall),
           NEW i \in ArgsOf(ThisCall), NEW p \in DOMAIN Params(ThisCall), Targets(ThisCall)[i] = p,
           ~IsThis(ThisCall, i)
    PROVE  After[declared[ThisCall.callee]].parameters[p] = Signature(ThisCall.callee)[p]
<1>1. PICK d : d = declared[ThisCall.callee]
  OBVIOUS
<1>2. /\ d \in DOMAIN fnTypes /\ Signature(ThisCall.callee) = fnTypes[d].parameters
      /\ p \in 1 .. Len(fnTypes[d].parameters)
  <2>1. /\ d \in DOMAIN fnTypes /\ Signature(ThisCall.callee) \in Seq(Types)
        /\ DOMAIN Signature(ThisCall.callee) = DOMAIN Params(ThisCall)
    BY <1>1, TopCall
  <2>2. Signature(ThisCall.callee) = fnTypes[d].parameters
    BY <1>1 DEF Signature
  <2> QED
    BY <2>1, <2>2
<1>3. /\ Evolves(fnTypes[d].parameters, After[d].parameters)
      /\ After[d] = fnTypes[d] \/ AutoReference(ThisCall, This)
  BY <1>1, <1>2, AfterFacts
<1>4. CASE After[d] = fnTypes[d]
  BY <1>1, <1>2, <1>4
<1>5. CASE AutoReference(ThisCall, This)
  <2>1. ThisCall.method
    BY <1>5 DEF AutoReference
  <2>2. 1 \in ArgsOf(ThisCall) /\ Targets(ThisCall)[1] = 1 /\ i # 1
    BY <2>1, TopArguments DEF IsThis
  <2>3. p # 1
    BY <2>2 DEF GivenTwice
  <2> QED
    BY <1>1, <1>2, <1>3, <2>3 DEF Evolves
<1> QED
  BY <1>3, <1>4, <1>5

\* Then a generic parameter is asked for with what is given to it, and another one
\* with its own type.
LEMMA AskedAsWritten ==
    ASSUME ITypes, IDeclared, IFrames, TypesCall, ~GivenTwice(ThisCall), SignatureAsWritten,
           NEW i \in ArgsOf(ThisCall), NEW p \in DOMAIN Params(ThisCall), Targets(ThisCall)[i] = p
    PROVE  /\ IsGeneric(Params(ThisCall)[p]) => Asked[p] = Given(ThisCall, Arguments.types, i, p)
           /\ ~IsGeneric(Params(ThisCall)[p]) =>
                 /\ Signature(ThisCall.callee)[p] = Params(ThisCall)[p].type /\ Params(ThisCall)[p].type # Nothing
                 /\ ~IsThis(ThisCall, i) => Asked[p] = Params(ThisCall)[p].type
<1>1. PICK before : before = Signature(ThisCall.callee)
  OBVIOUS
<1>2. PICK after : after = After[declared[ThisCall.callee]].parameters
  OBVIOUS
<1>3. PICK types : types = Arguments.types
  OBVIOUS
<1>4. Asked = AskedFor(ThisCall, types, before, after)
  BY <1>1, <1>2, <1>3 DEF Asked
<1>5. Asked[p] =
         IF IsThis(ThisCall, i)
         THEN IF before[p] # Nothing /\ can_implicitly_cast(types[i], before[p]) THEN before[p] ELSE types[i]
         ELSE IF after[p] # Nothing THEN after[p]
         ELSE IF ~Params(ThisCall)[p].named THEN types[i] ELSE Provided(ThisCall, types, i)
  BY <1>4, AskedAt
<1>6. ~IsThis(ThisCall, i) => after[p] = before[p]
  BY <1>1, <1>2, AfterAsWritten
<1>7. before[p] = IF IsGeneric(Params(ThisCall)[p]) THEN Nothing ELSE Params(ThisCall)[p].type
  BY <1>1 DEF SignatureAsWritten
<1>8. IsThis(ThisCall, i) => ThisCall.args[i].passes = "value"
  BY TopArguments
<1>9. Params(ThisCall)[p].type # Nothing
  <2>1. ThisCall.callee \in DOMAIN program.fns
    BY TopCall
  <2>2. Params(ThisCall)[p].type \in Names
    BY <2>1, FunctionFacts DEF Params, ITypes
  <2> QED
    BY <2>2 DEF Names, Nothing
<1>10. ASSUME IsGeneric(Params(ThisCall)[p])
       PROVE  Asked[p] = Given(ThisCall, Arguments.types, i, p)
  BY <1>3, <1>5, <1>6, <1>7, <1>8, <1>10 DEF Given, Provided
<1>11. ASSUME ~IsGeneric(Params(ThisCall)[p])
       PROVE  /\ Signature(ThisCall.callee)[p] = Params(ThisCall)[p].type
              /\ ~IsThis(ThisCall, i) => Asked[p] = Params(ThisCall)[p].type
  BY <1>1, <1>5, <1>6, <1>7, <1>9, <1>11
<1> QED
  BY <1>9, <1>10, <1>11

\* A call is taken by an instance that is made for what it asks for.
LEMMA TakenFacts ==
    ASSUME ITypes, IDeclared, IUnique, IFrames, IInstances, Typed, IsPolymorphic(ThisCall.callee),
           NEW bound,
           \/ Found # 0 /\ bound = instances[ThisCall.callee][Found].bound
           \/ MatchesAll(ThisCall, Asked) /\ bound \in Scopes(ThisCall, Asked)
    PROVE  /\ FitsAll(Params(ThisCall), Asked) /\ BoundFor(Params(ThisCall), Asked, bound)
           /\ Stands(Params(ThisCall), Asked) /\ Params(ThisCall)[1].type.base \in Generics
              => ThisCall.method \/ Signature(ThisCall.callee)[1] # Nothing
<1>1. CASE MatchesAll(ThisCall, Asked) /\ bound \in Scopes(ThisCall, Asked)
  BY <1>1, MatchFacts
<1>2. CASE Found # 0 /\ bound = instances[ThisCall.callee][Found].bound
  <2>1. TypesCall
    BY DEF Typed
  <2>2. PICK f : f = ThisCall.callee
    OBVIOUS
  <2>3. PICK address : address = AskedType.address
    OBVIOUS
  <2>4. f \in DOMAIN instances /\ Found \in DOMAIN instances[f] /\ instances[f][Found].type = address
    BY <1>2, <2>1, <2>2, <2>3, FoundHere
  <2>5. MadeFor(f, address, bound)
    BY <1>2, <2>2, <2>4 DEF IInstances
  <2>6. /\ address \in DOMAIN fnTypes /\ \A p \in DOMAIN fnTypes[address].parameters : fnTypes[address].parameters[p] # Nothing
        /\ BoundFor(Fn(f).params, fnTypes[address].parameters, bound)
        /\ FitsAll(Fn(f).params, fnTypes[address].parameters)
    BY <2>5, MadeFacts
  <2>7. Nothing \notin ToSet(fnTypes[address].parameters)
    BY <2>6 DEF ToSet
  <2>8. After[address] = fnTypes[address]
    BY <2>1, <2>6, <2>7, AfterFacts
  <2>9. AskedType.types[address] = After[address] /\ AskedType.types[address].parameters = Asked
    BY <2>3, <2>6, AskedTypeFacts
  <2>10. fnTypes[address].parameters = Asked
    BY <2>8, <2>9
  <2>11. Stands(Fn(f).params, Asked) => Signature(f)[1] # Nothing
    BY <2>5, <2>10 DEF MadeFor
  <2> QED
    BY <2>2, <2>6, <2>10, <2>11 DEF Params
<1> QED
  BY <1>1, <1>2

\* What a typed call says of its arguments.
LEMMA TypedFacts ==
    ASSUME ITypes, IDeclared, IFrames, Typed
    PROVE  /\ TypesCall /\ ~GivenTwice(ThisCall) /\ ThisCall \in Invokes
           /\ \A i \in ArgsOf(ThisCall) : Targets(ThisCall)[i] \in DOMAIN Params(ThisCall)
           /\ \A p \in DOMAIN Params(ThisCall) :
                 Params(ThisCall)[p].default \/ \E i \in ArgsOf(ThisCall) : Targets(ThisCall)[i] = p
           /\ Converts(ThisCall, Arguments.types, After[declared[ThisCall.callee]].parameters)
<1>1. TypesCall /\ ~GivenTwice(ThisCall) /\ Counts(ThisCall) /\ ThisCall \in Invokes /\ Params(ThisCall) \in Seq(Parameters)
      /\ Converts(ThisCall, Arguments.types, After[declared[ThisCall.callee]].parameters)
  BY TopCall DEF Typed, Overrun, Accepted
<1>2. ASSUME NEW i \in ArgsOf(ThisCall) PROVE Targets(ThisCall)[i] \in DOMAIN Params(ThisCall)
  <2>1. Targets(ThisCall)[i] \in Nat \ {0} /\ Targets(ThisCall)[i] <= Len(Params(ThisCall))
    BY <1>1, TargetsFacts DEF Counts
  <2> QED
    BY <1>1, <2>1
<1>3. ASSUME NEW p \in DOMAIN Params(ThisCall), ~Params(ThisCall)[p].default
      PROVE  \E i \in ArgsOf(ThisCall) : Targets(ThisCall)[i] = p
  BY <1>1, <1>3 DEF Counts, Left
<1> QED
  BY <1>1, <1>2, <1>3

\* The instance binds the generics to what is given.
LEMMA BindsHere ==
    ASSUME ITypes, IDeclared, IUnique, IFrames, IInstances, Typed, SignatureAsWritten,
           NEW bound,
           \/ ~IsPolymorphic(ThisCall.callee)
           \/ IsPolymorphic(ThisCall.callee) /\ Found # 0 /\ bound = instances[ThisCall.callee][Found].bound
           \/ IsPolymorphic(ThisCall.callee) /\ MatchesAll(ThisCall, Asked) /\ bound \in Scopes(ThisCall, Asked),
           ~(ThisCall.method /\ StandsForAddress(ThisCall, Arguments.types[1])),
           NEW i \in ArgsOf(ThisCall), NEW p \in DOMAIN Params(ThisCall), Targets(ThisCall)[i] = p,
           IsGeneric(Params(ThisCall)[p])
    PROVE  LET name == Params(ThisCall)[p].type
               t == Given(ThisCall, Arguments.types, i, p)
           IN /\ t \in Types /\ \E n \in 0 .. Len(t.wraps) : Is(name, [t EXCEPT !.wraps = SubSeq(@, 1, n)], t)
              /\ (\A q \in DOMAIN Params(ThisCall) : q > p => Params(ThisCall)[q].type.base # name.base)
                 => Is(name, bound[name.base], t)
<1>1. TypesCall /\ ~GivenTwice(ThisCall)
  BY TypedFacts
<1>2. IsPolymorphic(ThisCall.callee)
  BY DEF IsPolymorphic, Params, ToSet
<1>3. PICK params : params = Params(ThisCall)
  OBVIOUS
<1>4. PICK asked : asked = Asked
  OBVIOUS
<1>5. PICK t : t = Given(ThisCall, Arguments.types, i, p)
  OBVIOUS
<1>6. asked[p] = t
  BY <1>1, <1>4, <1>5, AskedAsWritten
<1>7. /\ asked \in Seq(Types) /\ DOMAIN asked = DOMAIN params /\ Len(asked) \in Nat /\ DOMAIN asked = 1 .. Len(asked)
      /\ p \in DOMAIN asked
  BY <1>2, <1>3, <1>4, AskedFacts
<1>8. /\ FitsAll(params, asked) /\ BoundFor(params, asked, bound)
      /\ Stands(params, asked) /\ params[1].type.base \in Generics
         => ThisCall.method \/ Signature(ThisCall.callee)[1] # Nothing
  BY <1>2, <1>3, <1>4, TakenFacts
<1>9. PICK name : name = params[p].type
  OBVIOUS
<1>10. name \in Types /\ name.base \in Generics /\ t \in Types
  <2>1. ThisCall.callee \in DOMAIN program.fns
    BY <1>1, TopCall
  <2>2. name \in Types
    BY <1>3, <1>9, <2>1, FunctionFacts DEF Params, ITypes
  <2> QED
    BY <1>3, <1>6, <1>7, <1>9, <2>2 DEF IsGeneric
<1>11. ~(p = 1 /\ Stands(params, asked))
  <2> SUFFICES ASSUME p = 1, Stands(params, asked) PROVE FALSE
    OBVIOUS
  <2>1. Signature(ThisCall.callee)[1] = Nothing
    BY DEF SignatureAsWritten
  <2>2. ThisCall.method
    BY <1>8, <1>9, <1>10, <2>1
  <2>3. i = 1 /\ ThisCall.args[1].passes = "value"
    <3>1. 1 \in ArgsOf(ThisCall) /\ Targets(ThisCall)[1] = 1 /\ ThisCall.args[1].passes = "value"
      BY <1>1, <2>2, TopArguments
    <3> QED
      BY <1>1, <3>1 DEF GivenTwice
  <2>4. asked[1] = Arguments.types[1]
    BY <1>5, <1>6, <2>3 DEF Given
  <2> QED
    BY <1>3, <2>2, <2>4 DEF Stands, StandsForAddress
<1>12. Fits(name, t)
  BY <1>6, <1>7, <1>8, <1>9, <1>10, <1>11 DEF FitsAll
<1>13. Is(name, Under(name, t), t) /\ \E n \in 0 .. Len(t.wraps) : Is(name, [t EXCEPT !.wraps = SubSeq(@, 1, n)], t)
  BY <1>10, <1>12, FitsIs
<1>14. ASSUME \A q \in DOMAIN params : q > p => params[q].type.base # name.base
       PROVE  bound[name.base] = Under(name, t)
  <2>1. PICK binders : binders = {q \in DOMAIN asked : params[q].type.base = name.base}
    OBVIOUS
  <2>2. PICK m : m = Max(binders)
    OBVIOUS
  <2>3. p \in binders /\ binders \subseteq 1 .. Len(asked)
    BY <1>7, <1>9, <2>1
  <2>4. m \in binders /\ p <= m
    BY <1>7, <2>2, <2>3, MaxFacts
  <2>5. m = p
    BY <1>7, <1>14, <2>1, <2>3, <2>4
  <2>6. IF m = 1 /\ Stands(params, asked) THEN bound[name.base] \in {asked[1], Garbage}
        ELSE bound[name.base] = Under(params[m].type, asked[m])
    BY <1>8, <1>10, <2>1, <2>2, <2>3 DEF BoundFor
  <2> QED
    BY <1>6, <1>9, <1>11, <2>5, <2>6
<1> QED
  BY <1>3, <1>5, <1>9, <1>10, <1>13, <1>14
-----------------------------------------------------------------------------
\* A type converts to no parameter that is named by one.
LEMMA TypesDoNotConvert ==
    ASSUME NEW to \in Names
    PROVE  ~can_implicitly_cast(TypeOfTypes, to)
<1>1. TypeOfTypes.base = "type" /\ TypeOfTypes.wraps = <<>> /\ Outermost(TypeOfTypes) = "type"
  BY DEF TypeOfTypes, Outermost
<1>2. "type" \notin Arrays /\ to.base # "type" /\ "type" # "int"
  BY WrapAssumption DEF Names
<1> QED
  BY <1>1, <1>2 DEF can_implicitly_cast

\* A call that is typed as written: its arguments have the types that are meant.
LEMMA MeantHere ==
    ASSUME AsWritten(ThisCall, Arguments.types, Frame.bound)
    PROVE  SignatureAsWritten /\ MeantTypes(ThisCall, Frame.bound) = Arguments.types
BY DEF AsWritten, SignatureAsWritten

LEMMA SeenHere ==
    ASSUME ITypes, IDeclared, IUnique, IFrames, IInstances, Typed, SignatureAsWritten,
           NEW bound,
           \/ ~IsPolymorphic(ThisCall.callee)
           \/ IsPolymorphic(ThisCall.callee) /\ Found # 0 /\ bound = instances[ThisCall.callee][Found].bound
           \/ IsPolymorphic(ThisCall.callee) /\ MatchesAll(ThisCall, Asked) /\ bound \in Scopes(ThisCall, Asked),
           ~(ThisCall.method /\ StandsForAddress(ThisCall, Arguments.types[1])),
           NEW c, c.call = ThisCall, c.types = Arguments.types, c.bound = bound
    PROVE  BindsArguments(c)
<1> SUFFICES ASSUME NEW i \in ArgsOf(ThisCall), NEW p, p = Targets(ThisCall)[i],
                    IsGeneric(Params(ThisCall)[p]),
                    ~\E q \in DOMAIN Params(ThisCall) :
                         q > p /\ Params(ThisCall)[q].type.base = Params(ThisCall)[p].type.base,
                    ThisCall.args[i].passes = "type" => ~Params(ThisCall)[p].named
             PROVE  Is(Params(ThisCall)[p].type, bound[Params(ThisCall)[p].type.base], Arguments.types[i])
  BY DEF BindsArguments
<1>1. p \in DOMAIN Params(ThisCall)
  BY TypedFacts
<1>2. Given(ThisCall, Arguments.types, i, p) = Arguments.types[i]
  BY DEF Given
<1>3. \A q \in DOMAIN Params(ThisCall) : q > p => Params(ThisCall)[q].type.base # Params(ThisCall)[p].type.base
  OBVIOUS
<1>4. Is(Params(ThisCall)[p].type, bound[Params(ThisCall)[p].type.base], Given(ThisCall, Arguments.types, i, p))
  BY <1>1, <1>3, BindsHere
<1> QED
  BY <1>2, <1>4

\* Its arguments are where they may be, and of types that suit.
LEMMA LegalHere ==
    ASSUME ITypes, IDeclared, IUnique, IFrames, IInstances, Typed, SignatureAsWritten, ~ThisCall.method,
           NEW bound,
           \/ ~IsPolymorphic(ThisCall.callee)
           \/ IsPolymorphic(ThisCall.callee) /\ Found # 0 /\ bound = instances[ThisCall.callee][Found].bound
           \/ IsPolymorphic(ThisCall.callee) /\ MatchesAll(ThisCall, Asked) /\ bound \in Scopes(ThisCall, Asked)
    PROVE  Legal(ThisCall, Arguments.types)
<1>1. /\ TypesCall /\ ~GivenTwice(ThisCall) /\ ThisCall \in Invokes
      /\ \A i \in ArgsOf(ThisCall) : Targets(ThisCall)[i] \in DOMAIN Params(ThisCall)
      /\ \A p \in DOMAIN Params(ThisCall) :
            Params(ThisCall)[p].default \/ \E i \in ArgsOf(ThisCall) : Targets(ThisCall)[i] = p
      /\ Converts(ThisCall, Arguments.types, After[declared[ThisCall.callee]].parameters)
  BY TypedFacts
<1>2. PICK place : place = [i \in ArgsOf(ThisCall) |-> Targets(ThisCall)[i]]
  OBVIOUS
<1>3. place \in [ArgsOf(ThisCall) -> DOMAIN Params(ThisCall)] /\ \A i \in ArgsOf(ThisCall) : place[i] = Targets(ThisCall)[i]
  BY <1>1, <1>2
<1>4. \A i, j \in ArgsOf(ThisCall) : i # j => place[i] # place[j]
  BY <1>1, <1>3 DEF GivenTwice
<1>5. \A p \in DOMAIN Params(ThisCall) : Params(ThisCall)[p].default \/ \E i \in ArgsOf(ThisCall) : place[i] = p
  <2> SUFFICES ASSUME NEW p \in DOMAIN Params(ThisCall), ~Params(ThisCall)[p].default
               PROVE  \E i \in ArgsOf(ThisCall) : place[i] = p
    OBVIOUS
  <2>1. PICK i \in ArgsOf(ThisCall) : Targets(ThisCall)[i] = p
    BY <1>1
  <2>2. place[i] = p
    BY <1>3, <2>1
  <2> QED
    BY <2>2
<1>6. ASSUME NEW i \in ArgsOf(ThisCall)
      PROVE  /\ ThisCall.args[i].key # 0 => place[i] = ThisCall.args[i].key
             /\ ThisCall.args[i].key = 0 => place[i] = IF i = 1 THEN 1 ELSE place[i - 1] + 1
  <2>1. ArgsOf(ThisCall) = 1 .. Len(ThisCall.args) /\ Len(ThisCall.args) \in Nat
    BY <1>1, TopArguments
  <2>2. i # 1 => i - 1 \in ArgsOf(ThisCall)
    BY <2>1
  <2> QED
    BY <1>1, <1>3, <2>2, TargetsIs
<1>7. ASSUME NEW i \in ArgsOf(ThisCall)
      PROVE  Suits(Params(ThisCall)[place[i]], ThisCall.args[i], Arguments.types[i])
  <2>1. PICK p \in DOMAIN Params(ThisCall) : p = Targets(ThisCall)[i]
    BY <1>1
  <2>2. PICK t : t = Given(ThisCall, Arguments.types, i, p)
    OBVIOUS
  <2>3. CASE IsGeneric(Params(ThisCall)[p])
    <3>1. \E n \in 0 .. Len(t.wraps) : Is(Params(ThisCall)[p].type, [t EXCEPT !.wraps = SubSeq(@, 1, n)], t)
      BY <2>1, <2>2, <2>3, BindsHere
    <3> QED
      BY <1>3, <2>1, <2>2, <2>3, <3>1 DEF Suits, Given
  <2>4. CASE ~IsGeneric(Params(ThisCall)[p])
    <3>1. PICK to : to = Params(ThisCall)[p].type
      OBVIOUS
    <3>2. Signature(ThisCall.callee)[p] = to /\ to # Nothing
      BY <1>1, <2>1, <2>4, <3>1, AskedAsWritten
    <3>3. ~IsThis(ThisCall, i)
      BY DEF IsThis
    <3>4. PICK signature : signature = After[declared[ThisCall.callee]].parameters
      OBVIOUS
    <3>5. signature[p] = to
      BY <1>1, <2>1, <3>2, <3>3, <3>4, AfterAsWritten
    <3>6. can_implicitly_cast(Provided(ThisCall, Arguments.types, i), to)
      <4>1. Converts(ThisCall, Arguments.types, signature)
        BY <1>1, <3>4
      <4> QED
        BY <2>1, <3>2, <3>3, <3>5, <4>1 DEF Converts
    <3>7. to \in Names
      <4>1. ThisCall.callee \in DOMAIN program.fns
        BY <1>1, TopCall
      <4> QED
        BY <3>1, <4>1, FunctionFacts DEF Params, ITypes
    <3>8. ThisCall.args[i].passes # "type"
      BY <3>6, <3>7, TypesDoNotConvert DEF Provided
    <3>9. can_implicitly_cast(Arguments.types[i], to)
      BY <3>6, <3>8 DEF Provided
    <3> QED
      BY <1>3, <2>1, <2>4, <3>1, <3>8, <3>9 DEF Suits
  <2> QED
    BY <2>3, <2>4
<1> QED
  BY <1>3, <1>4, <1>5, <1>6, <1>7 DEF Legal

\* A call whose arguments can be given to its parameters is not refused.
LEMMA NotRefused ==
    ASSUME ITypes, IDeclared, IFrames, TypesCall, ~ThisCall.method, SignatureAsWritten,
           Legal(ThisCall, Arguments.types), ~Misread
    PROVE  Accepted /\ (NewInstance => Matches \/ ReadsBehind(ThisCall, Asked))
<1> DEFINE params == Params(ThisCall)
           args == ThisCall.args
           types == Arguments.types
           targets == Targets(ThisCall)
<1>1. PICK place \in [ArgsOf(ThisCall) -> DOMAIN params] :
        /\ \A i, j \in ArgsOf(ThisCall) : i # j => place[i] # place[j]
        /\ \A i \in ArgsOf(ThisCall) :
              /\ args[i].key # 0 => place[i] = args[i].key
              /\ args[i].key = 0 => place[i] = IF i = 1 THEN 1 ELSE place[i - 1] + 1
              /\ Suits(params[place[i]], args[i], types[i])
        /\ \A p \in DOMAIN params : params[p].default \/ \E i \in ArgsOf(ThisCall) : place[i] = p
  BY DEF Legal
<1>2. /\ ThisCall \in Invokes /\ params \in Seq(Parameters) /\ ThisCall.callee \in DOMAIN program.fns
      /\ ThisCall.callee \in DOMAIN declared
  BY TopCall
<1>3. ArgsOf(ThisCall) = 1 .. Len(args) /\ Len(args) \in Nat /\ \A i \in ArgsOf(ThisCall) : types[i] \in Types
  BY TopArguments DEF Proper
<1>4. ASSUME NEW i \in ArgsOf(ThisCall)
      PROVE  targets[i] = place[i] /\ targets[i] \in DOMAIN params
  BY <1>1, <1>2, TargetsFacts, SMTT(40)
<1>5. ~GivenTwice(ThisCall)
  BY <1>1, <1>4 DEF GivenTwice
<1>6. Counts(ThisCall)
  <2>1. ASSUME NEW i \in ArgsOf(ThisCall) PROVE targets[i] <= Len(params)
    BY <1>2, <1>4
  <2>2. ASSUME NEW p \in Left(ThisCall) PROVE params[p].default
    <3>1. p \in DOMAIN params /\ \A i \in ArgsOf(ThisCall) : targets[i] # p
      BY DEF Left
    <3> QED
      BY <1>1, <1>4, <3>1
  <2> QED
    BY <2>1, <2>2 DEF Counts
<1>7. ASSUME NEW i \in ArgsOf(ThisCall), NEW p \in DOMAIN params, targets[i] = p
      PROVE  /\ Suits(params[p], args[i], types[i]) /\ ~IsThis(ThisCall, i)
             /\ After[declared[ThisCall.callee]].parameters[p] = Signature(ThisCall.callee)[p]
             /\ Signature(ThisCall.callee)[p] = IF IsGeneric(params[p]) THEN Nothing ELSE params[p].type
  <2>1. ~IsThis(ThisCall, i)
    BY DEF IsThis
  <2>2. After[declared[ThisCall.callee]].parameters[p] = Signature(ThisCall.callee)[p]
    BY <1>5, <1>7, <2>1, AfterAsWritten
  <2>3. Suits(params[p], args[i], types[i])
    BY <1>1, <1>4, <1>7
  <2> QED
    BY <2>1, <2>2, <2>3 DEF SignatureAsWritten
<1>8. Converts(ThisCall, types, After[declared[ThisCall.callee]].parameters)
  <2>1. PICK signature : signature = After[declared[ThisCall.callee]].parameters
    OBVIOUS
  <2>2. ASSUME NEW i \in ArgsOf(ThisCall), signature[targets[i]] # Nothing
        PROVE  can_implicitly_cast(Provided(ThisCall, types, i), signature[targets[i]])
    <3>1. PICK p \in DOMAIN params : p = targets[i]
      BY <1>4
    <3>2. Suits(params[p], args[i], types[i]) /\ signature[p] = IF IsGeneric(params[p]) THEN Nothing ELSE params[p].type
      BY <1>7, <2>1, <3>1
    <3>3. args[i].passes # "type" /\ can_implicitly_cast(types[i], params[p].type) /\ signature[p] = params[p].type
      BY <2>2, <3>1, <3>2 DEF Suits
    <3> QED
      BY <3>1, <3>3 DEF Provided
  <2>3. Converts(ThisCall, types, signature)
    BY <2>2 DEF Converts
  <2> QED
    BY <2>1, <2>3
<1>9. Accepted
  BY <1>6, <1>8 DEF Accepted
<1>10. ASSUME NewInstance PROVE MatchesAll(ThisCall, Asked)
  <2>1. PICK asked : asked = Asked
    OBVIOUS
  <2>2. Typed /\ IsPolymorphic(ThisCall.callee)
    BY <1>10 DEF NewInstance
  <2>3. DOMAIN asked = DOMAIN params /\ \A p \in DOMAIN params : \E i \in ArgsOf(ThisCall) : targets[i] = p
    BY <2>1, <2>2, AskedFacts
  <2>4. ASSUME NEW p \in DOMAIN asked, IsGeneric(params[p])
        PROVE  Fits(params[p].type, asked[p])
    <3>1. PICK i \in ArgsOf(ThisCall) : targets[i] = p
      BY <2>3
    <3>2. PICK t : t = Given(ThisCall, types, i, p)
      OBVIOUS
    <3>3. asked[p] = t
      BY <1>5, <2>1, <2>3, <2>4, <3>1, <3>2, AskedAsWritten
    <3>4. Suits(params[p], args[i], types[i])
      BY <1>7, <2>3, <3>1
    <3>5. PICK n \in 0 .. Len(t.wraps) : Is(params[p].type, [t EXCEPT !.wraps = SubSeq(@, 1, n)], t)
      BY <2>4, <3>2, <3>4 DEF Suits, Given
    <3>6. params[p].type \in Types
      BY <1>2, <2>3, FunctionFacts DEF Params, ITypes
    <3>7. t \in Types
      BY <1>3, <3>2, NothingFacts DEF Given
    <3> QED
      BY <3>3, <3>5, <3>6, <3>7, IsFits
  <2>5. ASSUME NEW p \in DOMAIN asked, ~IsGeneric(params[p])
        PROVE  asked[p] = ll_typer_get_type_from_typename(known, params[p].type, Unbound).type
    <3>1. PICK i \in ArgsOf(ThisCall) : targets[i] = p
      BY <2>3
    <3>2. ~IsThis(ThisCall, i)
      BY DEF IsThis
    <3>3. asked[p] = params[p].type /\ Signature(ThisCall.callee)[p] = params[p].type
      BY <1>5, <2>1, <2>3, <2>5, <3>1, <3>2, AskedAsWritten
    <3>4. PICK f : f = ThisCall.callee
      OBVIOUS
    <3>5. Declares(f)
      BY <1>2, <3>4 DEF IDeclared
    <3>6. ll_typer_get_type_from_typename(known, params[p].type, Unbound).type = Signature(f)[p]
      BY <2>3, <2>5, <3>4, <3>5 DEF Declares, Params
    <3> QED
      BY <3>3, <3>4, <3>6
  <2>6. ~StandsForAddress(ThisCall, asked[1])
    BY DEF StandsForAddress
  <2>7. MatchesAll(ThisCall, asked)
    BY <2>4, <2>5, <2>6 DEF MatchesAll, IsGeneric
  <2> QED
    BY <2>1, <2>7
<1> QED
  BY <1>9, <1>10 DEF Matches
-----------------------------------------------------------------------------
Seen(c) ==
    c.asWritten /\ ~(c.call.method /\ StandsForAddress(c.call, c.types[1])) => BindsArguments(c)

Allowed(c) == c.asWritten /\ ~c.call.method => c.legal

\* What holds of the calls that were typed.
ICalls ==
    /\ calls \in Seq(ToSet(calls))
    /\ \A c \in ToSet(calls) : Seen(c) /\ Allowed(c)

\* A call that may be refused.
Refusable ==
    ~ThisCall.method /\ AsWritten(ThisCall, Arguments.types, Frame.bound) => ~Legal(ThisCall, Arguments.types)

IRefused == status = "refused" => Refusable

LEMMA SeenLater ==
    ASSUME program' = program, NEW c, Seen(c), Allowed(c)
    PROVE  Seen(c)' /\ Allowed(c)'
<1>1. \A call : Params(call)' = Params(call)
  BY KeptProgram
<1>2. BindsArguments(c)' <=> BindsArguments(c)
  BY <1>1 DEF BindsArguments
<1>3. StandsForAddress(c.call, c.types[1])' <=> StandsForAddress(c.call, c.types[1])
  BY <1>1 DEF StandsForAddress
<1> QED
  BY <1>2, <1>3 DEF Seen, Allowed

LEMMA CallsLater ==
    ASSUME program' = program, calls' = calls, ICalls
    PROVE  ICalls'
<1>1. \A c \in ToSet(calls) : Seen(c)' /\ Allowed(c)'
  BY SeenLater DEF ICalls
<1> QED
  BY <1>1 DEF ICalls

\* A call is typed.
LEMMA CallStep ==
    ASSUME ITypes, IDeclared, IUnique, IFrames, IInstances, ICalls, Typed,
           NEW bound,
           \/ ~IsPolymorphic(ThisCall.callee)
           \/ IsPolymorphic(ThisCall.callee) /\ Found # 0 /\ bound = instances[ThisCall.callee][Found].bound
           \/ IsPolymorphic(ThisCall.callee) /\ MatchesAll(ThisCall, Asked) /\ bound \in Scopes(ThisCall, Asked),
           program' = program, calls' = Taken(ThisCall, Arguments.types, bound)
    PROVE  ICalls'
<1>1. PICK call : call = ThisCall
  OBVIOUS
<1>2. PICK types : types = MeantTypes(ThisCall, Frame.bound)
  OBVIOUS
<1>3. PICK written : written = AsWritten(ThisCall, Arguments.types, Frame.bound)
  OBVIOUS
<1>4. PICK legal : legal = Legal(ThisCall, MeantTypes(ThisCall, Frame.bound))
  OBVIOUS
<1>5. PICK c : c = [call |-> call, types |-> types, bound |-> bound, asWritten |-> written, legal |-> legal]
  OBVIOUS
<1>6. c.call = ThisCall /\ c.types = types /\ c.bound = bound /\ c.asWritten = written /\ c.legal = legal
  BY <1>1, <1>5
<1>7. calls' = Append(calls, c)
  BY <1>1, <1>2, <1>3, <1>4, <1>5 DEF Taken
<1>8. ASSUME written PROVE SignatureAsWritten /\ types = Arguments.types
  BY <1>2, <1>3, <1>8, MeantHere
<1>9. Seen(c)
  BY <1>6, <1>8, SeenHere DEF Seen
<1>10. Allowed(c)
  BY <1>2, <1>4, <1>6, <1>8, LegalHere DEF Allowed
<1>11. ToSet(calls') = ToSet(calls) \union {c} /\ calls' \in Seq(ToSet(calls'))
  <2>1. PICK old : old = calls
    OBVIOUS
  <2>2. old \in Seq(ToSet(old))
    BY <2>1 DEF ICalls
  <2>3. ToSet(Append(old, c)) = ToSet(old) \union {c}
    BY <2>2, SMTT(40) DEF ToSet
  <2>4. Append(old, c) \in Seq(ToSet(old) \union {c})
    BY <2>2
  <2> QED
    BY <1>7, <2>1, <2>3, <2>4
<1>12. \A d \in ToSet(calls') : Seen(d)' /\ Allowed(d)'
  <2> SUFFICES ASSUME NEW d \in ToSet(calls') PROVE Seen(d) /\ Allowed(d)
    BY SeenLater
  <2> QED
    BY <1>9, <1>10, <1>11 DEF ICalls
<1> QED
  BY <1>11, <1>12 DEF ICalls

LEMMA RefusableStays ==
    ASSUME Refusable, UNCHANGED <<program, known, fnTypes, declared, frames>>
    PROVE  Refusable'
<1>1. Fn(Frame.fn)' = Fn(Frame.fn) /\ Frame' = Frame
  BY DEF Fn, Frame
<1>2. ThisCall' = ThisCall
  BY <1>1 DEF ThisCall
<1>3. PICK call : call = ThisCall
  OBVIOUS
<1>4. PICK bound : bound = Frame.bound
  OBVIOUS
<1>5. PICK types : types = Arguments.types
  OBVIOUS
<1>6. call = ThisCall' /\ bound = (Frame.bound)' /\ types = (Arguments.types)'
  BY <1>1, <1>2, <1>3, <1>4, <1>5 DEF Arguments
<1>7. \A p : Signature(p)' = Signature(p)
  BY DEF Signature
<1>8. \A d : Params(d)' = Params(d)
  BY KeptProgram
<1>9. AsWritten(call, types, bound)' <=> AsWritten(call, types, bound)
  BY <1>7, <1>8 DEF AsWritten
<1>10. Legal(call, types)' <=> Legal(call, types)
  BY <1>8 DEF Legal
<1>11. ~call.method /\ AsWritten(call, types, bound) => ~Legal(call, types)
  BY <1>3, <1>4, <1>5 DEF Refusable
<1> QED
  BY <1>6, <1>9, <1>10, <1>11 DEF Refusable

\* An error is one.
LEMMA RefuseStep ==
    ASSUME ITypes, IDeclared, IFrames, Refuse
    PROVE  Refusable'
<1>1. /\ TypesCall /\ ~Misread
      /\ ~Accepted \/ (NewInstance /\ ~ReadsBehind(ThisCall, Asked) /\ ~Matches)
      /\ UNCHANGED <<program, known, fnTypes, declared, frames>>
  BY DEF Refuse
<1>2. Refusable
  BY <1>1, MeantHere, NotRefused DEF Refusable
<1> QED
  BY <1>1, <1>2, RefusableStays

\* Each step keeps what holds of the calls.
LEMMA NextCalls ==
    ASSUME Inv, ICalls, IRefused, [Next]_vars
    PROVE  ICalls' /\ IRefused'
<1>0. ITypes /\ IDeclared /\ IUnique /\ IFrames /\ IInstances
  BY DEF Inv
<1>1. CASE Declare
  <2>1. program' = program /\ calls' = calls /\ status' # "refused"
    BY <1>1 DEF Declare
  <2> QED
    BY <2>1, CallsLater DEF IRefused
<1>2. CASE CallFunction
  <2>1. /\ Typed /\ ~IsPolymorphic(ThisCall.callee)
        /\ program' = program /\ calls' = Taken(ThisCall, Arguments.types, Unbound) /\ status' = status
    BY <1>2 DEF CallFunction
  <2>2. status' # "refused"
    BY <2>1 DEF Typed, TypesCall
  <2> QED
    BY <1>0, <2>1, <2>2, CallStep DEF IRefused
<1>3. CASE CallInstance
  <2>1. PICK bound : bound = instances[ThisCall.callee][Found].bound
    OBVIOUS
  <2>2. /\ Typed /\ IsPolymorphic(ThisCall.callee) /\ Found # 0
        /\ program' = program /\ calls' = Taken(ThisCall, Arguments.types, bound) /\ status' = status
    BY <1>3, <2>1 DEF CallInstance
  <2>3. status' # "refused"
    BY <2>2 DEF Typed, TypesCall
  <2> QED
    BY <1>0, <2>1, <2>2, <2>3, CallStep DEF IRefused
<1>4. CASE Instantiate
  <2>1. PICK bound \in Scopes(ThisCall, Asked) : calls' = Taken(ThisCall, Arguments.types, bound)
    BY <1>4 DEF Instantiate
  <2>2. /\ Typed /\ IsPolymorphic(ThisCall.callee) /\ MatchesAll(ThisCall, Asked)
        /\ program' = program /\ status' = status
    BY <1>4 DEF Instantiate, Matches
  <2>3. status' # "refused"
    BY <2>2 DEF Typed, TypesCall
  <2> QED
    BY <1>0, <2>1, <2>2, <2>3, CallStep DEF IRefused
<1>5. CASE Return
  <2>1. program' = program /\ calls' = calls /\ status' # "refused"
    BY <1>5 DEF Return
  <2> QED
    BY <2>1, CallsLater DEF IRefused
<1>6. CASE Refuse
  <2>1. program' = program /\ calls' = calls
    BY <1>6 DEF Refuse
  <2>2. Refusable'
    BY <1>0, <1>6, RefuseStep
  <2> QED
    BY <2>1, <2>2, CallsLater DEF IRefused
<1>7. CASE Undefined \/ Overflow \/ Generate
  <2>1. program' = program /\ calls' = calls /\ status' # "refused"
    BY <1>7 DEF Undefined, Overflow, Generate
  <2> QED
    BY <2>1, CallsLater DEF IRefused
<1>8. CASE UNCHANGED vars
  <2>1. UNCHANGED <<program, known, fnTypes, declared, frames>> /\ calls' = calls /\ status' = status
    BY <1>8 DEF vars
  <2>2. status' = "refused" => Refusable'
    BY <2>1, RefusableStays DEF IRefused
  <2> QED
    BY <2>1, <2>2, CallsLater DEF IRefused
<1> QED
  BY <1>1, <1>2, <1>3, <1>4, <1>5, <1>6, <1>7, <1>8 DEF Next

LEMMA InitCalls ==
    ASSUME Init PROVE ICalls /\ IRefused
BY DEF Init, ICalls, IRefused, ToSet

\* What holds of the calls that are typed, and of the one that is refused (src/typer.c:1942).
THEOREM CallsInvariant == Spec => [](ICalls /\ IRefused)
<1>1. Init => ICalls /\ IRefused
  BY InitCalls
<1>2. Inv /\ ICalls /\ IRefused /\ [Next]_vars => ICalls' /\ IRefused'
  BY NextCalls
<1> QED
  BY <1>1, <1>2, Invariant, PTL DEF Spec

\* A call ends up at an instance whose generics stand for what its own arguments are,
\* whichever call it was made for (src/typer.c:2155).
THEOREM InstancesBindAsSeen == Spec => []BindsAsSeen
<1>1. ICalls => BindsAsSeen
  BY DEF ICalls, Seen, BindsAsSeen
<1> QED
  BY <1>1, CallsInvariant, PTL

\* A call is typed when its arguments can be given to the parameters, and refused only
\* when not (src/typer.c:1942).
THEOREM InstancesTakenIffLegal == Spec => []TakenIffLegal
<1>1. ICalls /\ IRefused => TakenIffLegal
  BY DEF ICalls, Allowed, IRefused, Refusable, TakenIffLegal
<1> QED
  BY <1>1, CallsInvariant, PTL
=============================================================================
