------------------------------- MODULE MCRunner -------------------------------
(* Programs for TLC, compiled by the operators of CodeGen. *)
EXTENDS CodeGen, Verifier, TLC

LOCAL INSTANCE SequencesExt

CONSTANTS a1, a2

Class == [o \in {a1, a2} |-> "A"]

(***************************************************************************)
(* class A { def f(x) { return x; }  def h() { }                           *)
(*           def g() { h(); return this; } }                               *)
(* static def id(x) { return x; }                                          *)
(* entries: 1 bootstrap, 2 main, 3 id, 4 f, 5 h, 6 g, 7... the others      *)
(* A frame has two slots for a variable that is declared in the method's   *)
(* own block, which local_size counts twice                                *)
(* (oop_fundamental_node.cpp:60-71, basic_node.cpp:42).                    *)
(***************************************************************************)
id == 3
F == emit_method(1, 1, emit_block(<<emit_return(emit_ident(0))>>))
H == emit_method(0, 0, emit_block(<<>>))
G == emit_method(0, 0, emit_block(<<emit_pop(emit_call("h", <<>>)), emit_return(emit_this)>>))
Vtable == "f" :> ScriptMethod(4) @@ "h" :> ScriptMethod(5) @@ "g" :> ScriptMethod(6)
            @@ "to_string" :> NativeMethod
Main(body) == emit_method(0, 4, emit_block(body))
Program(body) == Link(<<Main(body), F, F, H, G>>, "A" :> Vtable)
With(body, method, name) ==
    Link(<<Main(body), F, F, H, G, method>>, "A" :> (name :> ScriptMethod(7) @@ Vtable))

a == emit_ident(0)   \* a local of main that holds an object of class A
x == emit_ident(1)
NewA == emit_assignment(0, emit_newobj("A", <<>>))
T == emit_literal(TrueV)

Atoms == {T, a}
Simple(E) ==
    {emit_callmember(a, "f", <<e>>) : e \in E} \cup {emit_callmember(a, "g", <<>>)}
    \cup {emit_callstatic(id, <<e>>) : e \in E}
    \cup {emit_op(l, r, "binary", "") : l \in Atoms, r \in E}
\* receivers that are computed
Chained(E) == {emit_callmember(e, "f", <<T>>) : e \in E}
Exprs == Simple(Simple(Atoms)) \cup Chained(Simple(Atoms))

Body(e) == emit_block(<<emit_pop(e)>>)
Statements(E) ==
    {emit_pop(e) : e \in E} \cup {emit_assignment(1, e) : e \in E}
    \cup {emit_if(e, Body(e), <<>>) : e \in E}
    \cup {emit_while(e, Body(T)) : e \in E}
    \cup {emit_foreach(1, emit_newarr(<<e>>), Body(e)) : e \in E}
    \cup {emit_return(e) : e \in E}

NestedCalls ==
    {Program(<<NewA, s>>) : s \in Statements(Exprs)}

(***************************************************************************)
(* Receivers and arguments: no call among the arguments of a method call.  *)
(* A method with two parameters counts the comma between them as a third;  *)
(* it works with one argument or none if it has a third local.  The        *)
(* methods that are always called with the same arguments say what they    *)
(* expect: two parameters with one argument, with none, the operators.     *)
(***************************************************************************)
U == emit_literal(FalseV)
Expecting(method, args) == [method EXCEPT !.expects = args]
Two == emit_method(3, 4, emit_block(<<emit_assignment(2, emit_callmember(emit_this, "g", <<>>)),
                                      emit_return(emit_op(emit_ident(0), emit_ident(1), "binary", ""))>>))
M == emit_method(1, 1, DefaultParam(0, T) \o emit_block(<<emit_return(emit_this)>>))
Printed == emit_method(0, 0, emit_block(<<emit_pop(emit_call("g", <<>>)),
                                          emit_return(T)>>))
Ctor == emit_method(0, 0, emit_block(<<emit_return(emit_this)>>))
Operator == emit_method(1, 1, emit_block(<<emit_pop(emit_call("h", <<>>)),
                                           emit_return(emit_ident(0))>>))
RichWith(variables, body) ==
    Link(<<emit_method(0, 2 * variables, emit_block(body)), F, F, H, G,
           Expecting(Two, {<<TrueV, Empty>>}), Expecting(Two, {<<Empty, Empty>>}), M, Printed, Ctor,
           Expecting(Operator, {<<TrueV>>}), Expecting(Operator, {<<a1>>, <<a2>>})>>,
         "A" :> ("k" :> ScriptMethod(7) @@ "l" :> ScriptMethod(8) @@ "m" :> ScriptMethod(9)
                 @@ "to_string" :> ScriptMethod(10) @@ "_ctor" :> ScriptMethod(11)
                 @@ "__sub__" :> ScriptMethod(12) @@ "equal" :> ScriptMethod(13) @@ Vtable))
Rich(body) == RichWith(2, body)

PlainArgs == {T, emit_callstatic(id, <<T>>), emit_callstatic(id, <<a>>),
              emit_memberaccess(a), emit_syscall("plain", 1, <<a>>),
              emit_syscall("plain", 0, <<>>)}
Sends == {emit_callmember(a, "k", <<T>>), emit_callmember(a, "l", <<>>),
          emit_callmember(a, "m", <<>>), emit_callmember(a, "g", <<>>),
          emit_callmember(emit_newobj("A", <<>>), "k", <<T>>),
          emit_op(a, T, "arith", "__sub__"), emit_op(T, T, "arith", "__sub__"),
          emit_op(a, emit_newobj("A", <<>>), "equal", "equal"),
          emit_op(T, T, "add", "__add__"),
          emit_op(T, a, "arith", "__sub__"),
          emit_syscall("prints", 1, <<a>>)}
         \cup {emit_callmember(a, name, <<e>>) : name \in {"f", "m"}, e \in PlainArgs}
\* variables that fill the stack before a call, or the call itself does
Crammed(n) == RichWith(n, <<NewA>> \o [i \in 1..(n - 1) |-> emit_assignment(i, T)]
                            \o <<emit_pop(emit_callmember(a, "k", <<T>>))>>)
ReceiverPrograms ==
    {Crammed(n) : n \in 2..6} \cup
    {Rich(<<NewA, s>>) :
            s \in {emit_pop(emit_callmember(e, "g", <<>>)) : e \in Sends}
                  \cup {emit_assignment(1, e) : e \in Sends}
                  \cup {emit_assignprop(a, e) : e \in Sends}}
        \cup {Rich(<<NewA, emit_for(emit_assignment(1, T), x, emit_assignment(1, e), Body(e))>>) :
                e \in Sends}

(***************************************************************************)
(* try and catch: exceptions thrown by a statement of the same method, at  *)
(* any depth of calls, from bodies that loop and return.                   *)
(***************************************************************************)
Thrown == emit_throw(emit_literal(Exception))
TryBodies == {<<Thrown>>, <<emit_if(T, Thrown, <<>>)>>, <<emit_return(T)>>, <<>>,
              <<emit_if(x, Thrown, emit_assignment(1, T))>>,
              <<emit_while(x, Thrown)>>}
Catches == {<<>>, <<emit_return(x)>>, <<emit_assignment(1, T)>>, <<Thrown>>}
Try(b, c) == emit_try(emit_block(b), 1, emit_block(c))
\* def f(x) { local; x = binary; try .. catch .. }, from main in several ways
Catcher1(b, c) ==
    emit_method(1, 3, emit_block(<<emit_assignment(1, emit_op(T, T, "binary", "")), Try(b, c)>>))
CatchMains == {emit_pop(emit_callmember(a, "t", <<T>>)),
               emit_while(T, Body(emit_callmember(a, "t", <<a>>))),
               emit_pop(emit_op(emit_callmember(a, "t", <<T>>),
                                emit_callstatic(id, <<emit_callstatic(7, <<T>>)>>), "binary", "")),
               emit_foreach(1, a, Body(emit_callmember(a, "t", <<>>)))}
CatchPrograms ==
    {With(<<NewA, s>>, Catcher1(b, c), "t") :
            s \in CatchMains, b \in TryBodies, c \in Catches}
        \cup {Program(<<NewA, Try(b, c), emit_pop(emit_callmember(a, "g", <<>>))>>) :
                b \in TryBodies, c \in Catches}

\* try blocks in try blocks; the innermost one may be caught, and throw again
Deeper(b) == <<emit_assignment(1, T), Try(b, <<emit_if(x, Thrown, <<>>)>>),
               emit_if(x, Thrown, <<>>)>>
NestedTries ==
    {Program(<<NewA, Try(Deeper(b), c), emit_pop(a)>>) : b \in TryBodies, c \in Catches}
        \cup {Program(<<NewA, Try(<<Try(Deeper(b), <<>>), Thrown>>, <<>>), emit_pop(a)>>) : b \in TryBodies}

(***************************************************************************)
(* Recursion without a bottom, in bytecode and through native functions;   *)
(* more objects than addresses; a variable number of arguments.            *)
(***************************************************************************)
Rec == emit_method(1, 1, emit_block(<<emit_return(emit_callstatic(7, <<emit_ident(0)>>))>>))
RecThis == emit_method(0, 0, emit_block(<<emit_return(emit_call("r", <<>>))>>))
RecPrint == emit_method(0, 0, emit_block(<<emit_pop(emit_syscall("prints", 1, <<emit_this>>)),
                                           emit_return(T)>>))
\* recursion that may come back, or be caught on its way
RecBack == emit_method(1, 1, emit_block(<<
             emit_if(emit_op(emit_ident(0), T, "binary", ""),
                     emit_return(emit_callstatic(7, <<T>>)), <<>>),
             emit_return(emit_ident(0))>>))
RecIf == emit_method(1, 1, emit_block(<<
            emit_if(emit_op(emit_ident(0), T, "binary", ""),
                    emit_return(emit_callstatic(7, <<T>>)), <<>>),
            emit_return(emit_op(emit_callstatic(7, <<emit_ident(0)>>), T, "binary", ""))>>))
\* static def v(*args), called by a method without variables; main has one, and this operand below
V(args) ==
    LET calls == emit_method(0, 0, emit_block(<<emit_pop(emit_callstatic(8, args)),
                                                emit_return(emit_callstatic(8, args))>>))
        v == emit_va_method(1, 1, emit_block(<<emit_return(emit_ident(0))>>))
    IN  {Link(<<Main(<<NewA, s>>), F, F, H, G, calls, v>>, "A" :> (name :> ScriptMethod(7) @@ Vtable)) :
            s \in {emit_pop(emit_callmember(a, "c", <<>>)), emit_pop(emit_callstatic(7, <<>>)),
                   emit_pop(emit_op(T, emit_callstatic(7, <<>>), "binary", "")),
                   emit_pop(emit_syscall("prints", 1, <<a>>))},
            name \in {"c", "to_string"}}
\* in the arguments of another, and the exception of a native function in the arguments
Variadic == {<<>>, <<T>>, <<emit_callstatic(8, <<T>>)>>, <<emit_callstatic(8, <<emit_callstatic(id, <<T>>)>>)>>,
             <<emit_syscall("fails", 0, <<>>)>>}
RecursivePrograms ==
    {With(<<NewA, s>>, m, name) :
            s \in {emit_pop(emit_callmember(a, "r", <<>>)), emit_pop(emit_callstatic(7, <<T>>)),
                   emit_pop(emit_syscall("prints", 1, <<a>>))},
            m \in {Rec, RecIf, RecBack}, name \in {"r", "to_string"}}
        \cup {With(<<NewA, emit_pop(emit_callmember(a, "r", <<>>))>>, RecThis, "r"),
              With(<<NewA, emit_pop(emit_syscall("prints", 1, <<a>>))>>, RecPrint, "to_string"),
              With(<<NewA, emit_pop(emit_syscall("fails", 1, <<a>>))>>, RecPrint, "to_string")}
\* objects made while a call waits for its arguments
Making == {Program(<<NewA, emit_pop(emit_callstatic(id, <<emit_callmember(
             emit_newobj("A", <<>>), "f", <<emit_op(emit_newobj("A", <<>>), a, op, "equal")>>)>>))>>) :
             op \in {"equal", "binary"}}

CallPrograms == NestedCalls \cup CatchPrograms \cup NestedTries \cup RecursivePrograms
ArgumentPrograms == ReceiverPrograms \cup Making \cup UNION {V(args) : args \in Variadic}

(***************************************************************************)
(* Programs of the tests and the documentation.                            *)
(***************************************************************************)
\* a.f(a.f(T)): the receiver of a call that has a call among its arguments
NestedPrograms == {Program(<<NewA, emit_pop(emit_callmember(a, "f",
                                     <<emit_callmember(a, "f", <<T>>)>>))>>)}
\* docs/readme.md: sum(..) in a method of the same object
SelfCall == emit_method(0, 0, emit_block(<<emit_pop(emit_call("f", <<T>>))>>))
SelfPrograms == {With(<<NewA, emit_pop(emit_callmember(a, "s", <<>>))>>, SelfCall, "s")}
\* tests/syntax/class/member_var.rk: a constructor that ends without a return
PlainCtor == emit_method(0, 0, emit_block(<<emit_assignprop(emit_this, T)>>))
CtorPrograms == {With(<<NewA, emit_pop(emit_memberaccess(a))>>, PlainCtor, "_ctor")}
\* tests/syntax/call/callpadding_call.rk: foo(1); foo(1, 2); foo(); of static def foo(a, b)
Foo == Expecting(emit_method(3, 2, emit_block(<<emit_pop(emit_syscall("plain", 1, <<emit_ident(0)>>)),
                                                emit_pop(emit_syscall("plain", 1, <<emit_ident(1)>>))>>)),
                 {<<TrueV, Empty>>, <<TrueV, FalseV>>, <<Empty, Empty>>})
Static(args) == emit_pop(emit_callstatic(3, args))
CommaPrograms == {Link(<<emit_method(0, 0, emit_block(<<Static(<<T>>), Static(<<T, Comma, U>>), Static(<<>>)>>)), Foo>>,
                       "A" :> ("to_string" :> NativeMethod))}

(***************************************************************************)
(* What the theorems assume of programs (Verifier).  The certificates are  *)
(* computed: nothing is known of the callee register where jumps lead,     *)
(* and a method needs the most of what its instructions need.              *)
(***************************************************************************)
Most(S) == CHOOSE m \in S : \A n \in S : n <= m
Calling(p) == {c \in Code(p) \X DOMAIN p.entries : Enters(p, c[1], c[2])}
Body_(p, e) == {i \in Code(p) : InMethod(p, e, i)}

\* methods that call none and leave the register alone; methods that never lose it
Quiet(p) == {e \in DOMAIN p.entries : \A i \in Body_(p, e) :
               /\ ~Loses(p.code[i]) /\ ~Moves(p.code[i])
               /\ \A f \in DOMAIN p.entries : ~Enters(p, i, f)}
Tidy(p) == IF \E i \in Code(p) : Loses(p.code[i]) THEN Quiet(p) ELSE DOMAIN p.entries

Fresh(p) == {p.entries[e].start : e \in DOMAIN p.entries}
              \cup {p.code[i].k : i \in {i \in Code(p) : p.code[i].op \in Branches}}
              \cup {p.handlers[h].catch : h \in 1..Len(p.handlers)}

\* what is known at i, if j is the last setcallee before it or the last place jumps lead to
KnownAt(p, tidy, quiet, i, j) ==
    LET run == (j + 1)..(i - 1)
        reaches(k, S) == \E e \in DOMAIN p.entries \ S : Enters(p, k, e)
    IN  IF \/ j = i \/ p.code[j].op # "setcallee"
           \/ \E k \in run : Loses(p.code[k]) \/ reaches(k, tidy)
        THEN Nothing
        ELSE IF \E k \in run : Moves(p.code[k]) \/ reaches(k, quiet) THEN SomeSlot
        ELSE p.height[j] - 1

Known(p, tidy, quiet, fresh) ==
    [i \in Code(p) |-> KnownAt(p, tidy, quiet, i,
        CHOOSE j \in 1..i :
            /\ j \in fresh \/ (j < i /\ p.code[j].op = "setcallee")
            /\ \A k \in (j + 1)..i : k \notin fresh /\ (k < i => p.code[k].op # "setcallee"))]

Need(p) ==
    LET calls == Calling(p)
        most(e, below) ==
            Most({p.entries[e].locals}
                 \cup {p.height[i] + 1 : i \in Body_(p, e)}
                 \cup {Ahead(p, c[1]) + below[c[2]] : c \in {c \in calls : InMethod(p, e, c[1])}})
        add(needs, d) ==
            IF needs = <<>> THEN <<[e \in DOMAIN p.entries |-> p.entries[e].locals]>>
            ELSE <<[e \in DOMAIN p.entries |-> most(e, needs[1])]>> \o needs
    IN  FoldLeft(add, <<>>, [d \in 1..MaxCalls |-> d])

\* what the theorems about Runner assume of programs
ASSUME VerifiedAssumption ==
    \A p \in CallPrograms \cup ReceiverPrograms \cup NestedPrograms \cup SelfPrograms \cup CtorPrograms :
        Verified(p)
ASSUME NestedAssumption == \A p \in CallPrograms : Nested(p)

Certified(p, Test(_)) ==
    \A tidy \in {Tidy(p)}, quiet \in {Quiet(p)}, fresh \in {Fresh(p)} :
        \A known \in {Known(p, tidy, quiet, fresh)} :
            Test([known |-> known, tidy |-> tidy, quiet |-> quiet])
ASSUME ReceiverAssumption ==
    \A p \in ReceiverPrograms : Certified(p, LAMBDA reg : Tracked(p, reg) /\ Dispatches(p, reg))
ASSUME RoomAssumption ==
    \A p \in CallPrograms :
        /\ Certified(p, LAMBDA reg : Tracked(p, reg))
        /\ \A need \in {Need(p)} : Roomy(p, need)
================================================================================
