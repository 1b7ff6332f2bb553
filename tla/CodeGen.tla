-------------------------------- MODULE CodeGen --------------------------------
(***************************************************************************)
(* The code generator (compiler/code_gen.h): what it emits for each kind   *)
(* of syntax node, as an operator from the code of the node's children to  *)
(* the code of the node, and how methods are laid out into a program.      *)
(*                                                                         *)
(* A piece of code is a sequence of instructions whose jumps are relative  *)
(* until Link makes them absolute.  The comma nodes the tree builder       *)
(* leaves between parameters, arguments and items are children as well:    *)
(* they emit nothing and are counted (args(), children.size()).            *)
(***************************************************************************)
EXTENDS Runner

LOCAL INSTANCE SequencesExt
LOCAL INSTANCE TLC

(***************************************************************************)
(* Instructions.                                                           *)
(***************************************************************************)
I(op) == [op |-> op, v |-> Empty, k |-> 0, n |-> 0, name |-> "", mode |-> "plain",
          arity |-> 0, marks |-> <<>>]
Ld(v) == [I("ld") EXCEPT !.v = v]
Local(op, slot) == [I(op) EXCEPT !.k = slot]
Rel(op, offset) == [I(op) EXCEPT !.k = offset]
Send(name, n) == [I("vcall") EXCEPT !.name = name, !.n = n]

(***************************************************************************)
(* Expressions.  Arguments and items are given with the commas between     *)
(* them.                                                                   *)
(***************************************************************************)
Comma == <<>>
emit_literal(v) == <<Ld(v)>>
emit_null == <<Ld(Null)>>
emit_ident(slot) == <<Local("ldloc", slot)>>
emit_this == <<I("ldthis")>>
emit_memberaccess(obj) == obj \o <<I("ldprop")>>
emit_op(left, right, op, name) == left \o right \o <<[I(op) EXCEPT !.name = name]>>
emit_newarr(items) == FlattenSeq(Reverse(items)) \o <<[I("newarr") EXCEPT !.n = Len(items)]>>
emit_newobj(class, args) ==
    FlattenSeq(args) \o <<[I("newobj") EXCEPT !.name = class, !.n = Len(args)]>>

\* receiver.name(args)
emit_callmember(receiver, name, args) ==
    receiver \o <<I("setcallee")>> \o FlattenSeq(args) \o <<Send(name, Len(args))>>

\* name(args) of a native function, of a static method, of this object
emit_syscall(mode, arity, args) ==
    FlattenSeq(args) \o <<[I("syscall") EXCEPT !.mode = mode, !.arity = arity]>>
emit_callstatic(entry, args) ==
    FlattenSeq(args) \o <<[I("call") EXCEPT !.k = entry, !.n = Len(args)]>>
emit_call(name, args) ==
    FlattenSeq(args) \o <<I("ldthis"), I("setcallee"), Send(name, Len(args))>>

(***************************************************************************)
(* Statements.                                                             *)
(***************************************************************************)
emit_pop(expression) == expression \o <<I("pop")>>
emit_assignment(slot, value) == value \o <<Local("stloc", slot)>>
emit_assignprop(obj, value) == value \o obj \o <<I("stprop")>>
emit_return(value) == value \o <<I("ret")>>
emit_throw(value) == value \o <<I("throw")>>
emit_block(statements) == FlattenSeq(statements) \o <<I("nop")>>

emit_if(cond, then, else) ==
    cond \o <<Rel("jmp_false", Len(then) + 2)>> \o then
         \o <<Rel("jmp", Len(else) + 1)>> \o else

emit_while(cond, body) ==
    <<I("nop")>> \o cond \o <<Rel("jmp_false", Len(body) + 2)>> \o body
                 \o <<Rel("jmp", -(Len(cond) + Len(body) + 1))>>

emit_for(init, cond, increment, body) ==
    init \o <<Rel("jmp", Len(body) + Len(increment) + 2)>>
         \o body \o increment \o <<I("nop")>>
         \o cond \o <<Rel("jmp_true", -(Len(body) + Len(increment) + Len(cond) + 1))>>

\* The iterator stays on the stack while the body runs.  Left out: several variables,
\* where the comma between them is read as one (code_gen.h:1050).
emit_foreach(slot, collection, body) ==
    collection \o <<I("setcallee"), Send("get_iterator", 0)>>
               \o <<I("dup"), I("setcallee"), Send("current", 0), Local("stloc", slot)>>
               \o body
               \o <<I("dup"), I("setcallee"), Send("move_next", 0),
                    Rel("jmp_true", -(Len(body) + 7)), I("pop")>>

\* begin_try, end_try, begin_catch happen before an instruction, end_catch after one
Mark(code, i, mark) ==
    [code EXCEPT ![i].marks = IF mark = "end_catch" THEN Append(@, mark) ELSE <<mark>> \o @]

\* emit_try and emit_catch; the exception goes to a local of the catch block.
\* The jump over the catch block gets its target from end_catch.
emit_try(body, slot, block) ==
    LET catch == <<Local("stloc", slot)>> \o block
    IN  Mark(body, 1, "begin_try") \o <<[I("jmp") EXCEPT !.marks = <<"end_try">>]>>
          \o Mark(Mark(catch, 1, "begin_catch"), Len(catch), "end_catch")

(***************************************************************************)
(* Methods.                                                                *)
(***************************************************************************)
\* a parameter slot that may have a default value
DefaultParam(slot, value) ==
    <<Local("ldloc", slot), Ld(Empty), [I("equal") EXCEPT !.name = "equal"], Rel("jmp_false", Len(value) + 2)>>
      \o value \o <<Local("stloc", slot)>>

\* emit_method: params counts the children of the parameter list
emit_method(params, locals, body) ==
    [params |-> params, locals |-> locals, va_args |-> FALSE, expects |-> {},
     code |-> body \o <<Ld(Null), I("ret")>>]
emit_va_method(params, locals, body) ==
    [emit_method(params, locals,
        <<I("param_to_arr"), I("dup"), Local("stloc", params - 1)>> \o body)
     EXCEPT !.va_args = TRUE]

emit_bootstrap == [params |-> 0, locals |-> 0, va_args |-> FALSE, expects |-> {},
                   code |-> <<[I("call") EXCEPT !.k = 2], I("nop"), I("ret")>>]

(***************************************************************************)
(* The table of exception handlers, written while the code is emitted: the *)
(* calls of begin_try .. end_catch, each with the cursor at that moment.   *)
(***************************************************************************)
TryCalls(code) ==
    FlattenSeq([i \in 1..Len(code) |->
        [j \in 1..Len(code[i].marks) |->
            [mark |-> code[i].marks[j],
             at |-> IF code[i].marks[j] = "end_catch" THEN i + 1 ELSE i]]])

\* ep counts the open try blocks and is an index into all handlers; jumps are the
\* targets end_catch has given
Record(t, call) ==
    CASE call.mark = "begin_try" ->
           [t EXCEPT !.handlers = Append(@, [begin |-> call.at, end |-> 0, catch |-> 0]),
                     !.ep = @ + 1]
      [] call.mark = "end_try" -> [t EXCEPT !.handlers[t.ep].end = call.at, !.ep = @ - 1]
      [] call.mark = "begin_catch" -> [t EXCEPT !.handlers[t.ep + 1].catch = call.at]
      [] OTHER -> [t EXCEPT !.jumps = (t.handlers[t.ep + 1].catch - 1) :> call.at @@ @]
Table(code) ==
    LET calls == TryCalls(code)
        table[i \in 0..Len(calls)] ==
            IF i = 0 THEN [handlers |-> <<>>, ep |-> 0, jumps |-> <<>>]
            ELSE Record(table[i - 1], calls[i])
    IN  table[Len(calls)]

\* what the table should say: each try block with its own catch block
Enclose(t, call) ==
    CASE call.mark = "begin_try" -> [t EXCEPT !.open = Append(@, call.at)]
      [] call.mark = "end_try" ->
           [open |-> Front(t.open),
            tries |-> t.tries \cup {[begin |-> Last(t.open), end |-> call.at,
                                     catch |-> call.at + 1]}]
      [] OTHER -> t
Tries(code) ==
    LET calls == TryCalls(code)
        found[i \in 0..Len(calls)] ==
            IF i = 0 THEN [open |-> <<>>, tries |-> {}] ELSE Enclose(found[i - 1], calls[i])
    IN  found[Len(calls)].tries

Jumps == {"jmp", "jmp_true", "jmp_false"}

\* the code of the methods one after the other
Laid(all) == FlattenSeq([e \in 1..Len(all) |-> all[e].code])

\* jumps is what end_catch has filled in; other jumps get their targets here
Absolute(code, jumps) ==
    [i \in 1..Len(code) |->
       CASE i \in DOMAIN jumps -> [code[i] EXCEPT !.k = jumps[i]]
         [] i \notin DOMAIN jumps /\ code[i].op \in Jumps -> [code[i] EXCEPT !.k = @ + i]
         [] OTHER -> code[i]]

\* the operands of the activation when each instruction is fetched
HeightsOf(all, start, code, tries) ==
    LET h[i \in 1..Len(code)] ==
            IF \E e \in 1..Len(all) : start[e] = i
            THEN LET e == CHOOSE e \in 1..Len(all) : start[e] = i
                 IN  all[e].params + Fills(all[e].locals - all[e].params)
            ELSE IF \E t \in tries : t.catch = i
            THEN LET t == CHOOSE t \in tries : t.catch = i IN h[t.begin] + 1
            ELSE h[i - 1] + Effect(code[i - 1])
    IN  [i \in 1..Len(code) |-> h[i]]

\* program_builder::fin: the methods one after the other, their numbers as in the source; vtable maps
\* each class to the methods its objects respond to
Link(methods, vtable) ==
    LET all == <<emit_bootstrap>> \o methods
        code == Laid(all)
        start == [e \in 1..Len(all) |-> 1 + Len(Laid(SubSeq(all, 1, e - 1)))]
        table == Table(code)
        tries == Tries(code)
    IN  [entries |-> [e \in 1..Len(all) |->
                        [start |-> start[e], params |-> all[e].params,
                         locals |-> all[e].locals, va_args |-> all[e].va_args,
                         expects |-> all[e].expects]],
         vtable |-> vtable, handlers |-> table.handlers, tries |-> tries,
         code |-> Absolute(code, table.jumps),
         height |-> HeightsOf(all, start, code, tries)]

NativeMethod == [kind |-> "native", entry |-> 0]
ScriptMethod(entry) == [kind |-> "script", entry |-> entry]
================================================================================
