-------------------------------- MODULE Verifier --------------------------------
(***************************************************************************)
(* What the interpreter relies on in a compiled program.  The VM verifies  *)
(* nothing when it loads one; these are conditions on each instruction and *)
(* those that may follow it, as a verifier of bytecode would check them.   *)
(***************************************************************************)
EXTENDS Runner

Code(p) == 1..Len(p.code)

\* The code of a method goes from its first instruction to that of the next method.
InMethod(p, e, i) ==
    /\ i \in Code(p) /\ p.entries[e].start <= i
    /\ \A f \in DOMAIN p.entries : p.entries[e].start < p.entries[f].start => i < p.entries[f].start

\* handlers that are looked up when an exception is found at i
AroundAt(p, i) == {j \in 1..Len(p.handlers) : p.handlers[j].begin <= i /\ i < p.handlers[j].end}
Caught(p, i) == 1 \in AroundAt(p, i)
LastAround(p, i) == CHOOSE h \in AroundAt(p, i) : \A j \in AroundAt(p, i) : j <= h
CatchAt(p, i) == p.handlers[LastAround(p, i)].catch

Branches == {"jmp", "jmp_true", "jmp_false"}
Stops == {"jmp", "ret", "throw"}

\* A C++ exception is never caught by the program: none of the instructions that throw one,
\* a property access on no object and the entry of a call that is too deep, is in a try block.
Guarded(p) ==
    /\ \A e \in DOMAIN p.entries : ~Caught(p, p.entries[e].start)
    /\ \A i \in Code(p) : p.code[i].op \in {"ldprop", "stprop"} => ~Caught(p, i + 1)

\* instructions that may raise an exception besides throw, in themselves or because
\* the call they make is refused
MayRaise(i) ==
    \/ i.op \in {"ldprop", "stprop", "vcall", "arith", "equal", "call", "newobj"}
    \/ i.op = "syscall" /\ i.mode = "fails"

\* The operands are as many as the compiler has counted, wherever i goes on.
Heights(p, e, i) ==
    LET inst == p.code[i]
        h == p.height[i]
    IN  /\ h \in Nat /\ h >= Needs(inst)
        /\ inst.op \notin Stops =>
             InMethod(p, e, i + 1) /\ p.height[i + 1] = h + Effect(inst)
        /\ inst.op \in Branches =>
             InMethod(p, e, inst.k) /\ p.height[inst.k] = h + Effect(inst)
        /\ inst.op = "ret" => h = p.entries[e].locals + 1
        /\ inst.op = "newobj" =>
             inst.n = 0 \/ (inst.name \in DOMAIN p.vtable /\ "_ctor" \in DOMAIN p.vtable[inst.name])

\* Only throw is caught, with nothing more on the stack than at the try; no arguments are
\* collected.
Raises(p, e, i) ==
    LET inst == p.code[i]
    IN  /\ MayRaise(inst) => ~Caught(p, i + 1)
        /\ inst.op = "throw" /\ Caught(p, i + 1) =>
             InMethod(p, e, CatchAt(p, i + 1)) /\ p.height[CatchAt(p, i + 1)] = p.height[i]
        /\ inst.op # "param_to_arr"

Verified(p) ==
    /\ Guarded(p)
    /\ p.entries[1].locals = 0
    /\ \A e \in DOMAIN p.entries :
           /\ InMethod(p, e, p.entries[e].start)
           /\ p.height[p.entries[e].start] = p.entries[e].locals
           /\ p.entries[e].params <= p.entries[e].locals /\ ~p.entries[e].va_args
           /\ \A i \in Code(p) : InMethod(p, e, i) => Heights(p, e, i) /\ Raises(p, e, i)

(***************************************************************************)
(* Calls: which methods an instruction may enter, and how far above the    *)
(* base of the running method their arguments begin.                       *)
(***************************************************************************)
Asked(inst) ==
    CASE inst.op \in {"vcall", "arith", "equal"} -> {inst.name}
      [] inst.op = "newobj" -> {"_ctor"}
      [] inst.op = "syscall" /\ inst.mode = "prints" -> {"to_string"}
      [] OTHER -> {}

Enters(p, i, e) ==
    \/ p.code[i].op = "call" /\ p.code[i].k = e
    \/ \E c \in DOMAIN p.vtable : \E name \in Asked(p.code[i]) \cap DOMAIN p.vtable[c] :
         p.vtable[c][name].entry = e

Ahead(p, i) ==
    LET inst == p.code[i]
    IN  CASE inst.op \in {"call", "vcall"} -> p.height[i] - inst.n
          [] inst.op \in {"arith", "equal"} -> p.height[i] - 1
          [] inst.op = "newobj" -> p.height[i] + 1 - inst.n
          [] OTHER -> p.height[i] + 1

(***************************************************************************)
(* The callee register.  known[i] is what is known of it at i: nothing,    *)
(* that it points to some slot, or to which operand of the running method. *)
(* A quiet method leaves the register as it is, a tidy one leaves it at a  *)
(* slot if it was at one.                                                  *)
(***************************************************************************)
Nothing == -1
SomeSlot == -2
Moves(inst) ==   \* it may point to another slot then
    \/ inst.op \in {"setcallee", "newobj"}
    \/ inst.op = "syscall" /\ inst.mode = "prints"
Loses(inst) ==   \* or to none
    inst.op \in {"arith", "equal", "add"}

Carried(p, reg, i, x) ==
    x # Nothing =>
        IF p.code[i].op = "setcallee" THEN x \in {SomeSlot, p.height[i] - 1}
        ELSE /\ reg.known[i] # Nothing /\ ~Loses(p.code[i])
             /\ \A e \in DOMAIN p.entries : Enters(p, i, e) => e \in reg.tidy
             /\ x # SomeSlot =>
                  /\ x = reg.known[i] /\ ~Moves(p.code[i])
                  /\ \A e \in DOMAIN p.entries : Enters(p, i, e) => e \in reg.quiet

Tracked(p, reg) ==
    /\ reg.quiet \subseteq reg.tidy
    /\ \A e \in DOMAIN p.entries :
         /\ reg.known[p.entries[e].start] = Nothing
         /\ \A i \in Code(p) : InMethod(p, e, i) =>
              LET inst == p.code[i]
              IN  /\ reg.known[i] \in Nat \cup {Nothing, SomeSlot}
                  /\ inst.op = "vcall" => reg.known[i] # Nothing
                  /\ inst.op \notin Stops => Carried(p, reg, i, reg.known[i + 1])
                  /\ inst.op \in Branches => Carried(p, reg, i, reg.known[inst.k])
                  /\ inst.op = "throw" /\ Caught(p, i + 1) => reg.known[CatchAt(p, i + 1)] = Nothing
                  /\ e \in reg.tidy =>
                       /\ ~Loses(inst)
                       /\ \A f \in DOMAIN p.entries : Enters(p, i, f) => f \in reg.tidy
                  /\ e \in reg.quiet =>
                       /\ ~Moves(inst)
                       /\ \A f \in DOMAIN p.entries : Enters(p, i, f) => f \in reg.quiet

\* op_vcall finds the register under its arguments; constructors are methods that take none,
\* so that the new object is where a receiver is.
Dispatches(p, reg) ==
    /\ \A e \in DOMAIN p.entries : \A i \in Code(p) : InMethod(p, e, i) =>
         /\ p.code[i].op = "vcall" => reg.known[i] = p.height[i] - 1 - p.code[i].n
         /\ p.code[i].op = "newobj" => p.code[i].n = 0
    /\ \A c \in DOMAIN p.vtable :
         "_ctor" \in DOMAIN p.vtable[c] => p.vtable[c]["_ctor"].kind = "script"

(***************************************************************************)
(* Room.  need[d][e] slots are enough for method e when it is called with  *)
(* d frames on the call stack, and for all that it calls.                  *)
(***************************************************************************)
UsesThis(p, e) == \E i \in Code(p) : p.code[i].op = "ldthis" /\ InMethod(p, e, i)

Fitting(p, need, e, i) ==
    /\ p.code[i].op \in {"ldloc", "stloc"} => p.code[i].k < p.height[i]
    /\ \A d \in 1..(MaxCalls - 1) : p.height[i] < need[d][e]
    /\ \A f \in DOMAIN p.entries : Enters(p, i, f) =>
         /\ UsesThis(p, f) => Ahead(p, i) > 0
         /\ \A d \in 1..(MaxCalls - 1) : Ahead(p, i) + need[d + 1][f] <= need[d][e]

Roomy(p, need) ==
    /\ need[1][1] <= StackSize /\ ~UsesThis(p, 1)
    /\ \A e \in DOMAIN p.entries :
         /\ \A d \in 1..MaxCalls : need[d][e] \in Nat /\ p.entries[e].locals <= need[d][e]
         /\ \A i \in Code(p) : InMethod(p, e, i) => Fitting(p, need, e, i)

(***************************************************************************)
(* Handlers of a program are in the order of their try blocks, an inner    *)
(* one after the one around it, and all of them inside the first.          *)
(***************************************************************************)
Inside(t, u) == u.begin <= t.begin /\ t.end <= u.end
Apart(t, u) == t.end <= u.begin \/ u.end <= t.begin
Nested(p) ==
    /\ p.tries = {p.handlers[h] : h \in 1..Len(p.handlers)}
    /\ \A h \in 1..Len(p.handlers) :
         /\ p.handlers[h].begin \in Nat /\ p.handlers[h].end \in Nat
         /\ Inside(p.handlers[h], p.handlers[1])
         /\ \A g \in 1..h : Inside(p.handlers[h], p.handlers[g]) \/ Apart(p.handlers[h], p.handlers[g])

\* op_add finds two numbers: with anything else it leaves its left operand on the stack.
AddsNumbers == Looping /\ pc \in Code(prog) /\ Inst.op = "add" => Numbers
================================================================================
