-------------------------------- MODULE Runner --------------------------------
(***************************************************************************)
(* The bytecode interpreter (compiler/runner.cpp) and its call protocol:   *)
(* one flat value stack shared by every activation, a stack of call        *)
(* frames, the callee register that op_setcallee loads and op_vcall reads, *)
(* and the C++ recursion of runner::run_entry, which every call - from     *)
(* bytecode, from a constructor or from a native function - enters once    *)
(* more.                                                                   *)
(*                                                                         *)
(* The program is picked from Programs when the VM starts.  Data are       *)
(* abstract: arithmetic and comparison yield any member of Results, a      *)
(* property holds any member of Results, objects are model values with a   *)
(* class.  Stack slots are numbered from 0, instructions from 1.           *)
(***************************************************************************)
EXTENDS Integers, Sequences, FiniteSets

CONSTANTS
    Programs,    \* the compiled programs [code, entries, vtable, handlers,
                 \* tries, height]
    Objects,     \* addresses of script objects
    ClassOf,     \* their classes
    Scalars,     \* numbers and booleans, which the model does not tell apart
    Results,     \* what arithmetic and property reads may yield
    NativeMethods, \* what values of no script class respond to
    TrueV, FalseV, Null, Empty, Array, Exception,
    StackSize,   \* vstack.h: 1024
    MaxCalls     \* run_entry: 150

None == -1              \* no slot
NoException == "none"   \* nullptr
Value == Objects \cup Scalars \cup {Null, Empty, Array, Exception}

ASSUME ValuesAssumption ==
    /\ {TrueV, FalseV} \subseteq Scalars
    /\ Objects \cap (Scalars \cup {Null, Empty, Array, Exception}) = {}
    /\ Results \subseteq Value /\ Results # {}
    /\ IsFiniteSet(Objects)
ASSUME SizesAssumption == StackSize \in Nat \ {0} /\ MaxCalls \in Nat \ {0}

\* what every program is: its jumps, calls and methods lead somewhere, and a native
\* function that prints has something to print
ProgramType(p) ==
    /\ Len(p.code) \in Nat /\ Len(p.handlers) \in Nat
    /\ 1 \in DOMAIN p.entries /\ DOMAIN p.entries \subseteq Nat
    /\ \A i \in 1..Len(p.code) :
         LET inst == p.code[i]
         IN  /\ inst.v \in Value /\ {inst.k, inst.n, inst.arity} \subseteq Nat
             /\ inst.op \in {"jmp", "jmp_true", "jmp_false"} => inst.k > 0
             /\ inst.op = "call" => inst.k \in DOMAIN p.entries
             /\ inst.mode = "prints" => inst.arity > 0
    /\ \A e \in DOMAIN p.entries :
         /\ p.entries[e].start \in Nat \ {0}
         /\ p.entries[e].params \in Nat /\ p.entries[e].locals \in Nat
    /\ \A o \in Objects :
         /\ ClassOf[o] \in DOMAIN p.vtable
         /\ \A name \in DOMAIN p.vtable[ClassOf[o]] :
              LET method == p.vtable[ClassOf[o]][name]
              IN  /\ method \in [kind : {"script", "native"}, entry : Nat]
                  /\ method.kind = "script" \/ name = "_ctor" => method.entry \in DOMAIN p.entries
    /\ \A h \in 1..Len(p.handlers) : p.handlers[h].catch \in Nat \ {0}

ASSUME ProgramsAssumption == \A p \in Programs : ProgramType(p)

VARIABLES
    prog,        \* the loaded program
    pc, bp, current_entry,
    buf, ptr,    \* vstack: the slots and how many are in use
    callstack,   \* runner::callstack
    host,        \* activations of run_entry: the call depth it was entered at
                 \* and what its C++ caller does when it returns
    callee,      \* the slot callee_ptr points to, None when it points elsewhere
    exception,   \* the exception register
    status       \* "run", "done", "aborted", "fault" (undefined or failed assert)

registers == <<pc, bp, current_entry>>
stackvars == <<buf, ptr>>
vars == <<prog, registers, stackvars, callstack, host, callee, exception, status>>

Entry(e) == prog.entries[e]
Inst == prog.code[pc]
Fills(n) == IF n > 0 THEN n ELSE 0

\* runner::execute: the bootstrap entry in the outermost run_entry
Init ==
    /\ prog \in Programs
    /\ current_entry = 1
    /\ pc = Entry(1).start /\ bp = 0
    /\ buf = [i \in 0..(StackSize - 1) |-> Empty] /\ ptr = 0
    /\ callstack = <<[pc |-> Entry(1).start, bp |-> 0, entry |-> 1]>>
    /\ host = <<[depth |-> 1, then |-> "none", arity |-> 0]>>
    /\ callee = None
    /\ exception = NoException
    /\ status = "run"

(***************************************************************************)
(* What an instruction takes from the stack, and how far it grows it.      *)
(***************************************************************************)
Needs(i) ==
    CASE i.op \in {"stloc", "dup", "pop", "ldprop", "jmp_true", "jmp_false", "ret",
                   "throw", "setcallee"} -> 1
      [] i.op \in {"binary", "equal", "arith", "add", "stprop"} -> 2
      [] i.op \in {"call", "newobj", "newarr"} -> i.n
      [] i.op = "vcall" -> i.n + 1
      [] i.op = "syscall" -> i.arity
      [] OTHER -> 0

\* the net effect on the height of the stack, once the instruction is done
Effect(i) ==
    CASE i.op \in {"ld", "ldthis", "ldloc", "dup"} -> 1
      [] i.op \in {"stloc", "pop", "binary", "equal", "arith", "add", "jmp_true", "jmp_false",
                   "ret", "throw"} -> -1
      [] i.op = "stprop" -> -2
      [] i.op \in {"call", "newobj", "newarr"} -> 1 - i.n
      [] i.op = "vcall" -> -i.n
      [] i.op = "syscall" -> 1 - i.arity
      [] OTHER -> 0

\* mutant: one call frame too far
LoopingPast ==
    status = "run" /\ exception = NoException /\ Len(callstack) + 1 >= host[Len(host)].depth

\* the loop condition of run_entry, after the exception checks
Looping == status = "run" /\ exception = NoException /\ Len(callstack) >= host[Len(host)].depth

Slots == 0..(StackSize - 1)

\* the slots an instruction reads besides its operands exist
InRange(i) ==
    /\ i.op = "ldthis" => bp > 0
    /\ i.op = "ldloc" => bp + i.k < ptr
    /\ i.op = "stloc" => bp + i.k < StackSize
    /\ i.op = "vcall" => callee # None
    /\ i.op = "ret" => ptr > Entry(callstack[Len(callstack)].entry).locals
    /\ i.op = "param_to_arr" =>
         ptr - callstack[Len(callstack)].bp - Entry(current_entry).params + 1 \in 0..ptr

\* one more value than the instruction's operands fits on the stack
Fits(i) == Needs(i) <= ptr /\ ptr < StackSize /\ InRange(i)

\* the switch of run_entry
Fetch(op) ==
    /\ Looping /\ pc <= Len(prog.code)
    /\ Inst.op = op /\ Fits(Inst)
Advance == pc' = pc + 1 /\ UNCHANGED <<prog, bp, current_entry, callstack, host>>

\* the n topmost values give way to v
Replaced(n, v) == [buf EXCEPT ![ptr - n] = v]
Shift(n, v) == buf' = Replaced(n, v) /\ ptr' = ptr - n + 1
Dropped(n) == buf' = buf /\ ptr' = ptr - n
Arg(n) == buf[ptr - 1 - n]

(***************************************************************************)
(* Leaving a call.                                                         *)
(***************************************************************************)
\* _vcall after programcall: the result takes the slot under it
Folded(b, p) == [b EXCEPT ![p - 2] = b[p - 1]]

\* mutant: a vcall that leaves the receiver under the result
AfterUnfolded(then, arity, b, p) ==
    IF then = "native" THEN <<[Folded(b, p) EXCEPT ![p - 2 - arity] = Null], p - 1 - arity>>
    ELSE <<b, p>>

\* What the C++ caller of run_entry does with a stack b of p values: nothing
\* (op_call); fold (op_vcall, op_newobj, operators); or fold, pop, and then
\* finish the native function of that arity, which returns null.
After(then, arity, b, p) ==
    CASE then = "none" -> <<b, p>>
      [] then = "fold" -> <<Folded(b, p), p - 1>>
      [] then = "native" -> <<[Folded(b, p) EXCEPT ![p - 2 - arity] = Null],
                              p - 1 - arity>>

Finish(then, arity, b, p) ==
    LET s == After(then, arity, b, p) IN buf' = s[1] /\ ptr' = s[2]

\* A C++ exception unwinds the run_entry activations down to the nearest native
\* function, where runner::syscall catches it; without one it ends the program.
\* Neither the call frames nor pc and bp are unwound.  inNative: it is thrown
\* below a native function called from the topmost run_entry.
NativeHosts == {j \in 1..Len(host) : host[j].then = "native"}
Catcher(inNative) ==
    IF inNative THEN Len(host)
    ELSE (CHOOSE j \in NativeHosts : \A k \in NativeHosts : k <= j) - 1

CppThrow(inNative) ==
    IF inNative \/ NativeHosts # {}
    THEN /\ host' = SubSeq(host, 1, Catcher(inNative))
         /\ exception' = "thrown" /\ status' = status
    ELSE /\ status' = "aborted" /\ UNCHANGED <<host, exception>>

(***************************************************************************)
(* runner::programcall on a stack b of p values, n of them arguments.      *)
(***************************************************************************)
Bound(e, n) == IF n < Entry(e).params THEN Entry(e).params ELSE n
Locals(e) == Fills(Entry(e).locals - Entry(e).params)

\* mutants: the locals start at the receiver; above the first argument; at the
\* last arguments, as many as the method declares
FirstSlotAtThis(e, p, n) == p - n - 1
FirstSlotLate(e, p, n) == p - n + 1
FirstSlotOfParams(e, p, n) == p - Entry(e).params

\* where the callee's locals start: at its first argument
FirstSlot(e, p, n) == p - n

\* mutant: the caller makes the call again
ResumeAtCall == pc

\* push_callframe: where the caller goes on
Resume == pc + 1

\* mutant: no limit
TooDeepNever(depth) == FALSE

\* run_entry: "Stack too deep"
TooDeep(depth) == depth >= MaxCalls

EnterFrame(e, n, b, p, then, arity) ==
    LET args == Bound(e, n)
        base == FirstSlot(e, p, n)
        size == base + args + Locals(e)
    IN  IF size > StackSize
        THEN /\ status' = "fault"
             /\ UNCHANGED <<prog, registers, stackvars, callstack, host, exception>>
        ELSE /\ buf' = [i \in Slots |-> IF i \in p..(size - 1) THEN Empty ELSE b[i]]
             /\ ptr' = size
             /\ callstack' = Append(callstack, [pc |-> Resume, bp |-> bp, entry |-> e])
             /\ pc' = Entry(e).start /\ bp' = base /\ current_entry' = e
             /\ prog' = prog
             /\ IF TooDeep(Len(callstack) + 1)
                THEN CppThrow(then = "native")
                ELSE /\ host' = Append(host, [depth |-> Len(callstack) + 1,
                                              then |-> then, arity |-> arity])
                     /\ UNCHANGED <<exception, status>>

ProgramCall(e, n, b, p, then, arity) ==
    IF n > Entry(e).params /\ ~Entry(e).va_args
    THEN /\ exception' = "too many parameters"
         /\ Finish(then, arity, b, p) /\ Advance /\ UNCHANGED status
    ELSE EnterFrame(e, n, b, p, then, arity)

Raise(kind, b, p) ==
    /\ exception' = kind
    /\ buf' = b /\ ptr' = p
    /\ Advance /\ UNCHANGED status

\* runner::syscall.  A native function replaces its arguments by its result, in
\* the slot of the first one, however many the call site passed; "fails" may
\* throw instead and then leaves them; "prints" calls the to_string of a script
\* object (exe_context::call).
HasMethod(v, name) == v \in Objects /\ name \in DOMAIN prog.vtable[ClassOf[v]]
Method(v, name) == prog.vtable[ClassOf[v]][name]
Scripted(v, name) == HasMethod(v, name) /\ Method(v, name).kind = "script"

NativeReturn(arity, b, p, r) ==
    /\ buf' = [b EXCEPT ![p - arity] = r] /\ ptr' = p - arity + 1
    /\ Advance /\ UNCHANGED <<exception, status>>

Native(mode, arity, b, p) ==
    IF mode = "prints" /\ Scripted(b[p - 1], "to_string")
    THEN /\ callee' = p
         /\ ProgramCall(Method(b[p - 1], "to_string").entry, 0,
                        [b EXCEPT ![p] = b[p - 1]], p + 1, "native", arity)
    ELSE /\ callee' = callee
         /\ \/ \E r \in Results : NativeReturn(arity, b, p, r)
            \/ mode = "fails" /\ Raise("native", b, p)

(***************************************************************************)
(* runner::_vcall on receiver v.  A number is boxed first: the topmost     *)
(* value, whatever it is, is read as a number, which the model takes for   *)
(* the same number.                                                        *)
(***************************************************************************)
Responds(v, name) ==
    IF v \in Objects THEN HasMethod(v, name) ELSE name \in NativeMethods

VCallOn(v, name, n, b, p, c) ==
    /\ callee' = c
    /\ CASE v \in {Null, Empty} -> Raise("null pointer", b, p)
         [] v \notin {Null, Empty} /\ ~Responds(v, name) ->
              Raise("method not found", b, p)
         [] Scripted(v, name) ->
              ProgramCall(Method(v, name).entry, n, b, p, "fold", 0)
         [] OTHER -> \/ \E r \in Results : NativeReturn(n + 1, b, p, r)
                     \/ Raise("native", b, p)

--------------------------------------------------------------------------------
(***************************************************************************)
(* The instructions.                                                       *)
(***************************************************************************)
Plain == Advance /\ UNCHANGED <<callee, exception, status>>

\* op_ldi, op_ldf, op_ldstr, op_ldnull, op_ldempty, op_ldtrue, op_ldfalse, op_ldtype
Load == Fetch("ld") /\ Shift(0, Inst.v) /\ Plain

LoadThis == Fetch("ldthis") /\ Shift(0, buf[bp - 1]) /\ Plain

LoadLocal == Fetch("ldloc") /\ Shift(0, buf[bp + Inst.k]) /\ Plain

StoreLocal ==
    /\ Fetch("stloc")
    /\ buf' = [buf EXCEPT ![bp + Inst.k] = Arg(0)] /\ ptr' = ptr - 1
    /\ Plain

Dup == Fetch("dup") /\ Shift(0, Arg(0)) /\ Plain
Pop == Fetch("pop") /\ Dropped(1) /\ Plain
Nop == Fetch("nop") /\ Dropped(0) /\ Plain

\* op_and, op_or, op_l, op_g, op_le, op_ge, op_eqtype
Binary == Fetch("binary") /\ (\E r \in Results : Shift(2, r)) /\ Plain

\* op_sub, op_mul, op_div: unless both operands are numbers, a method of the left
\* one (numbers have none); an overflow or a division by zero is an exception
Numbers == {Arg(0), Arg(1)} \subseteq Scalars
Arith ==
    /\ Fetch("arith")
    /\ IF Numbers
       THEN \/ (\E r \in Results : Shift(2, r)) /\ Plain
            \/ callee' = callee /\ Raise("arithmetic", buf, ptr - 2)
       ELSE VCallOn(Arg(1), Inst.name, 1, buf, ptr, None)

\* op_add leaves its left operand where it was and pushes it again
Add ==
    /\ Fetch("add")
    /\ IF Numbers
       THEN (\E r \in Results : Shift(2, r)) /\ Plain
       ELSE VCallOn(Arg(1), Inst.name, 1,
                    [buf EXCEPT ![ptr - 1] = Arg(1), ![ptr] = Arg(0)], ptr + 1, None)

\* op_eq: values of the same payload are equal, two different objects are
\* compared by the left one's method; Array and Exception stand for many objects
IsObject(v) == v \in Objects \cup {Array, Exception}
MayBeSame == Arg(0) = Arg(1)
MayDiffer == Arg(0) # Arg(1) \/ Arg(0) \in {Array, Exception}
Equal ==
    /\ Fetch("equal")
    /\ \/ MayBeSame /\ Shift(2, TrueV) /\ Plain
       \/ /\ MayDiffer /\ IsObject(Arg(0)) /\ IsObject(Arg(1))
          /\ VCallOn(Arg(1), Inst.name, 1, buf, ptr, None)
       \/ /\ MayDiffer /\ ~(IsObject(Arg(0)) /\ IsObject(Arg(1)))
          /\ Shift(2, FalseV) /\ Plain

\* op_ldprop, op_stprop: on anything but an object a C++ exception
LoadProp ==
    /\ Fetch("ldprop")
    /\ IF Arg(0) \in Objects \cup {Array, Exception}
       THEN (\E r \in Results : Shift(1, r)) /\ Plain
       ELSE Dropped(1) /\ CppThrow(FALSE)
            /\ pc' = pc + 1
            /\ UNCHANGED <<prog, bp, current_entry, callstack, callee>>

StoreProp ==
    /\ Fetch("stprop") /\ Dropped(2)
    /\ IF Arg(0) \in Objects \cup {Array, Exception}
       THEN Plain
       ELSE CppThrow(FALSE)
            /\ pc' = pc + 1
            /\ UNCHANGED <<prog, bp, current_entry, callstack, callee>>

\* op_newarr, op_newdic
NewArr == Fetch("newarr") /\ Shift(Inst.n, Array) /\ Plain

\* op_newobj: the new object is pushed, and its constructor, if there is one, is
\* called as if it were an ordinary method with that object as receiver
NewObj(o) ==
    /\ Fetch("newobj")
    /\ ClassOf[o] = Inst.name /\ \A i \in 0..(ptr - 1) : buf[i] # o
    /\ IF HasMethod(o, "_ctor")
       THEN /\ callee' = ptr
            /\ ProgramCall(Method(o, "_ctor").entry, Inst.n,
                           [buf EXCEPT ![ptr] = o], ptr + 1, "fold", 0)
       ELSE Shift(0, o) /\ Plain

\* mutant: the slot above the receiver
SetCalleeAbove ==
    /\ Fetch("setcallee")
    /\ callee' = ptr
    /\ Dropped(0) /\ Advance /\ UNCHANGED <<exception, status>>

SetCallee ==
    /\ Fetch("setcallee")
    /\ callee' = ptr - 1
    /\ Dropped(0) /\ Advance /\ UNCHANGED <<exception, status>>

VCall == Fetch("vcall") /\ VCallOn(buf[callee], Inst.name, Inst.n, buf, ptr, callee)

StaticCall ==
    /\ Fetch("call")
    /\ ProgramCall(Inst.k, Inst.n, buf, ptr, "none", 0) /\ UNCHANGED callee

SysCall == Fetch("syscall") /\ Native(Inst.mode, Inst.arity, buf, ptr)

\* op_param_to_arr: callframe::bp is the base pointer of the caller
ParamToArr ==
    /\ Fetch("param_to_arr")
    /\ Shift(ptr - callstack[Len(callstack)].bp - (Entry(current_entry).params - 1),
             Array)
    /\ Plain

Jump ==
    /\ Fetch("jmp") /\ pc' = Inst.k
    /\ UNCHANGED <<prog, stackvars, bp, current_entry, callstack, host, callee,
                   exception, status>>

\* the payload of a value, tested against 0
IsZero(v) == v \in {FalseV, Null, Empty}
JumpIf ==
    /\ Fetch("jmp_true")
    /\ Dropped(1)
    /\ pc' = IF IsZero(Arg(0)) THEN pc + 1 ELSE Inst.k
    /\ UNCHANGED <<prog, bp, current_entry, callstack, host, callee, exception,
                   status>>
JumpUnless ==
    /\ Fetch("jmp_false")
    /\ Dropped(1)
    /\ pc' = IF IsZero(Arg(0)) THEN Inst.k ELSE pc + 1
    /\ UNCHANGED <<prog, bp, current_entry, callstack, host, callee, exception,
                   status>>

\* mutant: op_ret drops the parameters only
ReturnParams ==
    /\ Fetch("ret")
    /\ LET frame == callstack[Len(callstack)]
       IN  /\ Shift(Entry(frame.entry).params + 1, Arg(0))
           /\ pc' = frame.pc /\ bp' = frame.bp /\ current_entry' = frame.entry
    /\ callstack' = SubSeq(callstack, 1, Len(callstack) - 1)
    /\ UNCHANGED <<prog, host, callee, exception, status>>

\* op_ret: the locals, which include the parameters, give way to the result
Return ==
    /\ Fetch("ret")
    /\ LET frame == callstack[Len(callstack)]
       IN  /\ Shift(Entry(frame.entry).locals + 1, Arg(0))
           /\ pc' = frame.pc /\ bp' = frame.bp /\ current_entry' = frame.entry
    /\ callstack' = SubSeq(callstack, 1, Len(callstack) - 1)
    /\ UNCHANGED <<prog, host, callee, exception, status>>

\* op_throw
Throw ==
    /\ Fetch("throw")
    /\ callee' = callee /\ Raise("thrown", buf, ptr - 1)

\* An instruction that reads or writes outside the stack, or fails an assert.
StackFault ==
    /\ Looping
    /\ pc > Len(prog.code) \/ ~Fits(Inst)
    /\ status' = "fault"
    /\ UNCHANGED <<prog, registers, stackvars, callstack, host, callee, exception>>

(***************************************************************************)
(* The loop of run_entry is over: its C++ caller goes on.                  *)
(***************************************************************************)
RunEnd ==
    /\ status = "run" /\ exception = NoException
    /\ Len(callstack) < host[Len(host)].depth
    /\ host' = SubSeq(host, 1, Len(host) - 1)
    /\ IF ptr < host[Len(host)].arity + 2 /\ host[Len(host)].then # "none"
       THEN status' = "fault" /\ UNCHANGED stackvars
       ELSE /\ Finish(host[Len(host)].then, host[Len(host)].arity, buf, ptr)
            /\ status' = IF Len(host) = 1 THEN "done" ELSE status
    /\ UNCHANGED <<prog, registers, callstack, callee, exception>>

(***************************************************************************)
(* runner::handle_exception.  The last handler around pc, unless the first *)
(* one of the program is not around it.  Nothing is done to the stack or   *)
(* the call frames.                                                        *)
(***************************************************************************)
Around(h) == h.begin <= pc /\ pc < h.end
Handlers == {i \in 1..Len(prog.handlers) : Around(prog.handlers[i])}

\* mutant: the first handler around pc
LastOfFirst(H) == CHOOSE i \in H : \A j \in H : j >= i

\* the last of the handlers around pc
LastOf(H) == CHOOSE i \in H : \A j \in H : j <= i

Handle ==
    /\ status = "run" /\ exception # NoException
    /\ exception' = NoException
    /\ IF 1 \in Handlers /\ ptr < StackSize
       THEN /\ pc' = prog.handlers[LastOf(Handlers)].catch
            /\ Shift(0, Exception)
            /\ status' = status
       ELSE \* push outside the stack; unhandled_exception, assert(0)
            /\ status' = IF 1 \in Handlers THEN "fault" ELSE "aborted"
            /\ UNCHANGED <<pc, stackvars>>
    /\ UNCHANGED <<prog, bp, current_entry, callstack, host, callee>>

\* the program is over
Stopped == status # "run" /\ UNCHANGED vars

Execute ==
    \/ Load \/ LoadThis \/ LoadLocal \/ StoreLocal \/ Dup \/ Pop \/ Nop
    \/ Binary \/ Equal \/ Arith \/ Add \/ LoadProp \/ StoreProp \/ NewArr
    \/ (\E o \in Objects : NewObj(o))
    \/ SetCallee \/ VCall \/ StaticCall \/ SysCall \/ ParamToArr
    \/ Jump \/ JumpIf \/ JumpUnless \/ Return \/ Throw

\* as far as the model goes: no address is left for a new object
OutOfObjects ==
    /\ Fetch("newobj")
    /\ \A o \in Objects : ClassOf[o] = Inst.name => \E i \in 0..(ptr - 1) : buf[i] = o
    /\ status' = "out of objects"
    /\ UNCHANGED <<prog, registers, stackvars, callstack, host, callee, exception>>

Next == Execute \/ OutOfObjects \/ StackFault \/ RunEnd \/ Handle \/ Stopped

Spec == Init /\ [][Next]_vars

\* The VM has one thread, which interprets until the program is over.
FairSpec == Spec /\ WF_vars(Next)

--------------------------------------------------------------------------------
(***************************************************************************)
(* Properties                                                              *)
(***************************************************************************)
Status == {"run", "done", "aborted", "fault", "out of objects"}
FrameType == [pc: Nat, bp: Nat, entry: Nat]
HostType == [depth: Nat, then: {"none", "fold", "native"}, arity: Nat]

\* Every variable has its type.
TypeOK ==
    /\ prog \in Programs
    /\ pc \in Nat /\ bp \in Nat /\ current_entry \in DOMAIN prog.entries
    /\ buf \in [Slots -> Value] /\ ptr \in 0..StackSize
    /\ callstack \in Seq(FrameType) /\ host \in Seq(HostType)
    /\ callee \in Slots \cup {None}
    /\ exception \in {NoException, "thrown", "native", "arithmetic", "null pointer",
                       "method not found", "too many parameters"}
    /\ status \in Status

\* Between instructions the running method has as many operands on the shared
\* stack as its code says at that point, whatever calls it has made (op_ret,
\* _vcall, the native adapters): nothing is left behind and nothing is missing.
HeightsAsCompiled ==
    Looping /\ callstack # <<>> => ptr = bp + prog.height[pc]

\* Every activation of run_entry (runner.cpp:107-121) runs its own call frame.
HostInStep ==
    status = "run" /\ exception = NoException =>
        /\ Len(callstack) \in {Len(host) - 1, Len(host)}
        /\ \A j \in 1..Len(host) : host[j].depth = j

\* op_vcall dispatches on the value under its arguments ("[STACK-LAYOUT] THIS",
\* runner.cpp:609-613), the one op_setcallee was meant to point to.
ReceiverUnderArgs ==
    Looping /\ pc <= Len(prog.code) /\ Inst.op = "vcall" => callee = ptr - 1 - Inst.n

\* the first slot of activation i, and the slot after its last one
Base(i) == IF i = Len(callstack) THEN bp ELSE callstack[i + 1].bp
Limit(i) == IF i = Len(callstack) THEN ptr ELSE Base(i + 1)

\* As long as a method runs, the slot op_ldthis reads holds an object that has
\* this very method.
ThisIsReceiver ==
    status = "run" /\ exception = NoException =>
    \A j \in 2..Len(callstack) :
        host[j].then = "fold" =>
            /\ Base(j) > 0 /\ buf[Base(j) - 1] \in Objects
            /\ \E name \in DOMAIN prog.vtable[ClassOf[buf[Base(j) - 1]]] :
                 Method(buf[Base(j) - 1], name) = [kind |-> "script",
                                                   entry |-> callstack[j].entry]

\* A method finds the values of its caller's argument expressions in its first locals,
\* Empty in those of parameters that were given none; expects says which these are
\* (runner.cpp:833-843, code_gen.h:224, tests/syntax/call/callpadding_call.rk).
ArgumentsArrive ==
    Looping /\ callstack # <<>> =>
    LET e == Entry(callstack[Len(callstack)].entry)
    IN  pc = e.start /\ e.expects # {} =>
          \E args \in e.expects :
            \A i \in 1..Len(args) : bp + i - 1 \in Slots /\ buf[bp + i - 1] = args[i]

\* op_newobj leaves the new object, whatever its constructor returned.
NewYieldsObject ==
    Looping /\ pc \in 2..Len(prog.code) /\ prog.code[pc - 1].op = "newobj" =>
        /\ Arg(0) \in Objects
        /\ ClassOf[Arg(0)] = prog.code[pc - 1].name

\* op_param_to_arr collects arguments of the running call only.
VaArgsOwn ==
    Looping /\ pc <= Len(prog.code) /\ Inst.op = "param_to_arr" =>
        /\ callstack[Len(callstack)].bp = bp
        /\ callstack[Len(callstack)].entry = current_entry

\* No instruction reads or writes outside the stack or fails an assert.
NoFault == status # "fault"

\* A program that has come to its end leaves one value, the result of main.
EndsClean == status = "done" => ptr = 1

\* An exception continues in the catch block of the innermost try block around pc
\* if there is one (the table of code_gen.h:241-260 as runner.cpp:697-718 searches
\* it), and ends the program otherwise.
Enclosing == {t \in prog.tries : t.begin <= pc /\ pc < t.end}
InnermostCatches ==
    [][exception # NoException /\ exception' = NoException =>
         IF Enclosing = {} THEN status' = "aborted"
         ELSE \E t \in Enclosing :
                /\ \A u \in Enclosing : u.begin <= t.begin /\ t.end <= u.end
                /\ pc' = t.catch]_vars

\* A program without loops comes to an end: recursion without a bottom runs into
\* the depth limit of run_entry.
Loopless == \A i \in DOMAIN prog.code :
              prog.code[i].op \in {"jmp", "jmp_true", "jmp_false"} => prog.code[i].k > i
Terminates == Loopless ~> status # "run"

(***************************************************************************)
(* Calls keep the promise of CallSpec.                                     *)
(***************************************************************************)
Frames == [i \in 1..Len(callstack) |->
             [j \in 1..Fills(Limit(i) - Base(i)) |-> buf[Base(i) + j - 1]]]
Calls == INSTANCE CallSpec WITH frames <- Frames
CallPromise == Calls!Spec

================================================================================
