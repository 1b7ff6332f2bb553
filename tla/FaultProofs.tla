------------------------------ MODULE FaultProofs ------------------------------
(* Proofs that verified programs keep within the stack and the call depth, and that *)
(* methods are called on the object the compiler meant.                             *)
EXTENDS CallProofs

(***************************************************************************)
(* What a step is: the running method goes on, calls, or returns, or the   *)
(* VM does something in between.                                           *)
(***************************************************************************)
\* No C++ exception is on its way, nor one that ends the program.
Alive == status = "run" /\ (exception # NoException => Caught(prog, pc))

SameFrames ==
    /\ Alive /\ UNCHANGED <<bp, callstack>> /\ UnderKept
    /\ \A j \in 1..Len(host') : j \in 1..Len(host) /\ host'[j] = host[j]

CalleeStep ==
    IF Inst.op = "setcallee" THEN callee' = ptr - 1
    ELSE callee' = callee \/ (Moves(Inst) /\ callee' \in Slots) \/ Loses(Inst)

Follows(p, i, j) ==
    \/ p.code[i].op \notin Stops /\ j = i + 1
    \/ p.code[i].op \in Branches /\ j = p.code[i].k

\* the running method goes on, or throws
Goes ==
    /\ Looping /\ prog' = prog /\ status' # "fault"
    /\ Alive' =>
         /\ SameFrames /\ CalleeStep
         /\ \/ exception' = NoException /\ Follows(prog, pc, pc')
            \/ exception' # NoException /\ Inst.op = "throw" /\ pc' = pc + 1

\* what a dispatched call needs to find the receiver
Dispatched ==
    /\ Inst.op = "vcall" => callee = ptr - 1 - Inst.n
    /\ Inst.op = "newobj" => Inst.n = 0
    /\ \A c \in DOMAIN prog.vtable :
         "_ctor" \in DOMAIN prog.vtable[c] => prog.vtable[c]["_ctor"].kind = "script"

Receives(p, v, e) ==
    v \in Objects /\ \E name \in DOMAIN p.vtable[ClassOf[v]] :
        p.vtable[ClassOf[v]][name] = [kind |-> "script", entry |-> e]

\* it calls method e
Pushes(e) ==
    /\ callstack' = Append(callstack, [pc |-> pc + 1, bp |-> bp, entry |-> e])
    /\ bp' = bp + Ahead(prog, pc) /\ pc' = Entry(e).start /\ exception' = NoException
    /\ UnderKept /\ CalleeStep /\ Len(callstack) + 1 < MaxCalls
    /\ \E act \in Activation :
         /\ host' = Append(host, act)
         /\ act.then = "fold" =>
              /\ act.arity = 0
              /\ Dispatched => bp' > 0 /\ Receives(prog, buf'[bp' - 1], e)

CallsOf(e) ==
    /\ Looping /\ prog' = prog
    /\ Enters(prog, pc, e) /\ Inst.op \notin Stops /\ Ahead(prog, pc) \in Nat
    /\ status' = "fault" => bp + Ahead(prog, pc) + Entry(e).locals > StackSize
    /\ Alive' => Pushes(e)

\* it returns
Comes ==
    LET k == Len(callstack)
    IN  /\ Looping /\ prog' = prog /\ status' = "run"
        /\ pc' = callstack[k].pc /\ bp' = callstack[k].bp /\ callstack' = SubSeq(callstack, 1, k - 1)
        /\ UnderKept /\ UNCHANGED <<host, callee, exception>>

\* a handler is found, and the exception does not fit on the stack
NoRoomToHandle ==
    status = "run" /\ exception # NoException /\ Caught(prog, pc) /\ ~(ptr < StackSize)

\* run_entry is left, or an exception caught
Between ==
    /\ prog' = prog
    /\ status' = "fault" => StackFault \/ RunEnd \/ NoRoomToHandle \/ status = "fault"
    /\ Alive' =>
         /\ SameFrames /\ callee' = callee
         /\ \/ UNCHANGED <<pc, exception>>
            \/ exception # NoException /\ exception' = NoException /\ pc' = CatchAt(prog, pc)

--------------------------------------------------------------------------------
(***************************************************************************)
(* Every step is one of these.                                             *)
(***************************************************************************)
LEMMA PlainGoes ==
    ASSUME Types, NEW op, Fetch(op), op \notin Stops, Advance, UnderKept, CalleeStep,
           exception' = exception, status' = status
    PROVE  Goes
<1>1. Looping /\ Inst = prog.code[pc] /\ Inst.op = op
    BY FetchGives DEF Fetch
<1>2. status' # "fault" /\ exception' = NoException /\ Alive
    BY <1>1 DEF Looping, Alive
<1>3. Follows(prog, pc, pc') /\ prog' = prog /\ UNCHANGED <<bp, callstack, host>>
    BY <1>1 DEF Follows, Advance
<1>4. SameFrames
    BY <1>2, <1>3 DEF SameFrames
<1> QED BY <1>1, <1>2, <1>3, <1>4 DEF Goes

\* An exception that no handler of the program is for.
LEMMA RaiseGoes ==
    ASSUME Types, HeightsInv, Verified(prog), NEW op, Fetch(op), MayRaise(Inst),
           pc' = pc + 1, prog' = prog, status' # "fault", status' = "run" => exception' # NoException
    PROVE  Goes
<1>1. ~Caught(prog, pc + 1) /\ Looping
    BY FetchGives, Here DEF Raises, Fetch
<1>2. ~Alive'
    BY <1>1 DEF Alive
<1> QED BY <1>1, <1>2 DEF Goes

LEMMA ShiftGoes ==
    ASSUME Types, HeightsInv, Verified(prog), NEW op, Fetch(op), op \notin Stops, op # "setcallee",
           NEW n \in Nat, n <= Needs(Inst), NEW v, Shift(n, v), Plain
    PROVE  Goes
<1>1. UnderKept
    BY ShiftUnder
<1>2. CalleeStep
    BY InstEffects DEF CalleeStep, Plain
<1> QED BY <1>1, <1>2, PlainGoes DEF Plain

LEMMA DropGoes ==
    ASSUME Types, HeightsInv, Verified(prog), NEW op, Fetch(op), op \notin Stops, op # "setcallee",
           NEW n, Dropped(n), Plain
    PROVE  Goes
<1>1. UnderKept
    BY DEF Dropped, UnderKept
<1>2. CalleeStep
    BY InstEffects DEF CalleeStep, Plain
<1> QED BY <1>1, <1>2, PlainGoes DEF Plain

LEMMA SimpleGoes ==
    ASSUME Types, HeightsInv, Verified(prog),
           \/ Load \/ LoadThis \/ LoadLocal \/ Dup \/ StoreLocal \/ Pop \/ Nop \/ Binary
           \/ NewArr \/ SetCallee
    PROVE  Goes
<1> USE DEF Stops
<1>1. ASSUME NEW op \in {"ld", "ldthis", "ldloc", "dup"}, Fetch(op), NEW v, Shift(0, v), Plain
      PROVE  Goes
  <2>1. 0 \in Nat /\ 0 <= Needs(Inst)
      BY <1>1, Above
  <2> QED BY <1>1, <2>1, ShiftGoes
<1>2. CASE Load \/ LoadThis \/ LoadLocal \/ Dup
    BY <1>1, <1>2 DEF Load, LoadThis, LoadLocal, Dup
<1>3. CASE StoreLocal
  <2>1. Fetch("stloc") /\ Plain
      BY <1>3 DEF StoreLocal
  <2>2. CalleeStep
      BY <2>1, InstEffects DEF CalleeStep, Plain
  <2> QED BY <1>3, <2>1, <2>2, StoreUnder, PlainGoes DEF Plain
<1>4. CASE Pop \/ Nop
    BY <1>4, DropGoes DEF Pop, Nop
<1>5. CASE Binary
  <2>1. PICK r \in Results : Fetch("binary") /\ Shift(2, r) /\ Plain
      BY <1>5 DEF Binary
  <2>2. 2 \in Nat /\ 2 <= Needs(Inst)
      BY <2>1, InstEffects DEF Needs
  <2> QED BY <2>1, <2>2, ShiftGoes
<1>6. CASE NewArr
  <2>1. Fetch("newarr") /\ Shift(Inst.n, Array) /\ Plain
      BY <1>6 DEF NewArr
  <2>2. Inst.n \in Nat /\ Inst.n <= Needs(Inst)
      BY <2>1, InstEffects DEF Needs
  <2> QED BY <2>1, <2>2, ShiftGoes
<1>7. CASE SetCallee
  <2>1. Fetch("setcallee") /\ callee' = ptr - 1 /\ Advance /\ UnderKept
        /\ exception' = exception /\ status' = status
      BY <1>7 DEF SetCallee, Dropped, UnderKept
  <2>2. CalleeStep
      BY <2>1, InstEffects DEF CalleeStep
  <2> QED BY <2>1, <2>2, PlainGoes
<1> QED BY <1>2, <1>3, <1>4, <1>5, <1>6, <1>7

\* What a stack of arguments is: the shared stack, or that and the receiver pushed again.
Arguments(b, p) ==
    \/ b = buf /\ p = ptr
    \/ \E v \in Value : b = [buf EXCEPT ![ptr] = v] /\ p = ptr + 1

LEMMA ArgumentsType ==
    ASSUME Types, HeightsInv, Verified(prog), NEW op, Fetch(op), NEW b, NEW p, Arguments(b, p)
    PROVE  /\ b \in Stacks /\ p \in Heights_ /\ p \in Int
           /\ \A s \in 0..(bp - 1) : b[s] = buf[s]
<1>1. /\ bp \in Int /\ ptr \in Int /\ ptr < StackSize /\ bp <= ptr
      /\ bp \in Heights_ /\ ptr \in Heights_ /\ buf \in Stacks
    BY Above, Running_
<1>2. CASE b = buf /\ p = ptr
    BY <1>1, <1>2
<1>3. ASSUME NEW v \in Value, b = [buf EXCEPT ![ptr] = v], p = ptr + 1
      PROVE  /\ b \in Stacks /\ p \in Heights_ /\ p \in Int
             /\ \A s \in 0..(bp - 1) : b[s] = buf[s]
  <2>1. b \in Stacks
      BY <1>1, <1>3, Written DEF Stacks
  <2>2. p \in Heights_
      BY <1>1, <1>3, SlotFacts DEF Heights_
  <2>3. ASSUME NEW s \in 0..(bp - 1) PROVE b[s] = buf[s]
    <3>1. s \in Slots /\ s # ptr
        BY <1>1, SlotFacts DEF Heights_
    <3> QED BY <1>1, <1>3, <3>1 DEF Stacks
  <2> QED BY <1>1, <1>3, <2>1, <2>2, <2>3
<1> QED BY <1>2, <1>3 DEF Arguments

LEMMA EnterGoes ==
    ASSUME Types, HeightsInv, Verified(prog), NEW op, Fetch(op), op \notin Stops,
           NEW e \in DOMAIN prog.entries, NEW n \in Nat, n <= Entry(e).params,
           NEW then \in {"none", "fold", "native"}, NEW arity \in Nat, NEW b, NEW p, Arguments(b, p),
           Enters(prog, pc, e), Ahead(prog, pc) \in Nat, p - n = bp + Ahead(prog, pc), CalleeStep,
           then = "fold" => arity = 0 /\ (Dispatched => p - n > 0 /\ Receives(prog, b[p - n - 1], e)),
           EnterFrame(e, n, b, p, then, arity)
    PROVE  CallsOf(e)
<1> DEFINE size == FirstSlot(e, p, n) + Bound(e, n) + Locals(e)
           base == p - n
           act == [depth |-> Len(callstack) + 1, then |-> then, arity |-> arity]
<1>1. /\ Looping /\ Inst.op = op
      /\ bp \in Int /\ bp \in Heights_ /\ b \in Stacks /\ p \in Heights_ /\ p \in Int
      /\ \A s \in 0..(bp - 1) : b[s] = buf[s]
    BY Above, ArgumentsType
<1>2. size = base + Entry(e).locals
  <2>1. Entry(e).params \in Nat /\ Entry(e).locals \in Nat /\ Entry(e).params <= Entry(e).locals
      BY EntryFields DEF Types, Running, Entry, Verified
  <2>2. Bound(e, n) = Entry(e).params
      BY <2>1 DEF Bound
  <2>3. Locals(e) = Entry(e).locals - Entry(e).params
      BY <2>1 DEF Locals, Fills
  <2> QED BY <1>1, <2>1, <2>2, <2>3 DEF FirstSlot
<1>3. CASE size > StackSize
  <2>1. status' = "fault" /\ prog' = prog
      BY <1>3 DEF EnterFrame
  <2>2. ~Alive'
      BY <2>1 DEF Alive
  <2>3. bp + Ahead(prog, pc) + Entry(e).locals > StackSize
      BY <1>2, <1>3
  <2> QED BY <1>1, <2>1, <2>2, <2>3 DEF CallsOf
<1>4. CASE ~(size > StackSize) /\ TooDeep(Len(callstack) + 1)
  <2>1. CppThrow(then = "native") /\ pc' = Entry(e).start /\ prog' = prog
      BY <1>4 DEF EnterFrame
  <2>2. host \in Seq(Activation) /\ Hosted(host) /\ status = "run" /\ exception \in Kinds
      BY <1>1 DEF Types, Looping
  <2>3. (status' = "run" => exception' # NoException) /\ status' # "fault"
      BY <2>1, <2>2, ThrowTypes DEF CppThrow
  <2>4. ~Caught(prog', pc')
      BY <2>1 DEF Verified, Guarded, Entry
  <2>5. ~Alive'
      BY <2>3, <2>4 DEF Alive
  <2> QED BY <1>1, <2>1, <2>3, <2>5 DEF CallsOf
<1>5. CASE ~(size > StackSize) /\ ~TooDeep(Len(callstack) + 1)
  <2>1. /\ buf' = [i \in Slots |-> IF i \in p..(size - 1) THEN Empty ELSE b[i]]
        /\ callstack' = Append(callstack, [pc |-> pc + 1, bp |-> bp, entry |-> e])
        /\ host' = Append(host, act)
        /\ pc' = Entry(e).start /\ bp' = base /\ prog' = prog
        /\ exception' = exception /\ status' = status
      BY <1>5 DEF EnterFrame, FirstSlot, Resume
  <2>2. exception' = NoException /\ status' # "fault"
      BY <1>1, <2>1 DEF Looping
  <2>3. Len(callstack) \in Nat
      BY <1>1, LoopingFrame
  <2>4. Len(callstack) + 1 < MaxCalls
      BY <1>5, <2>3, SizesAssumption DEF TooDeep
  <2>5. act \in Activation /\ act.then = then /\ act.arity = arity
      BY <2>3 DEF Activation
  <2>6. \A s \in Slots : s < p => buf'[s] = b[s]
    <3> HIDE DEF size
    <3> QED BY <1>1, <2>1, SlotFacts
  <2>7. UnderKept
    <3>1. \A s \in 0..(bp - 1) : s \in Slots /\ s < p
      <4>1. bp <= p
          BY <1>1
      <4> QED BY <1>1, <4>1, SlotFacts DEF Heights_
    <3> QED BY <1>1, <2>6, <3>1 DEF UnderKept
  <2>8. base > 0 => buf'[base - 1] = b[base - 1]
    <3> SUFFICES ASSUME base > 0 PROVE buf'[base - 1] = b[base - 1]
        OBVIOUS
    <3>1. base - 1 \in Slots /\ base - 1 < p
        BY <1>1, SlotFacts DEF Heights_
    <3> QED BY <2>6, <3>1
  <2> HIDE DEF act, size, base
  <2>9. \E a \in Activation :
          /\ host' = Append(host, a)
          /\ a.then = "fold" =>
               /\ a.arity = 0
               /\ Dispatched => bp' > 0 /\ Receives(prog, buf'[bp' - 1], e)
    <3>1. act.then = "fold" =>
            /\ act.arity = 0
            /\ Dispatched => bp' > 0 /\ Receives(prog, buf'[bp' - 1], e)
        BY <2>1, <2>5, <2>8 DEF base
    <3> QED BY <2>1, <2>5, <3>1
  <2>10. bp' = bp + Ahead(prog, pc)
      BY <2>1 DEF base
  <2>11. Pushes(e)
      BY <2>1, <2>2, <2>4, <2>7, <2>9, <2>10 DEF Pushes
  <2> QED BY <1>1, <2>1, <2>2, <2>11 DEF CallsOf
<1> QED BY <1>3, <1>4, <1>5

\* programcall, which refuses more arguments than the method has parameters.
LEMMA CallGoes ==
    ASSUME Types, HeightsInv, Verified(prog), NEW op, Fetch(op), op \notin Stops,
           NEW e \in DOMAIN prog.entries, NEW n \in Nat, n > 0 => MayRaise(Inst),
           NEW then \in {"none", "fold", "native"}, NEW arity \in Nat, NEW b, NEW p, Arguments(b, p),
           Enters(prog, pc, e), Ahead(prog, pc) \in Nat, p - n = bp + Ahead(prog, pc), CalleeStep,
           then = "fold" => arity = 0 /\ (Dispatched => p - n > 0 /\ Receives(prog, b[p - n - 1], e)),
           ProgramCall(e, n, b, p, then, arity)
    PROVE  Goes \/ CallsOf(e)
<1>1. Entry(e).params \in Nat /\ ~Entry(e).va_args
    BY EntryFields DEF Types, Running, Entry, Verified
<1>2. CASE n > Entry(e).params
  <2>1. exception' = "too many parameters" /\ Advance /\ status' = status
      BY <1>1, <1>2 DEF ProgramCall
  <2>2. MayRaise(Inst)
      BY <1>1, <1>2
  <2>3. status' # "fault" /\ exception' # NoException /\ pc' = pc + 1 /\ prog' = prog
      BY <2>1 DEF Fetch, Looping, NoException, Advance
  <2> QED BY <2>2, <2>3, RaiseGoes
<1>3. CASE ~(n > Entry(e).params)
  <2>1. n <= Entry(e).params
      BY <1>1, <1>3
  <2>2. EnterFrame(e, n, b, p, then, arity)
      BY <1>3 DEF ProgramCall
  <2> QED BY <2>1, <2>2, EnterGoes
<1> QED BY <1>2, <1>3

Reached == Goes \/ \E e \in DOMAIN prog.entries : CallsOf(e)

\* A dispatched method of the program.
LEMMA Found ==
    ASSUME Types, NEW op, Fetch(op), NEW v, NEW name, Scripted(v, name), name \in Asked(Inst)
    PROVE  LET e == Method(v, name).entry
           IN  e \in DOMAIN prog.entries /\ Enters(prog, pc, e) /\ Receives(prog, v, e)
<1> DEFINE e == Method(v, name).entry
<1>1. /\ v \in Objects /\ name \in DOMAIN prog.vtable[ClassOf[v]]
      /\ prog.vtable[ClassOf[v]][name].kind = "script"
      /\ e = prog.vtable[ClassOf[v]][name].entry
    BY DEF Scripted, HasMethod, Method
<1>2. e \in DOMAIN prog.entries
    BY MethodEntry DEF Scripted, Types, Running
<1>3. /\ ClassOf[v] \in DOMAIN prog.vtable
      /\ prog.vtable[ClassOf[v]][name] \in [kind : {"script", "native"}, entry : Nat]
    BY <1>1, ProgramsAssumption DEF ProgramType, Types, Running
<1>4. prog.vtable[ClassOf[v]][name] = [kind |-> "script", entry |-> e]
    BY <1>1, <1>3
<1>5. Inst = prog.code[pc]
    BY FetchGives
<1> HIDE DEF e
<1>6. Enters(prog, pc, e)
    BY <1>1, <1>3, <1>5 DEF Enters
<1>7. Receives(prog, v, e)
    BY <1>1, <1>4 DEF Receives
<1> QED BY <1>2, <1>6, <1>7 DEF e

LEMMA VCallGoes ==
    ASSUME Types, HeightsInv, Verified(prog), NEW op \in {"vcall", "arith", "equal"}, Fetch(op),
           NEW v, NEW n \in Nat, n = (IF op = "vcall" THEN Inst.n ELSE 1),
           NEW c, c = callee \/ Loses(Inst), Dispatched => v = buf[ptr - n - 1],
           VCallOn(v, Inst.name, n, buf, ptr, c)
    PROVE  Reached
<1>1. /\ Looping /\ Inst.op = op /\ Inst = prog.code[pc] /\ Needs(Inst) = n + 1
      /\ bp \in Int /\ bp >= 0 /\ ptr \in Int /\ MayRaise(Inst) /\ op \notin Stops
      /\ op # "setcallee"
  <2>1. Needs(Inst) = n + 1
      BY InstEffects DEF Needs
  <2>2. bp >= 0
      BY Above, SlotFacts DEF Heights_
  <2> QED BY <2>1, <2>2, Above, FetchGives DEF MayRaise, Stops
<1>2. callee' = c
    BY DEF VCallOn
<1>3. CalleeStep
    BY <1>1, <1>2 DEF CalleeStep
<1>4. /\ ptr = bp + prog.height[pc] /\ prog.height[pc] \in Nat /\ prog.height[pc] >= n + 1
      /\ Ahead(prog, pc) = prog.height[pc] - n
  <2>1. Heights(prog, Method_, pc) /\ ptr = bp + prog.height[pc]
      BY <1>1, Here
  <2>2. Ahead(prog, pc) = prog.height[pc] - n
      BY <1>1 DEF Ahead
  <2> QED BY <1>1, <2>1, <2>2 DEF Heights
<1>5. ASSUME NEW kind \in {"null pointer", "method not found", "native"}, Raise(kind, buf, ptr)
      PROVE  Reached
  <2>1. /\ pc' = pc + 1 /\ prog' = prog /\ status' # "fault"
        /\ status' = "run" => exception' # NoException
      BY <1>1, <1>5 DEF Raise, Advance, NoException, Looping
  <2> QED BY <1>1, <2>1, RaiseGoes DEF Reached
<1>6. ASSUME Scripted(v, Inst.name),
             ProgramCall(Method(v, Inst.name).entry, n, buf, ptr, "fold", 0)
      PROVE  Reached
  <2> DEFINE e == Method(v, Inst.name).entry
  <2>1. e \in DOMAIN prog.entries /\ Enters(prog, pc, e) /\ Receives(prog, v, e)
    <3>1. Inst.name \in Asked(Inst)
        BY <1>1 DEF Asked
    <3> QED BY <1>6, <3>1, Found
  <2>2. Ahead(prog, pc) \in Nat /\ ptr - n = bp + Ahead(prog, pc) /\ ptr - n > 0
      BY <1>1, <1>4
  <2>3. Arguments(buf, ptr)
      BY DEF Arguments
  <2>4. Dispatched => ptr - n > 0 /\ Receives(prog, buf[ptr - n - 1], e)
      BY <2>1, <2>2
  <2>5. ProgramCall(e, n, buf, ptr, "fold", 0)
      BY <1>6
  <2> HIDE DEF e
  <2> QED BY <1>1, <1>3, <2>1, <2>2, <2>3, <2>4, <2>5, CallGoes DEF Reached
<1>7. ASSUME NEW r \in Results, NativeReturn(n + 1, buf, ptr, r)
      PROVE  Reached
  <2>1. Shift(n + 1, r) /\ Advance /\ exception' = exception /\ status' = status
      BY <1>7 DEF NativeReturn, Shift, Replaced
  <2>2. UnderKept
    <3>1. n + 1 \in Nat /\ n + 1 <= Needs(Inst)
        BY <1>1
    <3> QED BY <2>1, <3>1, ShiftUnder
  <2> QED BY <1>1, <1>3, <2>1, <2>2, PlainGoes DEF Reached
<1>8. \/ \E kind \in {"null pointer", "method not found", "native"} : Raise(kind, buf, ptr)
      \/ /\ Scripted(v, Inst.name)
         /\ ProgramCall(Method(v, Inst.name).entry, n, buf, ptr, "fold", 0)
      \/ \E r \in Results : NativeReturn(n + 1, buf, ptr, r)
    BY ValuesAssumption DEF VCallOn, Scripted, HasMethod, Responds
<1> QED BY <1>5, <1>6, <1>7, <1>8

LEMMA OperatorGoes ==
    ASSUME Types, HeightsInv, Verified(prog), AddsNumbers, Equal \/ Arith \/ Add PROVE Reached
<1>1. ASSUME NEW op \in {"equal", "arith", "add"}, Fetch(op), NEW v, Shift(2, v), Plain
      PROVE  Reached
  <2>1. 2 \in Nat /\ 2 <= Needs(Inst) /\ op \notin Stops /\ op # "setcallee"
      BY <1>1, InstEffects DEF Needs, Stops
  <2> QED BY <1>1, <2>1, ShiftGoes DEF Reached
<1>2. ASSUME NEW op \in {"equal", "arith"}, Fetch(op), VCallOn(Arg(1), Inst.name, 1, buf, ptr, None)
      PROVE  Reached
  <2>1. 1 = (IF op = "vcall" THEN Inst.n ELSE 1) /\ op \in {"vcall", "arith", "equal"} /\ 1 \in Nat
      BY <1>2
  <2>2. Loses(Inst)
      BY <1>2, InstEffects DEF Loses
  <2>3. ptr \in Int
      BY <1>2, Above
  <2>4. Arg(1) = buf[ptr - 1 - 1]
      BY DEF Arg
  <2> DEFINE v == Arg(1)
             c == None
  <2>5. (c = callee \/ Loses(Inst)) /\ (Dispatched => v = buf[ptr - 1 - 1])
        /\ VCallOn(v, Inst.name, 1, buf, ptr, c)
      BY <1>2, <2>2, <2>4
  <2> HIDE DEF v, c
  <2> QED BY <1>2, <2>1, <2>5, VCallGoes
<1>3. CASE Equal
    BY <1>1, <1>2, <1>3 DEF Equal
<1>4. CASE Arith
  <2>1. Fetch("arith")
      BY <1>4 DEF Arith
  <2>2. CASE Raise("arithmetic", buf, ptr - 2)
    <3>1. MayRaise(Inst)
        BY <2>1, InstEffects DEF MayRaise
    <3>2. pc' = pc + 1 /\ prog' = prog /\ status' # "fault" /\ exception' # NoException
        BY <2>1, <2>2 DEF Raise, Advance, NoException, Fetch, Looping
    <3> QED BY <2>1, <3>1, <3>2, RaiseGoes DEF Reached
  <2>3. \/ \E r \in Results : Shift(2, r) /\ Plain
        \/ Raise("arithmetic", buf, ptr - 2)
        \/ VCallOn(Arg(1), Inst.name, 1, buf, ptr, None)
      BY <1>4 DEF Arith
  <2> QED BY <1>1, <1>2, <2>1, <2>2, <2>3
<1>5. CASE Add
  <2>1. Fetch("add")
      BY <1>5 DEF Add
  <2>2. Numbers
      BY <2>1, FetchGives DEF AddsNumbers, Fetch, Code
  <2>3. \E r \in Results : Shift(2, r) /\ Plain
      BY <1>5, <2>2 DEF Add
  <2> QED BY <1>1, <2>1, <2>3
<1> QED BY <1>3, <1>4, <1>5

LEMMA PropGoes ==
    ASSUME Types, HeightsInv, Verified(prog), LoadProp \/ StoreProp PROVE Reached
<1>1. ASSUME NEW op \in {"ldprop", "stprop"}, Fetch(op), CppThrow(FALSE), pc' = pc + 1, prog' = prog
      PROVE  Reached
  <2>1. host \in Seq(Activation) /\ Hosted(host) /\ status = "run" /\ exception \in Kinds
      BY <1>1 DEF Types, Fetch, Looping
  <2>2. (status' = "run" => exception' # NoException) /\ status' # "fault"
      BY <1>1, <2>1, ThrowTypes DEF CppThrow
  <2>3. MayRaise(Inst)
      BY <1>1, InstEffects DEF MayRaise
  <2> QED BY <1>1, <2>2, <2>3, RaiseGoes DEF Reached
<1>2. CASE LoadProp
  <2>1. Fetch("ldprop") /\ "ldprop" \notin Stops /\ "ldprop" # "setcallee"
      BY <1>2 DEF LoadProp, Stops
  <2>2. 1 \in Nat /\ 1 <= Needs(Inst)
      BY <2>1, InstEffects DEF Needs
  <2>3. ASSUME NEW r \in Results, Shift(1, r), Plain PROVE Reached
      BY <2>1, <2>2, <2>3, ShiftGoes DEF Reached
  <2> QED BY <1>1, <1>2, <2>1, <2>3 DEF LoadProp
<1>3. CASE StoreProp
  <2>1. Fetch("stprop") /\ Dropped(2) /\ "stprop" \notin Stops /\ "stprop" # "setcallee"
      BY <1>3 DEF StoreProp, Stops
  <2>2. CASE Plain
      BY <2>1, <2>2, DropGoes DEF Reached
  <2> QED BY <1>1, <1>3, <2>1, <2>2 DEF StoreProp
<1> QED BY <1>2, <1>3

LEMMA NewObjGoes ==
    ASSUME Types, HeightsInv, Verified(prog), NEW o \in Objects, NewObj(o) PROVE Reached
<1>1. /\ Fetch("newobj") /\ Looping /\ ClassOf[o] = Inst.name
      /\ Inst = prog.code[pc] /\ Inst.op = "newobj" /\ Inst.n \in Nat
      /\ "newobj" \notin Stops /\ "newobj" # "setcallee" /\ MayRaise(Inst)
    BY FetchGives, InstEffects DEF NewObj, Fetch, Stops, MayRaise
<1>2. /\ bp \in Int /\ bp >= 0 /\ ptr \in Int /\ ptr < StackSize /\ ptr >= 0 /\ buf \in Stacks
    BY <1>1, Above, SlotFacts DEF Heights_
<1>3. /\ ptr = bp + prog.height[pc] /\ prog.height[pc] \in Nat /\ prog.height[pc] >= Inst.n
      /\ Ahead(prog, pc) = prog.height[pc] + 1 - Inst.n
  <2>1. Heights(prog, Method_, pc) /\ ptr = bp + prog.height[pc]
      BY <1>1, Here
  <2>2. Ahead(prog, pc) = prog.height[pc] + 1 - Inst.n /\ Needs(Inst) = Inst.n
      BY <1>1 DEF Ahead, Needs
  <2> QED BY <1>1, <2>1, <2>2 DEF Heights
<1>4. CASE HasMethod(o, "_ctor")
  <2> DEFINE b == [buf EXCEPT ![ptr] = o]
             e == Method(o, "_ctor").entry
             n == Inst.n
             p == ptr + 1
  <2>1. callee' = ptr /\ ProgramCall(e, n, b, p, "fold", 0)
      BY <1>4 DEF NewObj
  <2>2. e \in DOMAIN prog.entries /\ Enters(prog, pc, e)
    <3>1. e \in DOMAIN prog.entries
        BY <1>4, MethodEntry DEF Types, Running
    <3>2. "_ctor" \in Asked(Inst)
        BY <1>1 DEF Asked
    <3>3. ClassOf[o] \in DOMAIN prog.vtable
        BY ProgramsAssumption DEF ProgramType, Types, Running
    <3> QED BY <1>1, <1>4, <3>1, <3>2, <3>3 DEF Enters, HasMethod, Method
  <2>3. Dispatched => p - n > 0 /\ Receives(prog, b[p - n - 1], e)
    <3> SUFFICES ASSUME Dispatched PROVE p - n > 0 /\ Receives(prog, b[p - n - 1], e)
        OBVIOUS
    <3>1. n = 0 /\ p - n > 0 /\ p - n - 1 = ptr
        BY <1>1, <1>2 DEF Dispatched
    <3>2. b[ptr] = o
      <4>1. ptr \in Slots
          BY <1>2, SlotFacts
      <4> QED BY <1>2, <4>1 DEF Stacks
    <3>3. "_ctor" \in DOMAIN prog.vtable[ClassOf[o]] /\ ClassOf[o] \in DOMAIN prog.vtable
        BY <1>4, ProgramsAssumption DEF HasMethod, ProgramType, Types, Running
    <3>4. Scripted(o, "_ctor")
        BY <1>4, <3>3 DEF Dispatched, Scripted, Method
    <3>5. "_ctor" \in Asked(Inst)
        BY <1>1 DEF Asked
    <3>6. Receives(prog, o, e)
        BY <1>1, <3>4, <3>5, Found
    <3> HIDE DEF b, e, n, p
    <3> QED BY <3>1, <3>2, <3>6
  <2>4. Arguments(b, p)
      BY DEF Arguments, Value
  <2>5. Ahead(prog, pc) \in Nat /\ p - n = bp + Ahead(prog, pc)
      BY <1>1, <1>2, <1>3
  <2>6. CalleeStep
    <3>1. callee' \in Slots /\ Moves(Inst)
        BY <1>1, <1>2, <2>1, SlotFacts DEF Moves
    <3> QED BY <1>1, <3>1 DEF CalleeStep
  <2>7. n \in Nat /\ (n > 0 => MayRaise(Inst)) /\ 0 \in Nat /\ "fold" \in {"none", "fold", "native"}
      BY <1>1
  <2> HIDE DEF b, e, n, p
  <2> QED BY <1>1, <2>1, <2>2, <2>3, <2>4, <2>5, <2>6, <2>7, CallGoes DEF Reached
<1>5. CASE ~HasMethod(o, "_ctor")
  <2>1. Shift(0, o) /\ Plain
      BY <1>5 DEF NewObj
  <2>2. 0 \in Nat /\ 0 <= Needs(Inst)
      BY <1>1, Above
  <2> QED BY <1>1, <2>1, <2>2, ShiftGoes DEF Reached
<1> QED BY <1>4, <1>5

LEMMA InvokeGoes ==
    ASSUME Types, HeightsInv, Verified(prog), VCall \/ StaticCall PROVE Reached
<1>1. CASE VCall
  <2> DEFINE v == buf[callee]
             n == Inst.n
             c == callee
  <2>1. Fetch("vcall") /\ VCallOn(v, Inst.name, n, buf, ptr, c)
      BY <1>1 DEF VCall
  <2>2. n \in Nat /\ ptr \in Int /\ Inst.op = "vcall"
      BY <2>1, InstEffects, Above
  <2>3. Dispatched => v = buf[ptr - n - 1]
    <3>1. ptr - 1 - n = ptr - n - 1
        BY <2>2
    <3> QED BY <2>2, <3>1 DEF Dispatched
  <2>4. (c = callee \/ Loses(Inst)) /\ "vcall" \in {"vcall", "arith", "equal"}
        /\ n = (IF "vcall" = "vcall" THEN Inst.n ELSE 1)
      OBVIOUS
  <2> HIDE DEF v, c, n
  <2> QED BY <2>1, <2>2, <2>3, <2>4, VCallGoes
<1>2. CASE StaticCall
  <2>1. Fetch("call") /\ ProgramCall(Inst.k, Inst.n, buf, ptr, "none", 0) /\ callee' = callee
      BY <1>2 DEF StaticCall
  <2>2. /\ Looping /\ Inst = prog.code[pc] /\ Inst.op = "call" /\ Inst.n \in Nat
        /\ Inst.k \in DOMAIN prog.entries /\ "call" \notin Stops /\ MayRaise(Inst)
        /\ bp \in Int /\ ptr \in Int
      BY <2>1, Above, FetchGives, InstructionFields DEF MayRaise, Stops
  <2>3. Ahead(prog, pc) \in Nat /\ ptr - Inst.n = bp + Ahead(prog, pc)
    <3>1. Heights(prog, Method_, pc) /\ ptr = bp + prog.height[pc]
        BY <2>2, Here
    <3>2. Ahead(prog, pc) = prog.height[pc] - Inst.n /\ Needs(Inst) = Inst.n
        BY <2>2 DEF Ahead, Needs
    <3>3. prog.height[pc] \in Nat /\ prog.height[pc] >= Inst.n
        BY <2>2, <3>1, <3>2 DEF Heights
    <3> QED BY <2>2, <3>1, <3>2, <3>3
  <2>4. Enters(prog, pc, Inst.k)
      BY <2>2 DEF Enters
  <2>5. CalleeStep
      BY <2>1, <2>2 DEF CalleeStep
  <2>6. Arguments(buf, ptr)
      BY DEF Arguments
  <2>7. 0 \in Nat /\ "none" \in {"none", "fold", "native"} /\ "none" # "fold"
      OBVIOUS
  <2> QED BY <2>1, <2>2, <2>3, <2>4, <2>5, <2>6, <2>7, CallGoes DEF Reached
<1> QED BY <1>1, <1>2

LEMMA SysGoes ==
    ASSUME Types, HeightsInv, Verified(prog), SysCall PROVE Reached
<1>1. Fetch("syscall") /\ Native(Inst.mode, Inst.arity, buf, ptr)
    BY DEF SysCall
<1>2. /\ Inst.op = "syscall" /\ Inst = prog.code[pc] /\ Inst.arity \in Nat
      /\ Needs(Inst) = Inst.arity /\ Looping /\ "syscall" \notin Stops
    BY <1>1, InstEffects, FetchGives DEF Needs, Stops, Fetch
<1>3. /\ bp \in Int /\ bp >= 0 /\ ptr \in Int /\ ptr < StackSize /\ buf \in Stacks
      /\ bp + Inst.arity <= ptr
    BY <1>1, <1>2, Above, SlotFacts DEF Heights_
<1>4. CASE Inst.mode = "prints" /\ Scripted(buf[ptr - 1], "to_string")
  <2> DEFINE v == buf[ptr - 1]
             b == [buf EXCEPT ![ptr] = v]
             e == Method(v, "to_string").entry
             p == ptr + 1
  <2>1. callee' = ptr /\ ProgramCall(e, 0, b, p, "native", Inst.arity)
      BY <1>1, <1>4 DEF Native
  <2>2. e \in DOMAIN prog.entries /\ Enters(prog, pc, e)
    <3>1. "to_string" \in Asked(Inst)
        BY <1>2, <1>4 DEF Asked
    <3> QED BY <1>1, <1>4, <3>1, Found
  <2>3. v \in Value
    <3>1. Inst.arity > 0
        BY <1>1, <1>4, FetchGives, InstructionFields
    <3>2. ptr - 1 \in Slots
        BY <1>2, <1>3, <3>1, SlotFacts
    <3> QED BY <1>3, <3>2 DEF Stacks
  <2>4. Arguments(b, p)
      BY <2>3 DEF Arguments
  <2>5. Ahead(prog, pc) \in Nat /\ p - 0 = bp + Ahead(prog, pc)
    <3>1. Heights(prog, Method_, pc) /\ ptr = bp + prog.height[pc]
        BY <1>2, Here
    <3>2. Ahead(prog, pc) = prog.height[pc] + 1
        BY <1>2 DEF Ahead
    <3> QED BY <1>3, <3>1, <3>2 DEF Heights
  <2>6. CalleeStep
    <3>1. callee' \in Slots /\ Moves(Inst)
        BY <1>2, <1>3, <1>4, <2>1, SlotFacts DEF Moves
    <3> QED BY <1>2, <3>1 DEF CalleeStep
  <2>7. /\ 0 \in Nat /\ "native" \in {"none", "fold", "native"} /\ "native" # "fold"
        /\ ~(0 > 0)
      OBVIOUS
  <2> HIDE DEF v, b, e, p
  <2> QED BY <1>1, <1>2, <2>1, <2>2, <2>4, <2>5, <2>6, <2>7, CallGoes DEF Reached
<1>5. ASSUME NEW r \in Results, NativeReturn(Inst.arity, buf, ptr, r), callee' = callee
      PROVE  Reached
  <2>1. Shift(Inst.arity, r) /\ Advance /\ exception' = exception /\ status' = status
      BY <1>5 DEF NativeReturn, Shift, Replaced
  <2>2. UnderKept
    <3>1. Inst.arity \in Nat /\ Inst.arity <= Needs(Inst)
        BY <1>2
    <3> QED BY <1>1, <2>1, <3>1, ShiftUnder
  <2>3. CalleeStep
      BY <1>2, <1>5 DEF CalleeStep
  <2> QED BY <1>1, <1>2, <2>1, <2>2, <2>3, PlainGoes DEF Reached
<1>6. CASE Inst.mode = "fails" /\ Raise("native", buf, ptr)
  <2>1. MayRaise(Inst)
      BY <1>2, <1>6 DEF MayRaise
  <2>2. pc' = pc + 1 /\ prog' = prog /\ status' # "fault" /\ exception' # NoException
      BY <1>2, <1>6 DEF Raise, Advance, NoException, Looping
  <2> QED BY <1>1, <2>1, <2>2, RaiseGoes DEF Reached
<1> QED BY <1>1, <1>4, <1>5, <1>6 DEF Native

LEMMA JumpGoes ==
    ASSUME Types, HeightsInv, Verified(prog), Jump \/ JumpIf \/ JumpUnless PROVE Goes
<1>1. ASSUME NEW op \in Branches, Fetch(op), NEW i, Follows(prog, pc, i), pc' = i, buf' = buf,
             UNCHANGED <<prog, bp, callstack, host, callee, exception, status>>
      PROVE  Goes
  <2>1. Looping /\ Inst.op = op /\ op # "setcallee"
      BY <1>1, Above DEF Branches
  <2>2. status' # "fault" /\ exception' = NoException /\ Alive /\ CalleeStep /\ UnderKept
      BY <1>1, <2>1 DEF Looping, Alive, CalleeStep, UnderKept
  <2>3. SameFrames
      BY <1>1, <2>2 DEF SameFrames
  <2> QED BY <1>1, <2>1, <2>2, <2>3 DEF Goes
<1>2. ASSUME NEW op \in Branches, Fetch(op)
      PROVE  Follows(prog, pc, Inst.k) /\ (op # "jmp" => Follows(prog, pc, pc + 1))
  <2>1. Inst = prog.code[pc] /\ Inst.op = op
      BY <1>2, FetchGives
  <2> QED BY <1>2, <2>1 DEF Follows, Branches, Stops
<1>3. CASE Jump
  <2>1. Fetch("jmp") /\ "jmp" \in Branches
      BY <1>3 DEF Jump, Branches
  <2> QED BY <1>1, <1>2, <1>3, <2>1 DEF Jump, stackvars
<1>4. CASE JumpIf
  <2>1. Fetch("jmp_true") /\ "jmp_true" \in Branches /\ "jmp_true" # "jmp"
      BY <1>4 DEF JumpIf, Branches
  <2>2. pc' = Inst.k \/ pc' = pc + 1
      BY <1>4 DEF JumpIf
  <2>3. Follows(prog, pc, pc')
      BY <1>2, <2>1, <2>2
  <2> QED BY <1>1, <1>4, <2>1, <2>3 DEF JumpIf, Dropped
<1>5. CASE JumpUnless
  <2>1. Fetch("jmp_false") /\ "jmp_false" \in Branches /\ "jmp_false" # "jmp"
      BY <1>5 DEF JumpUnless, Branches
  <2>2. pc' = Inst.k \/ pc' = pc + 1
      BY <1>5 DEF JumpUnless
  <2>3. Follows(prog, pc, pc')
      BY <1>2, <2>1, <2>2
  <2> QED BY <1>1, <1>5, <2>1, <2>3 DEF JumpUnless, Dropped
<1> QED BY <1>3, <1>4, <1>5

LEMMA ThrowGoes ==
    ASSUME Types, HeightsInv, Verified(prog), Throw PROVE Goes
<1>1. Fetch("throw") /\ Raise("thrown", buf, ptr - 1) /\ callee' = callee
    BY DEF Throw
<1>2. Looping /\ Inst.op = "throw" /\ status' = status /\ exception' # NoException
    BY <1>1, Above DEF Raise, NoException
<1>3. UNCHANGED <<prog, bp, callstack, host>> /\ pc' = pc + 1 /\ UnderKept
    BY <1>1 DEF Raise, Advance, UnderKept
<1>4. CalleeStep
    BY <1>1, <1>2 DEF CalleeStep
<1>5. Alive /\ status' # "fault"
    BY <1>2 DEF Alive, Looping
<1>6. SameFrames
    BY <1>3, <1>5 DEF SameFrames
<1> QED BY <1>2, <1>3, <1>4, <1>5, <1>6 DEF Goes

LEMMA ReturnComes ==
    ASSUME Types, HeightsInv, Verified(prog), Return PROVE Comes
<1> DEFINE k == Len(callstack)
           frame == callstack[k]
           l == Entry(frame.entry).locals
           v == Arg(0)
<1>1. /\ Fetch("ret") /\ Shift(l + 1, v)
      /\ pc' = frame.pc /\ bp' = frame.bp
      /\ callstack' = SubSeq(callstack, 1, k - 1)
      /\ UNCHANGED <<prog, host, callee, exception, status>>
    BY DEF Return
<1>2. Looping /\ Inst = prog.code[pc] /\ Inst.op = "ret" /\ ptr \in Int /\ bp \in Int
    BY <1>1, FetchGives, Above
<1>3. ptr = bp + (l + 1) /\ l \in Nat
  <2>1. ptr = bp + prog.height[pc] /\ Method_ \in DOMAIN prog.entries /\ Heights(prog, Method_, pc)
      BY <1>2, Here
  <2>2. prog.height[pc] = l + 1
      BY <1>2, <2>1 DEF Heights, Method_, Entry
  <2>3. l \in Nat
      BY <2>1, EntryFields DEF Types, Running, Entry, Method_
  <2> QED BY <2>1, <2>2, <2>3
<1>4. UnderKept
  <2>1. buf' = [buf EXCEPT ![ptr - (l + 1)] = v]
      BY <1>1 DEF Shift, Replaced
  <2> HIDE DEF l, v
  <2>2. ptr - (l + 1) = bp
      BY <1>2, <1>3
  <2> DEFINE w == ptr - (l + 1)
  <2>3. w \in Int /\ w >= bp /\ buf' = [buf EXCEPT ![w] = v]
      BY <1>2, <2>1, <2>2
  <2> HIDE DEF w
  <2> QED BY <2>3, WriteUnder
<1>5. status' = "run"
    BY <1>1, <1>2 DEF Looping
<1> QED BY <1>1, <1>2, <1>4, <1>5 DEF Comes

LEMMA OthersBetween ==
    ASSUME Types, HeightsInv, Verified(prog),
           RunEnd \/ Handle \/ OutOfObjects \/ StackFault \/ Stopped \/ UNCHANGED vars
    PROVE  Between
<1>1. CASE RunEnd
  <2>1. /\ host' = SubSeq(host, 1, Len(host) - 1) /\ status = "run" /\ exception = NoException
        /\ UNCHANGED <<prog, pc, bp, callstack, callee, exception>>
      BY <1>1 DEF RunEnd, registers
  <2>2. host \in Seq(Activation) /\ host # <<>> /\ Len(host) \in Nat \ {0}
      BY <2>1, EmptySeq DEF Types, Hosted
  <2>3. /\ Len(host') = Len(host) - 1
        /\ \A i \in 1..(Len(host) - 1) : host'[i] = host[i]
      BY <2>1, <2>2, Popped
  <2>4. \A j \in 1..Len(host') : j \in 1..Len(host) /\ host'[j] = host[j]
      BY <2>2, <2>3
  <2>5. SameFrames
      BY <1>1, <2>1, <2>4, RunEndUnder DEF SameFrames, Alive
  <2> QED BY <1>1, <2>1, <2>5 DEF Between
<1>2. CASE Handle
  <2>1. /\ status = "run" /\ exception # NoException /\ exception' = NoException
        /\ UNCHANGED <<prog, bp, callstack, host, callee>>
        /\ Handlers = AroundAt(prog, pc)
      BY <1>2 DEF Handle, Handlers, AroundAt, Around
  <2>2. CASE 1 \in Handlers /\ ptr < StackSize
    <3>1. Caught(prog, pc)
        BY <2>1, <2>2 DEF Caught
    <3>2. pc' = CatchAt(prog, pc)
        BY <1>2, <2>1, <2>2, LastHandler DEF Handle, CatchAt, Types, Running
    <3>3. SameFrames
        BY <1>2, <2>1, <3>1, HandleUnder DEF SameFrames, Alive
    <3>4. status' # "fault"
        BY <1>2, <2>1, <2>2 DEF Handle
    <3> QED BY <2>1, <3>2, <3>3, <3>4 DEF Between
  <2>3. CASE ~(1 \in Handlers /\ ptr < StackSize)
    <3>1. /\ status' \in {"aborted", "fault"}
          /\ status' = "fault" => 1 \in Handlers
        BY <1>2, <2>3 DEF Handle
    <3>2. status' = "fault" => NoRoomToHandle
        BY <2>1, <2>3, <3>1 DEF NoRoomToHandle, Caught
    <3> QED BY <2>1, <3>1, <3>2 DEF Between, Alive
  <2> QED BY <2>2, <2>3
<1>3. CASE OutOfObjects \/ StackFault
    BY <1>3 DEF OutOfObjects, StackFault, Between, Alive
<1>4. CASE Stopped \/ UNCHANGED vars
  <2>1. UNCHANGED <<prog, pc, bp, buf, callstack, host, callee, exception, status>>
      BY <1>4 DEF Stopped, vars, registers, stackvars
  <2>2. Alive' = Alive
      BY <2>1 DEF Alive, Caught, AroundAt
  <2> QED BY <2>1, <2>2 DEF Between, SameFrames, UnderKept
<1> QED BY <1>1, <1>2, <1>3, <1>4

LEMMA StepShape ==
    ASSUME Types, HeightsInv, Verified(prog), AddsNumbers, [Next]_vars
    PROVE  Reached \/ Comes \/ Between
<1>1. CASE Execute
  <2>1. ASSUME ParamToArr PROVE FALSE
    <3>1. Looping /\ Inst = prog.code[pc] /\ Inst.op = "param_to_arr"
        BY <2>1, FetchGives DEF ParamToArr, Fetch
    <3> QED BY <3>1, Here DEF Raises
  <2>2. CASE \/ Load \/ LoadThis \/ LoadLocal \/ Dup \/ StoreLocal \/ Pop \/ Nop \/ Binary
             \/ NewArr \/ SetCallee
      BY <2>2, SimpleGoes DEF Reached
  <2>3. CASE Equal \/ Arith \/ Add
      BY <2>3, OperatorGoes
  <2>4. CASE LoadProp \/ StoreProp
      BY <2>4, PropGoes
  <2>5. ASSUME NEW o \in Objects, NewObj(o) PROVE Reached
      BY <2>5, NewObjGoes
  <2>6. CASE VCall \/ StaticCall
      BY <2>6, InvokeGoes
  <2>7. CASE SysCall
      BY <2>7, SysGoes
  <2>8. CASE Jump \/ JumpIf \/ JumpUnless
      BY <2>8, JumpGoes DEF Reached
  <2>9. CASE Throw
      BY <2>9, ThrowGoes DEF Reached
  <2>10. CASE Return
      BY <2>10, ReturnComes
  <2> QED
      BY <1>1, <2>1, <2>2, <2>3, <2>4, <2>5, <2>6, <2>7, <2>8, <2>9, <2>10 DEF Execute
<1>2. CASE RunEnd \/ Handle \/ OutOfObjects \/ StackFault \/ Stopped \/ UNCHANGED vars
    BY <1>2, OthersBetween
<1> QED BY <1>1, <1>2 DEF Next

--------------------------------------------------------------------------------
(***************************************************************************)
(* The frames after a step.                                                *)
(***************************************************************************)
LEMMA AliveFrames ==
    ASSUME Types, HeightsInv, Alive
    PROVE  /\ InStep(callstack, host) /\ Chain(prog, callstack, host, bp)
           /\ Len(callstack) \in Nat /\ Len(host) \in Nat
<1>1. InStep(callstack, host) /\ Chain(prog, callstack, host, bp)
    BY DEF Alive, HeightsInv
<1>2. Len(callstack) \in Nat /\ Len(host) \in Nat
    BY LenProperties DEF Types
<1> QED BY <1>1, <1>2

LEMMA LoopingAlive == ASSUME Looping PROVE Alive
BY DEF Looping, Alive

LEMMA PushedFrames ==
    ASSUME Types, HeightsInv, Verified(prog), Looping, NEW e \in DOMAIN prog.entries, Pushes(e)
    PROVE  /\ Len(callstack) \in Nat \ {0} /\ Len(callstack') = Len(callstack) + 1
           /\ callstack'[Len(callstack) + 1] = [pc |-> pc + 1, bp |-> bp, entry |-> e]
           /\ BaseOf(callstack', bp', Len(callstack) + 1) = bp'
           /\ \A i \in 1..Len(callstack) :
                /\ callstack'[i] = callstack[i]
                /\ BaseOf(callstack', bp', i) = BaseOf(callstack, bp, i)
<1> DEFINE k == Len(callstack)
           top == [pc |-> pc + 1, bp |-> bp, entry |-> e]
<1>1. callstack' = Append(callstack, top) /\ k \in Nat \ {0} /\ top.bp = bp
    BY LoopingFrame DEF Pushes
<1>2. top \in FrameOf(prog)
    BY DEF Types, Running, FrameOf
<1> HIDE DEF top
<1>3. /\ Len(callstack') = k + 1 /\ callstack'[k + 1] = top
      /\ \A i \in 1..k : callstack'[i] = callstack[i]
    BY <1>1, <1>2, AppendProperties DEF Types
<1>4. BaseOf(callstack', bp', k + 1) = bp'
    BY <1>3 DEF BaseOf
<1>5. ASSUME NEW i \in 1..k PROVE BaseOf(callstack', bp', i) = BaseOf(callstack, bp, i)
  <2>1. i # k + 1 /\ i \in Int
      BY <1>1
  <2>2. BaseOf(callstack', bp', i) = callstack'[i + 1].bp
      BY <1>3, <2>1 DEF BaseOf
  <2>3. CASE i = k
      BY <1>1, <1>3, <2>2, <2>3 DEF BaseOf
  <2>4. CASE i # k
    <3>1. i + 1 \in 1..k
        BY <1>1, <2>1, <2>4
    <3> QED BY <1>3, <2>2, <2>4, <3>1 DEF BaseOf
  <2> QED BY <2>3, <2>4
<1> QED BY <1>1, <1>3, <1>4, <1>5 DEF top

LEMMA PoppedFrames ==
    ASSUME Types, Comes
    PROVE  /\ Len(callstack) \in Nat \ {0} /\ Len(callstack') = Len(callstack) - 1
           /\ \A i \in 1..(Len(callstack) - 1) :
                /\ i \in 1..Len(callstack) /\ callstack'[i] = callstack[i]
                /\ BaseOf(callstack', bp', i) = BaseOf(callstack, bp, i)
<1> DEFINE k == Len(callstack)
<1>1. /\ k \in Nat \ {0} /\ callstack' = SubSeq(callstack, 1, k - 1)
      /\ bp' = callstack[k].bp
    BY LoopingFrame DEF Comes
<1>2. /\ Len(callstack') = k - 1
      /\ \A i \in 1..(k - 1) : callstack'[i] = callstack[i]
    BY <1>1, Popped DEF Types
<1>3. \A i \in 1..(k - 1) : BaseOf(callstack', bp', i) = BaseOf(callstack, bp, i)
    BY <1>1, <1>2 DEF BaseOf
<1>4. \A i \in 1..(k - 1) : i \in 1..k
    BY <1>1
<1> QED BY <1>1, <1>2, <1>3, <1>4

\* A slot under an activation is under the running one.
LEMMA UnderBase ==
    ASSUME Types, HeightsInv, Alive, UnderKept, NEW j \in 1..Len(callstack),
           BaseOf(callstack, bp, j) > 0
    PROVE  buf'[BaseOf(callstack, bp, j) - 1] = buf[BaseOf(callstack, bp, j) - 1]
<1> DEFINE k == Len(callstack)
           base == BaseOf(callstack, bp, j)
<1>1. k \in Nat /\ k \in 1..k /\ j <= k /\ Ordered(callstack, bp)
    BY AliveFrames DEF Chain
<1>2. BaseOf(callstack, bp, k) = bp /\ base <= BaseOf(callstack, bp, k)
    BY <1>1 DEF Ordered, BaseOf
<1>3. base \in Int /\ bp \in Int
    BY BaseType, StackTypes, SlotFacts DEF Heights_
<1> HIDE DEF base, k
<1>4. base - 1 \in 0..(bp - 1)
    BY <1>2, <1>3 DEF base
<1> QED BY <1>4 DEF UnderKept, base

--------------------------------------------------------------------------------
(***************************************************************************)
(* The callee register.  It is where the running method's code expects it, *)
(* and it will be where a waiting method expects it when it goes on: the   *)
(* methods that run in the meantime are tidy, or quiet, as it needs.       *)
(***************************************************************************)
Holds(x, b, c) == x # Nothing => c # None /\ (x # SomeSlot => c = b + x)

\* f is a call: where its caller goes on, and the method called.
FrameKnows(r, f, c) ==
    /\ Holds(r.known[f.pc], f.bp, c)
    /\ r.known[f.pc] # Nothing => f.entry \in r.tidy
    /\ r.known[f.pc] \notin {Nothing, SomeSlot} => f.entry \in r.quiet

\* What a tidy or quiet method calls is tidy or quiet as well.
Upward(S, cs) == \A i, j \in 1..Len(cs) : i <= j /\ cs[i].entry \in S => cs[j].entry \in S

RegisterInv(reg) ==
    LET r == reg[prog]
    IN  Alive =>
          /\ exception = NoException => Holds(r.known[pc], bp, callee)
          /\ exception # NoException => r.known[CatchAt(prog, pc)] = Nothing
          /\ \A j \in 1..Len(callstack) : FrameKnows(r, callstack[j], callee)
          /\ Upward(r.tidy, callstack) /\ Upward(r.quiet, callstack)

\* An instruction of a tidy method keeps the register at a slot, one of a quiet method
\* keeps it as it is.
LEMMA Held ==
    ASSUME Types, HeightsInv, Verified(prog), Looping, CalleeStep, NEW r, Tracked(prog, r)
    PROVE  /\ Method_ \in r.tidy /\ callee # None => callee' # None
           /\ Method_ \in r.quiet => callee' = callee
<1>1. Method_ \in DOMAIN prog.entries /\ InMethod(prog, Method_, pc) /\ pc \in Code(prog)
      /\ Inst = prog.code[pc]
    BY Here DEF InMethod, Inst
<1>2. /\ Method_ \in r.tidy => ~Loses(Inst)
      /\ Method_ \in r.quiet => ~Loses(Inst) /\ ~Moves(Inst)
  <2>1. r.quiet \subseteq r.tidy
      BY DEF Tracked
  <2> QED BY <1>1, <2>1 DEF Tracked
<1>3. Inst.op = "setcallee" => callee' # None /\ Moves(Inst)
  <2> SUFFICES ASSUME Inst.op = "setcallee" PROVE callee' # None /\ Moves(Inst)
      OBVIOUS
  <2>1. prog.height[pc] >= 1 /\ prog.height[pc] \in Nat /\ ptr = bp + prog.height[pc]
      BY <1>1, Here DEF Heights, Needs
  <2>2. ptr >= 1
      BY <2>1, StackTypes, SlotFacts DEF Heights_
  <2> QED BY <2>1, <2>2, SlotFacts, StackTypes DEF CalleeStep, Moves, Heights_
<1>4. None \notin Slots
    BY SlotFacts
<1> QED BY <1>2, <1>3, <1>4 DEF CalleeStep

\* What is known of the register at the instruction that follows.
LEMMA Onward ==
    ASSUME Types, HeightsInv, Verified(prog), Looping, CalleeStep, NEW r, Tracked(prog, r),
           NEW x, Carried(prog, r, pc, x), Holds(r.known[pc], bp, callee)
    PROVE  Holds(x, bp, callee')
<1> SUFFICES ASSUME x # Nothing PROVE callee' # None /\ (x # SomeSlot => callee' = bp + x)
    BY DEF Holds
<1>1. /\ Inst = prog.code[pc] /\ Heights(prog, Method_, pc) /\ ptr = bp + prog.height[pc]
      /\ bp \in Int /\ bp >= 0
    BY Here, StackTypes, SlotFacts DEF Inst, Heights_
<1>2. CASE Inst.op = "setcallee"
  <2>1. prog.height[pc] >= 1 /\ prog.height[pc] \in Nat
      BY <1>1, <1>2 DEF Heights, Needs
  <2>2. callee' = ptr - 1 /\ x \in {SomeSlot, prog.height[pc] - 1}
      BY <1>1, <1>2 DEF CalleeStep, Carried
  <2>3. callee' = bp + (prog.height[pc] - 1) /\ callee' >= 0
      BY <1>1, <2>1, <2>2
  <2> QED BY <2>2, <2>3, SlotFacts
<1>3. CASE Inst.op # "setcallee"
  <2>1. /\ r.known[pc] # Nothing /\ ~Loses(Inst)
        /\ x # SomeSlot => x = r.known[pc] /\ ~Moves(Inst)
      BY <1>1, <1>3 DEF Carried
  <2>2. callee # None /\ (r.known[pc] # SomeSlot => callee = bp + r.known[pc])
      BY <2>1 DEF Holds
  <2>3. callee' = callee \/ (Moves(Inst) /\ callee' \in Slots)
      BY <1>3, <2>1 DEF CalleeStep
  <2>4. None \notin Slots
      BY SlotFacts
  <2> QED BY <2>1, <2>2, <2>3, <2>4
<1> QED BY <1>2, <1>3

\* What a waiting method knows stays true.
LEMMA FramesKnow ==
    ASSUME Types, HeightsInv, Verified(prog), Looping, CalleeStep, NEW r, Tracked(prog, r),
           Upward(r.tidy, callstack), Upward(r.quiet, callstack), NEW j \in 1..Len(callstack),
           FrameKnows(r, callstack[j], callee)
    PROVE  FrameKnows(r, callstack[j], callee')
<1> DEFINE f == callstack[j]
           k == Len(callstack)
<1>1. k \in 1..k /\ j <= k /\ callstack[k].entry = Method_
    BY Here DEF Method_
<1>2. /\ f.entry \in r.tidy => Method_ \in r.tidy
      /\ f.entry \in r.quiet => Method_ \in r.quiet
    BY <1>1 DEF Upward
<1>3. /\ Method_ \in r.tidy /\ callee # None => callee' # None
      /\ Method_ \in r.quiet => callee' = callee
    BY Held
<1> HIDE DEF f
<1>4. FrameKnows(r, f, callee) => FrameKnows(r, f, callee')
    BY <1>2, <1>3 DEF FrameKnows, Holds
<1> QED BY <1>4 DEF f

LEMMA RegisterNow ==
    ASSUME NEW reg, RegisterInv(reg), Looping
    PROVE  LET r == reg[prog]
           IN  /\ Holds(r.known[pc], bp, callee)
               /\ \A j \in 1..Len(callstack) : FrameKnows(r, callstack[j], callee)
               /\ Upward(r.tidy, callstack) /\ Upward(r.quiet, callstack)
BY LoopingAlive DEF RegisterInv, Looping

LEMMA GoesRegister ==
    ASSUME NEW reg, Types, HeightsInv, Verified(prog), Tracked(prog, reg[prog]),
           RegisterInv(reg), Goes
    PROVE  RegisterInv(reg)'
<1> DEFINE r == reg[prog]
<1> SUFFICES ASSUME Alive' PROVE RegisterInv(reg)'
    BY DEF RegisterInv
<1>1. /\ Looping /\ prog' = prog /\ SameFrames /\ CalleeStep /\ bp' = bp /\ callstack' = callstack
      /\ \/ exception' = NoException /\ Follows(prog, pc, pc')
         \/ exception' # NoException /\ Inst.op = "throw" /\ pc' = pc + 1
    BY DEF Goes, SameFrames
<1>2. /\ Holds(r.known[pc], bp, callee)
      /\ \A j \in 1..Len(callstack) : FrameKnows(r, callstack[j], callee)
      /\ Upward(r.tidy, callstack) /\ Upward(r.quiet, callstack)
    BY <1>1, RegisterNow
<1>3. Method_ \in DOMAIN prog.entries /\ InMethod(prog, Method_, pc) /\ pc \in Code(prog)
      /\ Inst = prog.code[pc]
    BY <1>1, Here DEF InMethod, Inst
<1>4. \A j \in 1..Len(callstack) : FrameKnows(r, callstack[j], callee')
    BY <1>1, <1>2, FramesKnow
<1>5. exception' = NoException => Holds(r.known[pc'], bp, callee')
  <2> SUFFICES ASSUME exception' = NoException PROVE Holds(r.known[pc'], bp, callee')
      OBVIOUS
  <2> DEFINE x == r.known[pc']
  <2>1. Carried(prog, r, pc, x)
      BY <1>1, <1>3 DEF Tracked, Follows
  <2> HIDE DEF x, r
  <2> QED BY <1>1, <1>2, <2>1, Onward DEF x, r
<1>6. exception' # NoException => r.known[CatchAt(prog, pc')] = Nothing
  <2> SUFFICES ASSUME exception' # NoException PROVE r.known[CatchAt(prog, pc')] = Nothing
      OBVIOUS
  <2>1. Inst.op = "throw" /\ pc' = pc + 1 /\ Caught(prog, pc + 1)
      BY <1>1 DEF Alive, Caught, AroundAt
  <2> QED BY <1>3, <2>1 DEF Tracked
<1> QED BY <1>1, <1>2, <1>4, <1>5, <1>6 DEF RegisterInv, CatchAt, LastAround, AroundAt

LEMMA CallsRegister ==
    ASSUME NEW reg, Types, HeightsInv, Verified(prog), Tracked(prog, reg[prog]),
           RegisterInv(reg), NEW e \in DOMAIN prog.entries, CallsOf(e)
    PROVE  RegisterInv(reg)'
<1> DEFINE r == reg[prog]
           k == Len(callstack)
           cs == callstack'
<1> SUFFICES ASSUME Alive' PROVE RegisterInv(reg)'
    BY DEF RegisterInv
<1>1. /\ Looping /\ prog' = prog /\ Pushes(e) /\ Enters(prog, pc, e) /\ Inst.op \notin Stops
      /\ CalleeStep /\ exception' = NoException /\ pc' = Entry(e).start
    BY DEF CallsOf, Pushes
<1>2. /\ Holds(r.known[pc], bp, callee)
      /\ \A j \in 1..k : FrameKnows(r, callstack[j], callee)
      /\ Upward(r.tidy, callstack) /\ Upward(r.quiet, callstack)
    BY <1>1, RegisterNow
<1>3. Method_ \in DOMAIN prog.entries /\ InMethod(prog, Method_, pc) /\ pc \in Code(prog)
      /\ Inst = prog.code[pc]
    BY <1>1, Here DEF InMethod, Inst
<1>4. \A j \in 1..k : FrameKnows(r, callstack[j], callee')
    BY <1>1, <1>2, FramesKnow
<1> DEFINE top == [pc |-> pc + 1, bp |-> bp, entry |-> e]
<1>5. /\ k \in Nat \ {0} /\ Len(cs) = k + 1 /\ cs[k + 1] = top
      /\ \A i \in 1..k : cs[i] = callstack[i]
    BY <1>1, PushedFrames
<1>6. Inst.op # "setcallee"
    BY <1>1, <1>3 DEF Enters, Asked
<1>7. Carried(prog, r, pc, r.known[pc + 1])
    BY <1>1, <1>3 DEF Tracked
<1>8. FrameKnows(r, top, callee')
  <2>1. Holds(r.known[pc + 1], bp, callee')
    <3> DEFINE x == r.known[pc + 1]
    <3>1. Carried(prog, r, pc, x) /\ Holds(r.known[pc], bp, callee)
        BY <1>2, <1>7
    <3> HIDE DEF x, r
    <3> QED BY <1>1, <3>1, Onward DEF x, r
  <2>2. /\ r.known[pc + 1] # Nothing => e \in r.tidy
        /\ r.known[pc + 1] \notin {Nothing, SomeSlot} => e \in r.quiet
      BY <1>1, <1>3, <1>6, <1>7 DEF Carried
  <2> QED BY <2>1, <2>2 DEF FrameKnows
<1>9. ASSUME NEW S, Upward(S, callstack), Method_ \in S => e \in S
      PROVE  Upward(S, cs)
  <2> SUFFICES ASSUME NEW i \in 1..Len(cs), NEW j \in 1..Len(cs), i <= j, cs[i].entry \in S
               PROVE  cs[j].entry \in S
      BY DEF Upward
  <2> HIDE DEF cs, k
  <2>1. CASE i = k + 1
    <3>1. j = k + 1
        BY <1>5, <2>1
    <3> QED BY <2>1, <3>1
  <2>2. CASE i # k + 1 /\ j # k + 1
    <3>1. i \in 1..k /\ j \in 1..k
        BY <1>5, <2>2
    <3> QED BY <1>5, <1>9, <3>1 DEF Upward, k
  <2>3. CASE i # k + 1 /\ j = k + 1
    <3>1. i \in 1..k /\ k \in 1..k /\ i <= k
        BY <1>5, <2>3
    <3>2. callstack[i].entry \in S
        BY <1>5, <3>1
    <3>3. Method_ \in S
        BY <1>9, <3>1, <3>2 DEF Upward, Method_, k
    <3> QED BY <1>5, <1>9, <2>3, <3>3
  <2> QED BY <2>1, <2>2, <2>3
<1>10. Upward(r.tidy, cs) /\ Upward(r.quiet, cs)
  <2>1. (Method_ \in r.tidy => e \in r.tidy) /\ (Method_ \in r.quiet => e \in r.quiet)
      BY <1>1, <1>3 DEF Tracked
  <2> HIDE DEF r, cs
  <2> QED BY <1>2, <1>9, <2>1
<1>11. \A j \in 1..Len(cs) : FrameKnows(r, cs[j], callee')
  <2> SUFFICES ASSUME NEW j \in 1..Len(cs) PROVE FrameKnows(r, cs[j], callee')
      OBVIOUS
  <2> HIDE DEF cs, k, r, top
  <2>1. j = k + 1 \/ j \in 1..k
      BY <1>5
  <2> QED BY <1>4, <1>5, <1>8, <2>1 DEF k
<1>12. Holds(r.known[pc'], bp', callee')
    BY <1>1 DEF Tracked, Holds, Entry
<1> QED BY <1>1, <1>10, <1>11, <1>12 DEF RegisterInv

LEMMA ComesRegister ==
    ASSUME NEW reg, Types, RegisterInv(reg), Comes
    PROVE  RegisterInv(reg)'
<1> DEFINE r == reg[prog]
           k == Len(callstack)
           cs == callstack'
<1>1. /\ Looping /\ prog' = prog /\ pc' = callstack[k].pc /\ bp' = callstack[k].bp
      /\ callee' = callee /\ exception' = exception
    BY DEF Comes
<1>2. /\ \A j \in 1..k : FrameKnows(r, callstack[j], callee)
      /\ Upward(r.tidy, callstack) /\ Upward(r.quiet, callstack)
    BY <1>1, RegisterNow
<1>3. /\ k \in Nat \ {0} /\ Len(cs) = k - 1
      /\ \A i \in 1..(k - 1) : i \in 1..k /\ cs[i] = callstack[i]
    BY PoppedFrames
<1>4. Holds(r.known[pc'], bp', callee')
  <2>1. k \in 1..k
      BY <1>3
  <2>2. FrameKnows(r, callstack[k], callee)
      BY <1>2, <2>1
  <2> QED BY <1>1, <2>2 DEF FrameKnows
<1>5. \A j \in 1..Len(cs) : FrameKnows(r, cs[j], callee')
    BY <1>1, <1>2, <1>3
<1>6. Upward(r.tidy, cs) /\ Upward(r.quiet, cs)
    BY <1>2, <1>3 DEF Upward
<1>7. exception' = NoException
    BY <1>1 DEF Looping
<1> QED BY <1>1, <1>4, <1>5, <1>6, <1>7 DEF RegisterInv

LEMMA BetweenRegister ==
    ASSUME NEW reg, RegisterInv(reg), Between
    PROVE  RegisterInv(reg)'
<1> SUFFICES ASSUME Alive' PROVE RegisterInv(reg)'
    BY DEF RegisterInv
<1>1. /\ Alive /\ UNCHANGED <<prog, bp, callstack, callee>>
      /\ \/ UNCHANGED <<pc, exception>>
         \/ exception # NoException /\ exception' = NoException /\ pc' = CatchAt(prog, pc)
    BY DEF Between, SameFrames
<1> DEFINE r == reg[prog]
<1>2. /\ exception = NoException => Holds(r.known[pc], bp, callee)
      /\ exception # NoException => r.known[CatchAt(prog, pc)] = Nothing
      /\ \A j \in 1..Len(callstack) : FrameKnows(r, callstack[j], callee)
      /\ Upward(r.tidy, callstack) /\ Upward(r.quiet, callstack)
    BY <1>1 DEF RegisterInv
<1>3. exception' = NoException => Holds(r.known[pc'], bp, callee)
    BY <1>1, <1>2 DEF Holds
<1>4. exception' # NoException => r.known[CatchAt(prog, pc')] = Nothing
    BY <1>1, <1>2
<1> QED BY <1>1, <1>2, <1>3, <1>4 DEF RegisterInv, CatchAt, LastAround, AroundAt

LEMMA StepRegister ==
    ASSUME NEW reg, Types, HeightsInv, Verified(prog), Tracked(prog, reg[prog]),
           AddsNumbers, RegisterInv(reg), [Next]_vars
    PROVE  RegisterInv(reg)'
BY StepShape, GoesRegister, CallsRegister, ComesRegister, BetweenRegister DEF Reached

LEMMA InitFrames ==
    ASSUME Init
    PROVE  /\ Len(callstack) = 1 /\ callstack[1].pc = Entry(1).start /\ callstack[1].entry = 1
           /\ 1 \in DOMAIN prog.entries /\ pc = Entry(1).start /\ bp = 0
           /\ Len(host) = 1 /\ host[1].then = "none" /\ exception = NoException
<1> DEFINE h == [depth |-> 1, then |-> "none", arity |-> 0]
           f == [pc |-> Entry(1).start, bp |-> 0, entry |-> 1]
<1>1. /\ host = <<h>> /\ callstack = <<f>> /\ f.pc = Entry(1).start /\ f.entry = 1
      /\ h.then = "none" /\ prog \in Programs /\ pc = Entry(1).start /\ bp = 0
      /\ exception = NoException
    BY DEF Init
<1>2. 1 \in DOMAIN prog.entries
    BY <1>1, ProgramsAssumption DEF ProgramType
<1> HIDE DEF h, f
<1> QED BY <1>1, <1>2

LEMMA InitRegister ==
    ASSUME NEW reg, Init, Tracked(prog, reg[prog])
    PROVE  RegisterInv(reg)
<1> DEFINE r == reg[prog]
<1>1. r.known[Entry(1).start] = Nothing
    BY InitFrames DEF Tracked, Entry
<1>2. Holds(r.known[pc], bp, callee)
    BY <1>1, InitFrames DEF Holds
<1>3. ASSUME NEW j \in 1..Len(callstack) PROVE j = 1
  <2>1. Len(callstack) = 1
      BY InitFrames
  <2> QED BY <2>1
<1> HIDE DEF r
<1>4. FrameKnows(r, callstack[1], callee)
    BY <1>1, InitFrames DEF FrameKnows, Holds
<1>5. \A j \in 1..Len(callstack) : FrameKnows(r, callstack[j], callee)
    BY <1>3, <1>4
<1>6. \A S : Upward(S, callstack)
    BY <1>3 DEF Upward
<1> QED BY <1>2, <1>5, <1>6, InitFrames DEF RegisterInv, r

LEMMA DispatchedNow ==
    ASSUME NEW reg, Types, HeightsInv, Verified(prog), Looping, RegisterInv(reg),
           Dispatches(prog, reg[prog])
    PROVE  Dispatched
<1> DEFINE r == reg[prog]
<1>1. /\ Method_ \in DOMAIN prog.entries /\ InMethod(prog, Method_, pc) /\ pc \in Code(prog)
      /\ Inst = prog.code[pc] /\ Heights(prog, Method_, pc) /\ ptr = bp + prog.height[pc]
      /\ bp \in Int
    BY Here, StackTypes, SlotFacts DEF InMethod, Inst, Heights_
<1>2. Holds(r.known[pc], bp, callee)
    BY RegisterNow
<1>3. ASSUME Inst.op = "vcall" PROVE callee = ptr - 1 - Inst.n
  <2>1. r.known[pc] = prog.height[pc] - 1 - Inst.n
      BY <1>1, <1>3 DEF Dispatches
  <2>2. Needs(Inst) = Inst.n + 1 /\ Inst.n \in Nat
    <3>1. Inst.n \in Nat
        BY <1>1, InstructionFields DEF Types, Running, Code
    <3> QED BY <1>3, <3>1 DEF Needs
  <2>3. prog.height[pc] \in Nat /\ prog.height[pc] >= Inst.n + 1
      BY <1>1, <2>2 DEF Heights
  <2> DEFINE x == r.known[pc]
  <2>4. Holds(x, bp, callee) /\ x = prog.height[pc] - 1 - Inst.n
      BY <1>2, <2>1
  <2> HIDE DEF x
  <2>5. x # Nothing /\ x # SomeSlot
      BY <2>2, <2>3, <2>4 DEF Nothing, SomeSlot
  <2>6. callee = bp + x
      BY <2>4, <2>5 DEF Holds
  <2> QED BY <1>1, <2>2, <2>3, <2>4, <2>6
<1> QED BY <1>1, <1>3 DEF Dispatches, Dispatched

--------------------------------------------------------------------------------
(***************************************************************************)
(* The receiver of a method lies under its first slot as long as the       *)
(* method is on the call stack.                                            *)
(***************************************************************************)
ThisAt(p, cs, hs, b, s, j) ==
    hs[j].then = "fold" =>
        BaseOf(cs, b, j) > 0 /\ Receives(p, s[BaseOf(cs, b, j) - 1], cs[j].entry)

ThisInv ==
    Alive => \A j \in 2..Len(callstack) : ThisAt(prog, callstack, host, bp, buf, j)

\* An activation that a step leaves alone keeps its receiver.
LEMMA ThisStays ==
    ASSUME Types, HeightsInv, Alive, ThisInv, UnderKept, prog' = prog,
           NEW j \in 2..Len(callstack), host'[j] = host[j], callstack'[j] = callstack[j],
           BaseOf(callstack', bp', j) = BaseOf(callstack, bp, j)
    PROVE  ThisAt(prog, callstack', host', bp', buf', j)
<1>1. j \in 1..Len(callstack)
    BY AliveFrames
<1>2. ThisAt(prog, callstack, host, bp, buf, j)
    BY DEF ThisInv
<1>3. BaseOf(callstack, bp, j) > 0 =>
        buf'[BaseOf(callstack, bp, j) - 1] = buf[BaseOf(callstack, bp, j) - 1]
    BY <1>1, UnderBase
<1> DEFINE b == BaseOf(callstack, bp, j)
           c == BaseOf(callstack', bp', j)
<1>4. /\ host[j].then = "fold" => b > 0 /\ Receives(prog, buf[b - 1], callstack[j].entry)
      /\ b > 0 => buf'[b - 1] = buf[b - 1]
      /\ c = b
    BY <1>2, <1>3 DEF ThisAt
<1>5. host'[j].then = "fold" => c > 0 /\ Receives(prog, buf'[c - 1], callstack'[j].entry)
  <2> HIDE DEF b, c
  <2> QED BY <1>4
<1> QED BY <1>5 DEF ThisAt

LEMMA SameThis ==
    ASSUME Types, HeightsInv, ThisInv, HeightsInv', Types', SameFrames, prog' = prog
    PROVE  ThisInv'
<1> SUFFICES ASSUME Alive', NEW j \in 2..Len(callstack')
             PROVE  ThisAt(prog, callstack', host', bp', buf', j)
    BY DEF ThisInv
<1>1. /\ Alive /\ bp' = bp /\ callstack' = callstack /\ UnderKept
      /\ \A i \in 1..Len(host') : host'[i] = host[i]
    BY DEF SameFrames
<1>2. InStep(callstack', host') /\ Len(callstack') \in Nat /\ Len(host') \in Nat
  <2>1. InStep(callstack', host')
      BY DEF Alive, HeightsInv
  <2> QED BY <2>1, LenProperties DEF Types
<1>3. j \in 1..Len(host')
    BY <1>2 DEF InStep
<1> QED BY <1>1, <1>3, ThisStays

LEMMA CallsThis ==
    ASSUME Types, HeightsInv, Verified(prog), ThisInv, Dispatched,
           NEW e \in DOMAIN prog.entries, CallsOf(e)
    PROVE  ThisInv'
<1> DEFINE k == Len(callstack)
<1> SUFFICES ASSUME Alive', NEW j \in 2..Len(callstack')
             PROVE  ThisAt(prog, callstack', host', bp', buf', j)
    BY DEF ThisInv, CallsOf
<1>1. Looping /\ Alive /\ prog' = prog /\ Pushes(e) /\ UnderKept
    BY LoopingAlive DEF CallsOf, Pushes
<1>2. /\ k \in Nat \ {0} /\ Len(callstack') = k + 1
      /\ callstack'[k + 1] = [pc |-> pc + 1, bp |-> bp, entry |-> e]
      /\ BaseOf(callstack', bp', k + 1) = bp'
      /\ \A i \in 1..k :
           /\ callstack'[i] = callstack[i]
           /\ BaseOf(callstack', bp', i) = BaseOf(callstack, bp, i)
    BY <1>1, PushedFrames
<1>3. PICK act \in Activation :
         /\ host' = Append(host, act)
         /\ act.then = "fold" =>
              /\ act.arity = 0
              /\ Dispatched => bp' > 0 /\ Receives(prog, buf'[bp' - 1], e)
    BY <1>1 DEF Pushes
<1>4. Len(host) = k /\ host \in Seq(Activation)
    BY <1>1, Here DEF Types
<1>5. host'[k + 1] = act /\ \A i \in 1..k : host'[i] = host[i]
    BY <1>3, <1>4, AppendProperties
<1>6. CASE j = k + 1
  <2>1. callstack'[j].entry = e /\ BaseOf(callstack', bp', j) = bp' /\ host'[j] = act
      BY <1>2, <1>5, <1>6
  <2> QED BY <1>3, <2>1 DEF ThisAt
<1>7. CASE j # k + 1
  <2>1. j \in 2..k /\ j \in 1..k
      BY <1>2, <1>7
  <2> QED BY <1>1, <1>2, <1>5, <2>1, ThisStays
<1> QED BY <1>6, <1>7

LEMMA ComesThis ==
    ASSUME Types, HeightsInv, ThisInv, Comes PROVE ThisInv'
<1> DEFINE k == Len(callstack)
<1> SUFFICES ASSUME NEW j \in 2..Len(callstack')
             PROVE  ThisAt(prog, callstack', host', bp', buf', j)
    BY DEF ThisInv, Comes
<1>1. Alive /\ prog' = prog /\ host' = host /\ UnderKept
    BY LoopingAlive DEF Comes
<1>2. /\ k \in Nat \ {0} /\ Len(callstack') = k - 1
      /\ \A i \in 1..(k - 1) :
           /\ callstack'[i] = callstack[i]
           /\ BaseOf(callstack', bp', i) = BaseOf(callstack, bp, i)
    BY PoppedFrames
<1>3. j \in 1..(k - 1) /\ j \in 2..k
    BY <1>2
<1> QED BY <1>1, <1>2, <1>3, ThisStays

LEMMA StepThis ==
    ASSUME NEW reg, Types, HeightsInv, Verified(prog), RegisterInv(reg),
           Dispatches(prog, reg[prog]), AddsNumbers, ThisInv, [Next]_vars
    PROVE  ThisInv'
<1>1. Types' /\ HeightsInv'
    BY StepTypes, StepHeights
<1>2. CASE Goes \/ Between
  <2>1. CASE Alive'
    <3>1. SameFrames /\ prog' = prog
        BY <1>2, <2>1 DEF Goes, Between
    <3> QED BY <1>1, <3>1, SameThis
  <2> QED BY <2>1 DEF ThisInv
<1>3. ASSUME NEW e \in DOMAIN prog.entries, CallsOf(e) PROVE ThisInv'
  <2>1. Dispatched
      BY <1>3, DispatchedNow DEF CallsOf
  <2> QED BY <1>3, <2>1, CallsThis
<1> QED BY <1>2, <1>3, ComesThis, StepShape DEF Reached

LEMMA InitThis == ASSUME Init PROVE ThisInv
<1>1. Len(callstack) = 1
    BY InitFrames
<1> QED BY <1>1 DEF ThisInv

--------------------------------------------------------------------------------
(***************************************************************************)
(* Room.  Each activation has, above its first slot, as many slots as a    *)
(* call of its method needs at that depth.                                 *)
(***************************************************************************)
RoomAt(p, need, cs, b, j) ==
    /\ BaseOf(cs, b, j) + need[j][cs[j].entry] <= StackSize
    /\ UsesThis(p, cs[j].entry) => BaseOf(cs, b, j) > 0

RoomsInv(need) ==
    Alive =>
        /\ Len(callstack) < MaxCalls
        /\ \A j \in 1..Len(host) : host[j].then = "fold" => host[j].arity = 0
        /\ \A j \in 1..Len(callstack) : RoomAt(prog, need[prog], callstack, bp, j)

LEMMA SameRooms ==
    ASSUME NEW need, RoomsInv(need), SameFrames, prog' = prog
    PROVE  RoomsInv(need)'
<1>1. /\ Alive /\ bp' = bp /\ callstack' = callstack
      /\ \A j \in 1..Len(host') : j \in 1..Len(host) /\ host'[j] = host[j]
    BY DEF SameFrames
<1>2. \A j \in 1..Len(host') : host'[j].then = "fold" => host'[j].arity = 0
    BY <1>1 DEF RoomsInv
<1> QED BY <1>1, <1>2 DEF RoomsInv

LEMMA ComesRooms ==
    ASSUME NEW need, Types, RoomsInv(need), Comes PROVE RoomsInv(need)'
<1> DEFINE k == Len(callstack)
<1>1. Alive /\ prog' = prog /\ host' = host
    BY LoopingAlive DEF Comes
<1>2. /\ k \in Nat \ {0} /\ Len(callstack') = k - 1
      /\ \A i \in 1..(k - 1) :
           /\ i \in 1..k /\ callstack'[i] = callstack[i]
           /\ BaseOf(callstack', bp', i) = BaseOf(callstack, bp, i)
    BY PoppedFrames
<1>3. /\ k < MaxCalls /\ \A j \in 1..Len(host) : host[j].then = "fold" => host[j].arity = 0
      /\ \A j \in 1..k : RoomAt(prog, need[prog], callstack, bp, j)
    BY <1>1 DEF RoomsInv
<1>4. Len(callstack') < MaxCalls
    BY <1>2, <1>3, SizesAssumption
<1>5. ASSUME NEW j \in 1..Len(callstack')
      PROVE  RoomAt(prog, need[prog], callstack', bp', j)
  <2>1. /\ j \in 1..k /\ callstack'[j] = callstack[j]
        /\ BaseOf(callstack', bp', j) = BaseOf(callstack, bp, j)
      BY <1>2
  <2>2. RoomAt(prog, need[prog], callstack, bp, j)
      BY <1>3, <2>1
  <2> QED BY <2>1, <2>2 DEF RoomAt
<1> QED BY <1>1, <1>3, <1>4, <1>5 DEF RoomsInv

\* What Fitting says of the running method.
LEMMA FittingHere ==
    ASSUME NEW need, Types, HeightsInv, Verified(prog), Roomy(prog, need[prog]),
           RoomsInv(need), Looping
    PROVE  LET k == Len(callstack)
           IN  /\ k \in 1..(MaxCalls - 1) /\ k \in 1..k
               /\ RoomAt(prog, need[prog], callstack, bp, k) /\ BaseOf(callstack, bp, k) = bp
               /\ Fitting(prog, need[prog], Method_, pc)
               /\ \A d \in 1..MaxCalls : \A e \in DOMAIN prog.entries :
                    need[prog][d][e] \in Nat /\ Entry(e).locals <= need[prog][d][e]
<1> DEFINE k == Len(callstack)
<1>1. /\ k \in Nat \ {0} /\ Method_ \in DOMAIN prog.entries /\ InMethod(prog, Method_, pc)
      /\ pc \in Code(prog)
    BY Here DEF InMethod
<1>2. k < MaxCalls /\ \A j \in 1..k : RoomAt(prog, need[prog], callstack, bp, j)
    BY LoopingAlive DEF RoomsInv
<1>3. k \in 1..(MaxCalls - 1) /\ k \in 1..k
    BY <1>1, <1>2, SizesAssumption
<1>4. Fitting(prog, need[prog], Method_, pc)
    BY <1>1 DEF Roomy
<1>5. \A d \in 1..MaxCalls : \A e \in DOMAIN prog.entries :
         need[prog][d][e] \in Nat /\ Entry(e).locals <= need[prog][d][e]
    BY DEF Roomy, Entry
<1>6. BaseOf(callstack, bp, k) = bp
    BY DEF BaseOf
<1> QED BY <1>2, <1>3, <1>4, <1>5, <1>6

\* The room there is for a method that is called.
LEMMA CalleeRoom ==
    ASSUME NEW need, Types, HeightsInv, Verified(prog), Roomy(prog, need[prog]),
           RoomsInv(need), Looping, NEW e \in DOMAIN prog.entries, Enters(prog, pc, e),
           Ahead(prog, pc) \in Nat
    PROVE  LET m == need[prog][Len(callstack) + 1][e]
           IN  /\ bp + Ahead(prog, pc) + m <= StackSize /\ Entry(e).locals <= m
               /\ UsesThis(prog, e) => bp + Ahead(prog, pc) > 0
<1> DEFINE k == Len(callstack)
           m == need[prog][k + 1][e]
           n == need[prog][k][Method_]
           a == Ahead(prog, pc)
<1>1. /\ k \in 1..(MaxCalls - 1) /\ Fitting(prog, need[prog], Method_, pc)
      /\ RoomAt(prog, need[prog], callstack, bp, k) /\ BaseOf(callstack, bp, k) = bp
      /\ \A d \in 1..MaxCalls : \A f \in DOMAIN prog.entries :
           need[prog][d][f] \in Nat /\ Entry(f).locals <= need[prog][d][f]
    BY FittingHere
<1>2. k + 1 \in 1..MaxCalls /\ k \in 1..MaxCalls
    BY <1>1, SizesAssumption
<1>3. m \in Nat /\ Entry(e).locals <= m
    BY <1>1, <1>2
<1>4. n \in Nat
    BY <1>1, <1>2, Here
<1>5. bp + n <= StackSize
    BY <1>1 DEF RoomAt, Method_
<1>6. a + m <= n /\ (UsesThis(prog, e) => a > 0)
    BY <1>1 DEF Fitting
<1>7. bp \in Nat
    BY StackTypes, SlotFacts DEF Heights_
<1> HIDE DEF m, n, a
<1>8. a \in Nat
    BY DEF a
<1>9. bp + a + m <= StackSize /\ (UsesThis(prog, e) => bp + a > 0)
    BY <1>3, <1>4, <1>5, <1>6, <1>7, <1>8, SlotFacts
<1> QED BY <1>3, <1>9 DEF m, a

LEMMA CallsRooms ==
    ASSUME NEW need, Types, HeightsInv, Verified(prog), Roomy(prog, need[prog]),
           RoomsInv(need), NEW e \in DOMAIN prog.entries, CallsOf(e)
    PROVE  RoomsInv(need)'
<1> DEFINE k == Len(callstack)
<1> SUFFICES ASSUME Alive' PROVE RoomsInv(need)'
    BY DEF RoomsInv
<1>1. /\ Looping /\ Alive /\ prog' = prog /\ Pushes(e)
      /\ bp' = bp + Ahead(prog, pc) /\ k + 1 < MaxCalls
    BY LoopingAlive DEF CallsOf, Pushes
<1>2. /\ k \in Nat \ {0} /\ Len(callstack') = k + 1
      /\ callstack'[k + 1] = [pc |-> pc + 1, bp |-> bp, entry |-> e]
      /\ BaseOf(callstack', bp', k + 1) = bp'
      /\ \A i \in 1..k :
           /\ callstack'[i] = callstack[i]
           /\ BaseOf(callstack', bp', i) = BaseOf(callstack, bp, i)
    BY <1>1, PushedFrames
<1>3. PICK act \in Activation : host' = Append(host, act) /\ (act.then = "fold" => act.arity = 0)
    BY <1>1 DEF Pushes
<1>4. Len(host) = k /\ host \in Seq(Activation)
    BY <1>1, Here DEF Types
<1>5. Len(host') = k + 1 /\ host'[k + 1] = act /\ \A i \in 1..k : host'[i] = host[i]
    BY <1>3, <1>4, AppendProperties
<1>6. /\ \A j \in 1..k : host[j].then = "fold" => host[j].arity = 0
      /\ \A j \in 1..k : RoomAt(prog, need[prog], callstack, bp, j)
    BY <1>1, <1>4 DEF RoomsInv
<1>7. ASSUME NEW j \in 1..Len(host'), host'[j].then = "fold" PROVE host'[j].arity = 0
  <2>1. j = k + 1 \/ j \in 1..k
      BY <1>2, <1>5
  <2> QED BY <1>3, <1>5, <1>6, <1>7, <2>1
<1>8. RoomAt(prog, need[prog], callstack', bp', k + 1)
    BY <1>1, <1>2, CalleeRoom DEF RoomAt, CallsOf
<1>9. ASSUME NEW j \in 1..Len(callstack')
      PROVE  RoomAt(prog, need[prog], callstack', bp', j)
  <2>1. j = k + 1 \/ j \in 1..k
      BY <1>2
  <2>2. CASE j \in 1..k
    <3>1. RoomAt(prog, need[prog], callstack, bp, j)
        BY <1>6, <2>2
    <3> QED BY <1>2, <2>2, <3>1 DEF RoomAt
  <2> QED BY <1>8, <2>1, <2>2
<1>10. Len(callstack') < MaxCalls
    BY <1>1, <1>2
<1> QED BY <1>1, <1>7, <1>9, <1>10 DEF RoomsInv

LEMMA StepRooms ==
    ASSUME NEW need, Types, HeightsInv, Verified(prog), Roomy(prog, need[prog]), AddsNumbers,
           RoomsInv(need), [Next]_vars
    PROVE  RoomsInv(need)'
<1>1. CASE Goes \/ Between
  <2>1. CASE Alive'
    <3>1. SameFrames /\ prog' = prog
        BY <1>1, <2>1 DEF Goes, Between
    <3> QED BY <3>1, SameRooms
  <2> QED BY <2>1 DEF RoomsInv
<1> QED BY <1>1, CallsRooms, ComesRooms, StepShape DEF Reached

LEMMA InitRooms ==
    ASSUME NEW need, Init, Roomy(prog, need[prog]), MaxCalls > 1 PROVE RoomsInv(need)
<1>1. /\ Len(callstack) = 1 /\ callstack[1].entry = 1 /\ bp = 0
      /\ Len(host) = 1 /\ host[1].then = "none"
    BY InitFrames
<1>2. need[prog][1][1] <= StackSize /\ ~UsesThis(prog, 1) /\ need[prog][1][1] \in Nat
  <2>1. 1 \in 1..MaxCalls /\ 1 \in DOMAIN prog.entries
      BY InitFrames, SizesAssumption
  <2> QED BY <2>1 DEF Roomy
<1>3. RoomAt(prog, need[prog], callstack, bp, 1)
    BY <1>1, <1>2 DEF RoomAt, BaseOf
<1>4. \A j \in 1..1 : j = 1
    OBVIOUS
<1> QED BY <1>1, <1>3, <1>4 DEF RoomsInv

--------------------------------------------------------------------------------
(***************************************************************************)
(* Nothing is read or written outside the stack.                           *)
(***************************************************************************)
LEMMA FitsHere ==
    ASSUME NEW reg, NEW need, Types, HeightsInv, Verified(prog), Tracked(prog, reg[prog]),
           Roomy(prog, need[prog]), RegisterInv(reg), RoomsInv(need), Looping
    PROVE  ~(pc > Len(prog.code)) /\ Fits(Inst)
<1> DEFINE k == Len(callstack)
           m == need[prog][k][Method_]
           h == prog.height[pc]
<1>1. /\ Method_ \in DOMAIN prog.entries /\ InMethod(prog, Method_, pc) /\ pc \in Code(prog)
      /\ Inst = prog.code[pc] /\ ptr = bp + h
      /\ Heights(prog, Method_, pc) /\ Raises(prog, Method_, pc)
    BY Here DEF InMethod, Inst
<1>2. h \in Nat /\ h >= Needs(Inst) /\ (Inst.op = "ret" => h = Entry(Method_).locals + 1)
    BY <1>1 DEF Heights, Entry
<1>3. /\ k \in 1..(MaxCalls - 1) /\ Fitting(prog, need[prog], Method_, pc)
      /\ RoomAt(prog, need[prog], callstack, bp, k) /\ BaseOf(callstack, bp, k) = bp
      /\ \A d \in 1..MaxCalls : \A e \in DOMAIN prog.entries :
           need[prog][d][e] \in Nat /\ Entry(e).locals <= need[prog][d][e]
    BY FittingHere
<1>4. bp \in Nat /\ ptr \in Int
    BY StackTypes, SlotFacts DEF Heights_
<1>5. /\ bp + m <= StackSize /\ (UsesThis(prog, Method_) => bp > 0)
      /\ h < m /\ (Inst.op \in {"ldloc", "stloc"} => Inst.k < h)
    BY <1>1, <1>3 DEF RoomAt, Fitting, Method_
<1>6. m \in Nat /\ k \in 1..MaxCalls
    BY <1>1, <1>3, SizesAssumption
<1>7. Needs(Inst) \in Int /\ Inst.k \in Nat
  <2>1. Inst.k \in Nat /\ Inst.n \in Nat /\ Inst.arity \in Nat
      BY <1>1, InstructionFields DEF Types, Running, Code
  <2> QED BY <2>1 DEF Needs
<1> DEFINE need_ == Needs(Inst)
<1>8. need_ <= ptr /\ ptr < StackSize
  <2>1. need_ \in Int /\ h >= need_
      BY <1>2, <1>7
  <2> HIDE DEF need_, h, m
  <2> QED BY <1>1, <1>2, <1>4, <1>5, <1>6, <2>1, SlotFacts
<1>9. Inst.op = "ldthis" => bp > 0
    BY <1>1, <1>5 DEF UsesThis
<1>10. /\ Inst.op = "ldloc" => bp + Inst.k < ptr
       /\ Inst.op = "stloc" => bp + Inst.k < StackSize
    BY <1>1, <1>2, <1>4, <1>5, <1>7, <1>8, SlotFacts
<1>11. Inst.op = "vcall" => callee # None
  <2>1. Holds(reg[prog].known[pc], bp, callee)
      BY RegisterNow
  <2>2. Inst.op = "vcall" => reg[prog].known[pc] # Nothing
      BY <1>1 DEF Tracked
  <2> QED BY <2>1, <2>2 DEF Holds
<1>12. Inst.op = "ret" => ptr > Entry(callstack[k].entry).locals
  <2>1. Entry(Method_).locals \in Nat
      BY <1>1, EntryFields DEF Types, Running, Entry
  <2> QED BY <1>1, <1>2, <1>4, <2>1 DEF Method_
<1>13. Inst.op # "param_to_arr" /\ ~(pc > Len(prog.code))
  <2>1. Len(prog.code) \in Nat
      BY ProgramsAssumption DEF ProgramType, Types, Running
  <2> QED BY <1>1, <2>1 DEF Raises, Code
<1> QED BY <1>8, <1>9, <1>10, <1>11, <1>12, <1>13 DEF Fits, InRange

LEMMA EndsWell ==
    ASSUME NEW need, Types, HeightsInv, Verified(prog), RoomsInv(need), RunEnd
    PROVE  status' # "fault"
<1> DEFINE h == host[Len(host)]
<1>1. status = "run" /\ Alive
    BY DEF RunEnd, Alive
<1>2. CASE h.then = "none"
    BY <1>1, <1>2 DEF RunEnd
<1>3. CASE h.then # "none"
  <2>1. h \in Activation /\ ptr - 2 + Given(h) >= bp
      BY <1>3, AtRunEnd
  <2>2. bp \in Nat /\ ptr \in Int
      BY StackTypes, SlotFacts DEF Heights_
  <2>3. h.then = "fold" => h.arity = 0
    <3>1. Len(host) \in 1..Len(host)
        BY EmptySeq DEF RunEnd, Types, Hosted
    <3> QED BY <1>1, <3>1 DEF RoomsInv
  <2>4. Given(h) = -h.arity /\ h.arity \in Nat
    <3>1. h.arity \in Nat /\ h.then \in {"fold", "native"}
        BY <1>3, <2>1 DEF Activation
    <3>2. CASE h.then = "fold"
        BY <2>3, <3>2 DEF Given
    <3>3. CASE h.then = "native"
        BY <3>1, <3>3 DEF Given
    <3> QED BY <3>1, <3>2, <3>3
  <2> DEFINE g == Given(h)
             a == h.arity
  <2>5. g = -a /\ a \in Nat /\ ptr - 2 + g >= bp
      BY <2>1, <2>4
  <2>6. ~(ptr < a + 2)
    <3> HIDE DEF g, a
    <3> QED BY <2>2, <2>5
  <2> QED BY <1>1, <2>6 DEF RunEnd
<1> QED BY <1>2, <1>3

\* The handler has room for the exception.
LEMMA RoomForException ==
    ASSUME NEW need, Types, HeightsInv, Verified(prog), Roomy(prog, need[prog]), RoomsInv(need),
           status = "run", exception # NoException, Caught(prog, pc)
    PROVE  ptr < StackSize
<1> DEFINE k == Len(callstack)
           m == need[prog][k][Method_]
           c == CatchAt(prog, pc)
           h == prog.height[c]
<1>1. /\ Alive /\ InStep(callstack, host) /\ k = Len(host) /\ Hosted(host)
      /\ InMethod(prog, Method_, c) /\ ptr + 1 = bp + h
    BY DEF Alive, HeightsInv, Level, Method_, Types
<1>2. k \in Nat \ {0}
    BY <1>1, EmptySeq, LenProperties DEF Types, Hosted
<1>3. k < MaxCalls /\ RoomAt(prog, need[prog], callstack, bp, k)
    BY <1>1, <1>2 DEF RoomsInv
<1>4. k \in 1..(MaxCalls - 1) /\ k \in 1..MaxCalls
    BY <1>2, <1>3, SizesAssumption
<1>5. callstack[k] \in FrameOf(prog) /\ Method_ = callstack[k].entry
    BY <1>2, ElementOfSeq DEF Types, Method_
<1>6. Method_ \in DOMAIN prog.entries /\ c \in Code(prog)
    BY <1>1, <1>5 DEF FrameOf, InMethod
<1>7. h < m /\ m \in Nat /\ h \in Nat
    BY <1>1, <1>4, <1>6 DEF Roomy, Fitting, Verified, Heights
<1>8. bp + m <= StackSize
    BY <1>3, <1>5 DEF RoomAt, BaseOf
<1>9. bp \in Nat /\ ptr \in Int
    BY StackTypes, SlotFacts DEF Heights_
<1> HIDE DEF m, h
<1> QED BY <1>1, <1>7, <1>8, <1>9, SlotFacts

LEMMA StepSafe ==
    ASSUME NEW reg, NEW need, Types, HeightsInv, Verified(prog), Tracked(prog, reg[prog]),
           Roomy(prog, need[prog]), RegisterInv(reg), RoomsInv(need), AddsNumbers, NoFault,
           [Next]_vars
    PROVE  NoFault'
<1> SUFFICES ASSUME status' = "fault" PROVE FALSE
    BY DEF NoFault
<1>1. CASE Goes \/ Comes
    BY <1>1 DEF Goes, Comes
<1>2. ASSUME NEW e \in DOMAIN prog.entries, CallsOf(e) PROVE FALSE
  <2> DEFINE m == need[prog][Len(callstack) + 1][e]
             l == Entry(e).locals
             a == Ahead(prog, pc)
  <2>1. /\ Looping /\ Enters(prog, pc, e) /\ a \in Nat /\ bp + a + l > StackSize
      BY <1>2 DEF CallsOf
  <2>2. bp + a + m <= StackSize /\ l <= m
      BY <2>1, CalleeRoom
  <2>3. m \in Nat /\ l \in Nat /\ bp \in Nat
    <3>1. Len(callstack) + 1 \in 1..MaxCalls
        BY <2>1, FittingHere, SizesAssumption
    <3> QED BY <3>1, EntryFields, StackTypes, SlotFacts DEF Roomy, Types, Running, Entry, Heights_
  <2> HIDE DEF m, l, a
  <2> QED BY <2>1, <2>2, <2>3, SlotFacts
<1>3. CASE Between
  <2>1. StackFault \/ RunEnd \/ NoRoomToHandle
      BY <1>3 DEF Between, NoFault
  <2>2. ~StackFault
      BY FitsHere DEF StackFault
  <2>3. ~NoRoomToHandle
      BY RoomForException DEF NoRoomToHandle
  <2> QED BY <2>1, <2>2, <2>3, EndsWell
<1> QED BY <1>1, <1>2, <1>3, StepShape DEF Reached

--------------------------------------------------------------------------------
(***************************************************************************)
(* Handlers.  The last one around pc is inside all others around pc, and   *)
(* the first is around pc if any is.                                       *)
(***************************************************************************)
LEMMA InnermostLast ==
    ASSUME NEW p \in Programs, Nested(p), NEW i \in Nat
    PROVE  LET around == {t \in p.tries : t.begin <= i /\ i < t.end}
           IN  /\ around # {} <=> Caught(p, i)
               /\ around # {} => \E t \in around :
                    /\ \A u \in around : Inside(t, u)
                    /\ t.catch = CatchAt(p, i)
<1> DEFINE hs == p.handlers
           around == {t \in p.tries : t.begin <= i /\ i < t.end}
<1>1. /\ p.tries = {hs[h] : h \in 1..Len(hs)} /\ Len(hs) \in Nat
      /\ \A h \in 1..Len(hs) :
           /\ hs[h].begin \in Nat /\ hs[h].end \in Nat /\ Inside(hs[h], hs[1])
           /\ \A g \in 1..h : Inside(hs[h], hs[g]) \/ Apart(hs[h], hs[g])
    BY ProgramsAssumption DEF Nested, ProgramType
<1>2. \A h \in AroundAt(p, i) : h \in 1..Len(hs) /\ hs[h] \in around
    BY <1>1 DEF AroundAt
<1>3. ASSUME NEW t \in around PROVE \E h \in AroundAt(p, i) : t = hs[h]
    BY <1>1 DEF AroundAt
<1>4. AroundAt(p, i) # {} => 1 \in AroundAt(p, i)
  <2> SUFFICES ASSUME NEW h \in AroundAt(p, i) PROVE 1 \in AroundAt(p, i)
      OBVIOUS
  <2>1. h \in 1..Len(hs) /\ 1 \in 1..Len(hs) /\ hs[h].begin <= i /\ i < hs[h].end
      BY <1>1 DEF AroundAt
  <2>2. /\ hs[h].begin \in Nat /\ hs[h].end \in Nat /\ hs[1].begin \in Nat /\ hs[1].end \in Nat
        /\ hs[1].begin <= hs[h].begin /\ hs[h].end <= hs[1].end
      BY <1>1, <2>1 DEF Inside
  <2>3. hs[1].begin <= i /\ i < hs[1].end
      BY <2>1, <2>2
  <2> QED BY <2>1, <2>3 DEF AroundAt
<1>5. around # {} <=> Caught(p, i)
    BY <1>2, <1>3, <1>4 DEF Caught
<1>6. ASSUME around # {}
      PROVE  \E t \in around : (\A u \in around : Inside(t, u)) /\ t.catch = CatchAt(p, i)
  <2> DEFINE l == LastAround(p, i)
  <2>1. AroundAt(p, i) # {}
      BY <1>3, <1>6
  <2>2. l \in AroundAt(p, i) /\ \A h \in AroundAt(p, i) : h <= l
    <3>1. AroundAt(p, i) \in SUBSET (1..Len(hs))
        BY DEF AroundAt
    <3> DEFINE S == AroundAt(p, i)
    <3> HIDE DEF S, hs
    <3>2. \E h \in S : \A j \in S : j <= h
        BY <1>1, <2>1, <3>1, Greatest DEF S
    <3> QED BY <3>2 DEF LastAround, S
  <2>3. ASSUME NEW u \in around PROVE Inside(hs[l], u)
    <3>1. PICK h \in AroundAt(p, i) : u = hs[h]
        BY <1>3
    <3>2. h \in 1..Len(hs) /\ l \in 1..Len(hs) /\ h <= l
        BY <1>2, <2>2
    <3>3. h \in 1..l
        BY <1>1, <3>2
    <3>4. Inside(hs[l], hs[h]) \/ Apart(hs[l], hs[h])
        BY <1>1, <3>2, <3>3
    <3>5. /\ hs[l].begin <= i /\ i < hs[l].end /\ hs[h].begin <= i /\ i < hs[h].end
          /\ {hs[l].begin, hs[l].end, hs[h].begin, hs[h].end} \subseteq Nat
        BY <1>1, <2>2, <3>2 DEF AroundAt
    <3>6. ~Apart(hs[l], hs[h])
        BY <3>5 DEF Apart
    <3> QED BY <3>1, <3>4, <3>6
  <2>4. hs[l] \in around /\ hs[l].catch = CatchAt(p, i)
      BY <1>2, <2>2 DEF CatchAt
  <2> HIDE DEF l, hs, around
  <2> QED BY <2>3, <2>4
<1> QED BY <1>5, <1>6

\* An exception is handled by Handle only.
LEMMA OnlyHandle ==
    ASSUME [Next]_vars, exception # NoException, exception' = NoException PROVE Handle
<1>1. ~Looping
    BY DEF Looping
<1>2. ~Execute
    BY <1>1 DEF Execute, Fetch, Load, LoadThis, LoadLocal, StoreLocal, Dup, Pop, Nop, Binary, Equal,
       Arith, Add, LoadProp, StoreProp, NewArr, NewObj, SetCallee, VCall, StaticCall, SysCall,
       ParamToArr, Jump, JumpIf, JumpUnless, Return, Throw
<1> QED
    BY <1>1, <1>2 DEF Next, OutOfObjects, StackFault, RunEnd, Stopped, Fetch, vars

LEMMA StepInnermost ==
    ASSUME NEW need, Types, HeightsInv, Verified(prog), Nested(prog), Roomy(prog, need[prog]),
           RoomsInv(need), [Next]_vars, exception # NoException, exception' = NoException
    PROVE  IF Enclosing = {} THEN status' = "aborted"
           ELSE \E t \in Enclosing :
                  /\ \A u \in Enclosing : u.begin <= t.begin /\ t.end <= u.end
                  /\ pc' = t.catch
<1>1. Handle /\ status = "run" /\ Handlers = AroundAt(prog, pc)
    BY OnlyHandle DEF Handle, Handlers, AroundAt, Around
<1>2. /\ Enclosing # {} <=> Caught(prog, pc)
      /\ Enclosing # {} => \E t \in Enclosing :
           (\A u \in Enclosing : Inside(t, u)) /\ t.catch = CatchAt(prog, pc)
    BY InnermostLast DEF Enclosing, Types, Running
<1>3. CASE Enclosing = {}
    BY <1>1, <1>2, <1>3 DEF Handle, Caught
<1>4. CASE Enclosing # {}
  <2>1. Caught(prog, pc) /\ ptr < StackSize
      BY <1>1, <1>2, <1>4, RoomForException
  <2>2. pc' = CatchAt(prog, pc)
      BY <1>1, <2>1, LastHandler DEF Handle, Caught, CatchAt, Types, Running
  <2> QED BY <1>2, <1>4, <2>2 DEF Inside
<1> QED BY <1>3, <1>4

--------------------------------------------------------------------------------
(***************************************************************************)
(* What the VM then promises of every run of such programs.  reg and need  *)
(* are the certificates of each program.                                   *)
(***************************************************************************)
LEMMA AlwaysRegister ==
    ASSUME NEW reg, \A p \in Programs : Verified(p) /\ Tracked(p, reg[p])
    PROVE  Spec /\ []AddsNumbers => [](Types /\ HeightsInv /\ RegisterInv(reg))
<1>1. Types => Verified(prog) /\ Tracked(prog, reg[prog])
    BY DEF Types, Running
<1>2. Init => RegisterInv(reg)
  <2>1. Init => Tracked(prog, reg[prog])
      BY DEF Init
  <2> QED BY <2>1, InitRegister
<1>3. Types /\ HeightsInv /\ RegisterInv(reg) /\ AddsNumbers /\ [Next]_vars => RegisterInv(reg)'
    BY <1>1, StepRegister
<1> QED
  <2>1. \A p \in Programs : Verified(p)
      OBVIOUS
  <2>2. Spec /\ []AddsNumbers => []HeightsInv
      BY <2>1, AlwaysHeights
  <2> QED BY <1>2, <1>3, <2>2, AlwaysTypes, PTL DEF Spec

\* op_vcall dispatches on the value under its arguments, the one op_setcallee was meant to
\* point to, whatever calls were made while the arguments were evaluated: in a program
\* whose instructions and methods between the two leave the register alone.
THEOREM ReceiversFound ==
    ASSUME NEW reg, \A p \in Programs :
             Verified(p) /\ Tracked(p, reg[p]) /\ Dispatches(p, reg[p])
    PROVE  Spec /\ []AddsNumbers => []ReceiverUnderArgs
<1>1. Types => Verified(prog) /\ Dispatches(prog, reg[prog])
    BY DEF Types, Running
<1>2. Types /\ HeightsInv /\ RegisterInv(reg) => ReceiverUnderArgs
    BY <1>1, DispatchedNow DEF Dispatched, ReceiverUnderArgs
<1>3. Spec /\ []AddsNumbers => [](Types /\ HeightsInv /\ RegisterInv(reg))
    BY AlwaysRegister
<1> QED BY <1>2, <1>3, PTL

\* As long as a method is on the call stack, the slot under its first one holds the object
\* it was called on, which has this very method, so that op_ldthis reads its receiver.
THEOREM ThisReceives ==
    ASSUME NEW reg, \A p \in Programs :
             Verified(p) /\ Tracked(p, reg[p]) /\ Dispatches(p, reg[p])
    PROVE  Spec /\ []AddsNumbers => []ThisIsReceiver
<1>1. Types => Verified(prog) /\ Dispatches(prog, reg[prog])
    BY DEF Types, Running
<1>2. Spec /\ []AddsNumbers => [](Types /\ HeightsInv /\ RegisterInv(reg))
    BY AlwaysRegister
<1>3. Types /\ HeightsInv /\ RegisterInv(reg) /\ AddsNumbers /\ ThisInv /\ [Next]_vars => ThisInv'
    BY <1>1, StepThis
<1>4. ThisInv => ThisIsReceiver
  <2> SUFFICES ASSUME ThisInv, status = "run", exception = NoException,
                      NEW j \in 2..Len(callstack), host[j].then = "fold"
               PROVE  /\ Base(j) > 0 /\ buf[Base(j) - 1] \in Objects
                      /\ \E name \in DOMAIN prog.vtable[ClassOf[buf[Base(j) - 1]]] :
                           Method(buf[Base(j) - 1], name) = [kind |-> "script",
                                                             entry |-> callstack[j].entry]
      BY DEF ThisIsReceiver
  <2>1. Base(j) = BaseOf(callstack, bp, j)
      BY DEF Base, BaseOf
  <2>2. ThisAt(prog, callstack, host, bp, buf, j)
      BY DEF ThisInv, Alive
  <2> QED BY <2>1, <2>2 DEF ThisAt, Receives, Method
<1> QED BY <1>2, <1>3, <1>4, InitThis, PTL DEF Spec

\* No instruction of a program that fits on the stack, to the depth at which run_entry
\* refuses calls, reads or writes outside it or fails an assert of the VM: not op_vcall on
\* a register that points nowhere, nor a method whose locals have no room.
THEOREM FaultFree ==
    ASSUME NEW reg, NEW need, MaxCalls > 1,
           \A p \in Programs : Verified(p) /\ Tracked(p, reg[p]) /\ Roomy(p, need[p])
    PROVE  Spec /\ []AddsNumbers => []NoFault
<1>1. Types => Verified(prog) /\ Tracked(prog, reg[prog]) /\ Roomy(prog, need[prog])
    BY DEF Types, Running
<1>2. Spec /\ []AddsNumbers => [](Types /\ HeightsInv /\ RegisterInv(reg))
    BY AlwaysRegister
<1>3. Init => RoomsInv(need) /\ NoFault
  <2>1. Init => Roomy(prog, need[prog]) /\ NoFault
      BY DEF Init, NoFault
  <2> QED BY <2>1, InitRooms
<1>4. Types /\ HeightsInv /\ AddsNumbers /\ RoomsInv(need) /\ [Next]_vars => RoomsInv(need)'
    BY <1>1, StepRooms
<1>5. /\ Types /\ HeightsInv /\ RegisterInv(reg) /\ AddsNumbers /\ RoomsInv(need) /\ NoFault
      /\ [Next]_vars
      => NoFault'
    BY <1>1, StepSafe
<1> QED BY <1>2, <1>3, <1>4, <1>5, PTL DEF Spec

\* An exception goes on in the catch block of the innermost try block around the throw, for
\* which there is room on the stack, and ends the program when there is none: if the handlers
\* of the program nest, handle_exception finds the right one without looking at their ends.
THEOREM InnermostHandles ==
    ASSUME NEW need, MaxCalls > 1,
           \A p \in Programs : Verified(p) /\ Nested(p) /\ Roomy(p, need[p])
    PROVE  Spec /\ []AddsNumbers => InnermostCatches
<1> DEFINE Catches ==
             exception # NoException /\ exception' = NoException =>
                 IF Enclosing = {} THEN status' = "aborted"
                 ELSE \E t \in Enclosing :
                        /\ \A u \in Enclosing : u.begin <= t.begin /\ t.end <= u.end
                        /\ pc' = t.catch
<1>1. Types => Verified(prog) /\ Nested(prog) /\ Roomy(prog, need[prog])
    BY DEF Types, Running
<1>2. Spec /\ []AddsNumbers => []HeightsInv
    BY AlwaysHeights
<1>3. Init => RoomsInv(need)
  <2>1. Init => Roomy(prog, need[prog])
      BY DEF Init
  <2> QED BY <2>1, InitRooms
<1>4. Types /\ HeightsInv /\ AddsNumbers /\ RoomsInv(need) /\ [Next]_vars => RoomsInv(need)'
    BY <1>1, StepRooms
<1>5. Types /\ HeightsInv /\ RoomsInv(need) /\ [Next]_vars => Catches
    BY <1>1, StepInnermost
<1>6. InnermostCatches <=> [][Catches]_vars
    BY DEF InnermostCatches
<1> HIDE DEF Catches
<1>7. Spec /\ []AddsNumbers => [][Catches]_vars
    BY <1>2, <1>3, <1>4, <1>5, AlwaysTypes, PTL DEF Spec
<1> QED BY <1>6, <1>7
================================================================================
