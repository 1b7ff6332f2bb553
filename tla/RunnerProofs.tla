----------------------------- MODULE RunnerProofs -----------------------------
(* Proofs about calls, returns and the stack they share. *)
EXTENDS Verifier, SequenceTheorems, WellFoundedInduction, TLAPS

(***************************************************************************)
(* Types.  The two that the others rest on: a frame goes on at an          *)
(* instruction of a method of the program, and the outermost run_entry has *)
(* no native caller, so that an unwinding never leaves it.                 *)
(***************************************************************************)
FrameOf(p) == [pc : Nat \ {0}, bp : 0..StackSize, entry : DOMAIN p.entries]
Activation == [depth : Nat \ {0}, then : {"none", "fold", "native"}, arity : Nat]
Kinds == {NoException, "thrown", "native", "arithmetic", "null pointer", "method not found",
          "too many parameters"}

Running(p, i, base, e) ==
    /\ p \in Programs
    /\ i \in Nat \ {0} /\ base \in 0..StackSize /\ e \in DOMAIN p.entries
StackType(b, p) == b \in [Slots -> Value] /\ p \in 0..StackSize
Hosted(hs) == hs # <<>> /\ hs[1].then = "none"

Types ==
    /\ Running(prog, pc, bp, current_entry)
    /\ StackType(buf, ptr)
    /\ callstack \in Seq(FrameOf(prog))
    /\ host \in Seq(Activation) /\ (status = "run" => Hosted(host))
    /\ callee \in Slots \cup {None} /\ exception \in Kinds /\ status \in Status

LEMMA TypesGive == Types => TypeOK
<1> SUFFICES ASSUME Types PROVE TypeOK OBVIOUS
<1>1. FrameOf(prog) \subseteq FrameType
    BY SizesAssumption, ProgramsAssumption DEF FrameOf, FrameType, Types, Running, ProgramType
<1>2. callstack \in Seq(FrameType)
    BY <1>1, SeqMonotonic DEF Types
<1>3. Activation \subseteq HostType
    BY DEF Activation, HostType
<1>4. host \in Seq(HostType)
    BY <1>3, SeqMonotonic DEF Types
<1>5. pc \in Nat /\ bp \in Nat /\ current_entry \in DOMAIN prog.entries
    BY SizesAssumption DEF Types, Running
<1>6. buf \in [Slots -> Value] /\ ptr \in 0..StackSize
    BY DEF Types, StackType
<1> QED
    BY <1>2, <1>4, <1>5, <1>6 DEF Types, TypeOK, Running, Kinds

--------------------------------------------------------------------------------
(***************************************************************************)
(* What instructions have in hand.                                         *)
(***************************************************************************)
LEMMA SlotFacts == Slots = 0..(StackSize - 1) /\ None = -1 /\ StackSize \in Nat \ {0}
BY SizesAssumption DEF Slots, None

LEMMA SomeValues == {TrueV, FalseV, Null, Empty, Array, Exception} \subseteq Value /\ Results \subseteq Value
BY ValuesAssumption DEF Value

\* Writing a slot, in the stack or next to it.
LEMMA Written ==
    ASSUME NEW b \in [Slots -> Value], NEW v \in Value, NEW i \in Int
    PROVE  [b EXCEPT ![i] = v] \in [Slots -> Value]
OBVIOUS

\* What an instruction reads of the program.
LEMMA InstructionFields ==
    ASSUME NEW p \in Programs, NEW i \in 1..Len(p.code)
    PROVE  /\ p.code[i].v \in Value
           /\ p.code[i].n \in Nat /\ p.code[i].k \in Nat /\ p.code[i].arity \in Nat
           /\ p.code[i].op \in Branches => p.code[i].k > 0
           /\ p.code[i].op = "call" => p.code[i].k \in DOMAIN p.entries
           /\ p.code[i].mode = "prints" => p.code[i].arity > 0
BY ProgramsAssumption DEF ProgramType, Branches

LEMMA EntryFields ==
    ASSUME NEW p \in Programs, NEW e \in DOMAIN p.entries
    PROVE  /\ e \in Nat
           /\ p.entries[e].start \in Nat \ {0}
           /\ p.entries[e].params \in Nat /\ p.entries[e].locals \in Nat
BY ProgramsAssumption DEF ProgramType

\* A call that is dispatched on a value finds a method of the program.
LEMMA MethodEntry ==
    ASSUME prog \in Programs, NEW v, NEW name, HasMethod(v, name),
           Method(v, name).kind = "script" \/ name = "_ctor"
    PROVE  Method(v, name).entry \in DOMAIN prog.entries
BY ProgramsAssumption DEF ProgramType, HasMethod, Method

\* An activation may begin or go on only with the frame it has been entered for.
LEMMA LoopingFrame ==
    ASSUME Types, Looping
    PROVE  /\ Len(callstack) \in Nat \ {0}
           /\ callstack[Len(callstack)] \in FrameOf(prog)
           /\ Len(host) \in Nat \ {0} /\ host[Len(host)] \in Activation
<1>1. host # <<>> /\ host \in Seq(Activation) /\ callstack \in Seq(FrameOf(prog))
    BY DEF Types, Looping, Hosted
<1>2. Len(host) \in Nat \ {0} /\ host[Len(host)] \in Activation
    BY <1>1, EmptySeq, ElementOfSeq
<1>3. Len(callstack) \in Nat /\ host[Len(host)].depth \in Nat \ {0}
    BY <1>1, <1>2, LenProperties DEF Activation
<1>4. Len(callstack) \in Nat \ {0}
    BY <1>3 DEF Looping
<1> QED
    BY <1>1, <1>2, <1>4, ElementOfSeq

LEMMA FetchGives ==
    ASSUME Types, NEW op, Fetch(op)
    PROVE  /\ prog \in Programs /\ pc \in 1..Len(prog.code) /\ pc + 1 \in Nat \ {0}
           /\ Len(prog.code) \in Nat
           /\ Inst = prog.code[pc] /\ Inst.op = op
           /\ buf \in [Slots -> Value] /\ ptr \in 0..(StackSize - 1)
           /\ bp \in 0..StackSize
           /\ InRange(Inst) /\ Needs(Inst) <= ptr
<1>1. prog \in Programs /\ pc \in Nat \ {0}
    BY DEF Types, Running
<1>2. Len(prog.code) \in Nat
    BY <1>1, ProgramsAssumption DEF ProgramType
<1> QED
    BY <1>1, <1>2, SlotFacts DEF Types, Running, StackType, Fetch, Fits, Inst

\* The slots under the top of the stack hold values.
LEMMA ArgType ==
    ASSUME buf \in [Slots -> Value], ptr \in 0..StackSize, NEW n \in 0..(ptr - 1)
    PROVE  Arg(n) \in Value /\ buf[ptr - 1 - n] \in Value
BY SlotFacts DEF Arg

LEMMA ShiftType ==
    ASSUME buf \in [Slots -> Value], ptr \in 0..(StackSize - 1), NEW n \in 0..ptr, NEW v \in Value,
           Shift(n, v)
    PROVE  StackType(buf', ptr') /\ ptr' = ptr - n + 1
<1>1. buf' = [buf EXCEPT ![ptr - n] = v] /\ ptr' = ptr - n + 1
    BY DEF Shift, Replaced
<1>2. buf' \in [Slots -> Value]
    BY <1>1, Written
<1> QED BY <1>1, <1>2, SlotFacts DEF StackType

(***************************************************************************)
(* Calls, and C++ exceptions.                                              *)
(***************************************************************************)
\* An instruction without a call leaves types as they are.
LEMMA PlainTypes ==
    ASSUME Types, Advance, pc + 1 \in Nat \ {0}, StackType(buf', ptr'),
           callee' \in Slots \cup {None}, exception' \in Kinds, status' = status
    PROVE  Types'
BY DEF Types, Running, Advance

\* The greatest of finitely many positions in a sequence.
LEMMA Greatest ==
    ASSUME NEW n \in Nat, NEW S \in SUBSET (1..n), S # {}
    PROVE  \E i \in S : \A j \in S : j <= i
<1> DEFINE R == {ss \in Nat \X Nat : ss[1] < ss[2]}
           Q == {n - i : i \in S}
<1>1. IsWellFoundedOn(R, Nat)
    BY NatLessThanWellFounded DEF OpToRel
<1>2. Q \in SUBSET Nat /\ Q # {}
  <2>1. \A i \in S : n - i \in Nat
      OBVIOUS
  <2> QED BY <2>1
<1>3. PICK x \in Q : \A y \in Q : ~(<<y, x>> \in R)
  <2> HIDE DEF R, Q
  <2> QED
      BY <1>1, <1>2, WFMin
<1>4. PICK i \in S : x = n - i
    OBVIOUS
<1>5. ASSUME NEW j \in S PROVE j <= i
  <2>1. n - j \in Q /\ n - j \in Nat /\ x \in Nat /\ i \in Int /\ j \in Int
      BY <1>4
  <2>2. ~(n - j < x)
    <3> SUFFICES ASSUME n - j < x PROVE <<n - j, x>> \in R
        BY <2>1, <1>3
    <3> QED BY <2>1
  <2> QED BY <2>1, <2>2, <1>4
<1> QED BY <1>5

\* A C++ exception never unwinds the outermost run_entry: that one has no native
\* function for its caller.
LEMMA ThrowTypes ==
    ASSUME host \in Seq(Activation), Hosted(host), status = "run", exception \in Kinds,
           NEW inNative \in BOOLEAN, CppThrow(inNative)
    PROVE  /\ host' \in Seq(Activation) /\ (status' = "run" => Hosted(host'))
           /\ exception' \in Kinds /\ status' \in Status
           /\ status' = "run" => exception' # NoException
<1>1. Len(host) \in Nat \ {0} /\ host[1].then = "none"
    BY EmptySeq DEF Hosted
<1>2. CASE inNative \/ NativeHosts # {}
  <2>1. Catcher(inNative) \in 1..Len(host)
    <3>1. CASE inNative
        BY <3>1, <1>1 DEF Catcher
    <3>2. CASE ~inNative
      <4>1. NativeHosts \in SUBSET (1..Len(host)) /\ NativeHosts # {}
          BY <3>2, <1>2 DEF NativeHosts
      <4>2. \E j \in NativeHosts : \A k \in NativeHosts : k <= j
          BY <4>1, <1>1, Greatest
      <4> DEFINE j == CHOOSE j \in NativeHosts : \A k \in NativeHosts : k <= j
      <4>3. j \in NativeHosts
          BY <4>2
      <4>4. j \in 2..Len(host)
          BY <4>3, <1>1 DEF NativeHosts
      <4>5. Catcher(inNative) = j - 1
          BY <3>2 DEF Catcher
      <4> HIDE DEF j
      <4> QED BY <4>4, <4>5
    <3> QED BY <3>1, <3>2
  <2> DEFINE m == Catcher(inNative)
  <2>2. host' = SubSeq(host, 1, m) /\ exception' = "thrown" /\ status' = status
      BY <1>2 DEF CppThrow
  <2> HIDE DEF m
  <2>3. m \in 1..Len(host)
      BY <2>1 DEF m
  <2>4. \A i \in 1..m : host[i] \in Activation
      BY <2>3, ElementOfSeq, <1>1
  <2>5. 1 \in Int /\ m \in Int /\ 1 <= m
      BY <2>3, <1>1
  <2>6. /\ SubSeq(host, 1, m) \in Seq(Activation)
        /\ Len(SubSeq(host, 1, m)) = IF 1 <= m THEN m - 1 + 1 ELSE 0
        /\ \A i \in 1..(m - 1 + 1) : SubSeq(host, 1, m)[i] = host[1 + i - 1]
      BY <2>4, <2>5, SubSeqProperties
  <2>7. Len(host') = m /\ host'[1] = host[1] /\ host' \in Seq(Activation)
      BY <2>2, <2>5, <2>6
  <2>8. host' # <<>>
      BY <2>5, <2>7, EmptySeq
  <2> QED
      BY <1>1, <2>2, <2>7, <2>8 DEF Hosted, Kinds, Status, NoException
<1>3. CASE ~(inNative \/ NativeHosts # {})
    BY <1>3 DEF CppThrow, Status, Hosted
<1> QED BY <1>2, <1>3

\* What the callers of run_entry do with the result of a call.
LEMMA FinishTypes ==
    ASSUME NEW b \in [Slots -> Value], NEW p \in 0..StackSize,
           NEW then \in {"none", "fold", "native"}, NEW arity \in Nat,
           then # "none" => p >= 1, then = "native" => p >= arity + 1,
           Finish(then, arity, b, p)
    PROVE  StackType(buf', ptr')
<1> DEFINE f == Folded(b, p)
<1>1. then # "none" => f \in [Slots -> Value]
  <2> SUFFICES ASSUME p >= 1 PROVE f \in [Slots -> Value]
      OBVIOUS
  <2>1. b[p - 1] \in Value /\ p - 2 \in Int
      BY SlotFacts
  <2> QED BY <2>1, Written DEF Folded
<1>2. Null \in Value
    BY SomeValues
<1>3. CASE then = "none"
    BY <1>3 DEF Finish, After, StackType
<1>4. CASE then = "fold"
    BY <1>4, <1>1, SlotFacts DEF Finish, After, StackType
<1>5. CASE then = "native"
  <2>1. buf' = [f EXCEPT ![p - 2 - arity] = Null] /\ ptr' = p - 1 - arity
      BY <1>5 DEF Finish, After
  <2>2. p - 2 - arity \in Int /\ p - 1 - arity \in 0..StackSize
      BY <1>5, SlotFacts
  <2> HIDE DEF f
  <2>3. [f EXCEPT ![p - 2 - arity] = Null] \in [Slots -> Value]
      BY <1>1, <1>2, <1>5, <2>2, Written
  <2> QED BY <2>1, <2>2, <2>3 DEF StackType
<1> QED BY <1>3, <1>4, <1>5

LEMMA EnterTypes ==
    ASSUME Types, status = "run", exception = NoException, pc + 1 \in Nat \ {0},
           NEW e \in DOMAIN prog.entries, NEW n \in Nat,
           NEW b \in [Slots -> Value], NEW p \in 0..StackSize, n <= p,
           NEW then \in {"none", "fold", "native"}, NEW arity \in Nat,
           callee' \in Slots \cup {None},
           EnterFrame(e, n, b, p, then, arity)
    PROVE  Types'
<1> DEFINE args == Bound(e, n)
           base == FirstSlot(e, p, n)
           size == base + args + Locals(e)
<1>1. prog \in Programs /\ Entry(e).start \in Nat \ {0}
      /\ Entry(e).params \in Nat /\ Entry(e).locals \in Nat
    BY EntryFields DEF Types, Running, Entry
<1>2. args \in Nat /\ base \in 0..StackSize /\ size \in Nat
  <2>1. args \in Nat /\ Locals(e) \in Nat
      BY <1>1 DEF Bound, Locals, Fills
  <2>2. base \in 0..StackSize
      BY SlotFacts DEF FirstSlot
  <2> QED BY <2>1, <2>2, SlotFacts
<1>3. CASE size > StackSize
    BY <1>3 DEF EnterFrame, Types, Running, StackType, registers, stackvars, Status, Hosted
<1>4. CASE ~(size > StackSize)
  <2> DEFINE top == [pc |-> Resume, bp |-> bp, entry |-> e]
             act == [depth |-> Len(callstack) + 1, then |-> then, arity |-> arity]
  <2>1. /\ buf' = [i \in Slots |-> IF i \in p..(size - 1) THEN Empty ELSE b[i]]
        /\ ptr' = size
        /\ callstack' = Append(callstack, top)
        /\ pc' = Entry(e).start /\ bp' = base /\ current_entry' = e
        /\ prog' = prog
        /\ IF TooDeep(Len(callstack) + 1)
           THEN CppThrow(then = "native")
           ELSE host' = Append(host, act) /\ UNCHANGED <<exception, status>>
      BY <1>4 DEF EnterFrame
  <2>2. Running(prog', pc', bp', current_entry')
      BY <1>1, <1>2, <2>1 DEF Running
  <2>3. StackType(buf', ptr')
    <3>1. Empty \in Value
        BY SomeValues
    <3> HIDE DEF size
    <3>2. buf' \in [Slots -> Value]
        BY <2>1, <3>1
    <3> QED BY <1>2, <1>4, <2>1, <3>2, SlotFacts DEF StackType
  <2>4. callstack' \in Seq(FrameOf(prog'))
    <3>1. top \in FrameOf(prog)
        BY DEF Types, Running, FrameOf, Resume
    <3> HIDE DEF top
    <3> QED BY <2>1, <3>1, AppendProperties DEF Types
  <2>5. host \in Seq(Activation) /\ Hosted(host) /\ exception \in Kinds /\ status \in Status
      BY DEF Types
  <2>6. /\ host' \in Seq(Activation) /\ (status' = "run" => Hosted(host'))
        /\ exception' \in Kinds /\ status' \in Status
    <3>1. CASE TooDeep(Len(callstack) + 1)
        BY <2>1, <2>5, <3>1, ThrowTypes
    <3>2. CASE ~TooDeep(Len(callstack) + 1)
      <4>1. Len(callstack) \in Nat
          BY LenProperties DEF Types
      <4>2. act \in Activation
          BY <4>1 DEF Activation
      <4> HIDE DEF act
      <4>3. /\ Append(host, act) \in Seq(Activation) /\ Append(host, act) # <<>>
            /\ \A i \in 1..Len(host) : Append(host, act)[i] = host[i]
          BY <2>5, <4>2, AppendProperties
      <4>4. 1 \in 1..Len(host)
          BY <2>5, EmptySeq DEF Hosted
      <4> QED BY <2>1, <2>5, <3>2, <4>3, <4>4 DEF Hosted
    <3> QED BY <3>1, <3>2
  <2> QED BY <2>2, <2>3, <2>4, <2>6 DEF Types
<1> QED BY <1>3, <1>4

LEMMA CallTypes ==
    ASSUME Types, status = "run", exception = NoException, pc + 1 \in Nat \ {0},
           NEW e \in DOMAIN prog.entries, NEW n \in Nat,
           NEW b \in [Slots -> Value], NEW p \in 0..StackSize, n <= p,
           NEW then \in {"none", "fold", "native"}, NEW arity \in Nat,
           then = "fold" => p >= 1, then = "native" => n = 0,
           callee' \in Slots \cup {None},
           ProgramCall(e, n, b, p, then, arity)
    PROVE  Types'
<1>1. CASE n > Entry(e).params /\ ~Entry(e).va_args
  <2>1. /\ exception' = "too many parameters"
        /\ Finish(then, arity, b, p) /\ Advance /\ status' = status
      BY <1>1 DEF ProgramCall
  <2>2. Entry(e).params \in Nat
      BY EntryFields DEF Types, Running, Entry
  <2>3. then # "native"
      BY <1>1, <2>2
  <2>4. StackType(buf', ptr')
      BY <2>1, <2>3, FinishTypes
  <2> QED
      BY <2>1, <2>4, PlainTypes DEF Kinds
<1>2. CASE ~(n > Entry(e).params /\ ~Entry(e).va_args)
    BY <1>2, EnterTypes DEF ProgramCall
<1> QED BY <1>1, <1>2

LEMMA RaiseTypes ==
    ASSUME Types, pc + 1 \in Nat \ {0}, NEW kind \in Kinds, NEW b, NEW p, StackType(b, p),
           callee' \in Slots \cup {None}, Raise(kind, b, p)
    PROVE  Types'
BY PlainTypes DEF Raise

LEMMA NativeReturnTypes ==
    ASSUME Types, pc + 1 \in Nat \ {0}, NEW b \in [Slots -> Value], NEW p \in 0..StackSize,
           NEW arity \in 0..p, p - arity < StackSize, NEW r \in Value,
           callee' \in Slots \cup {None}, NativeReturn(arity, b, p, r)
    PROVE  Types'
<1>1. buf' = [b EXCEPT ![p - arity] = r] /\ ptr' = p - arity + 1
      /\ Advance /\ exception' = exception /\ status' = status
    BY DEF NativeReturn
<1>2. buf' \in [Slots -> Value]
    BY <1>1, Written
<1>3. StackType(buf', ptr')
    BY <1>1, <1>2, SlotFacts DEF StackType
<1> QED BY <1>1, <1>3, PlainTypes DEF Types

LEMMA VCallTypes ==
    ASSUME Types, status = "run", exception = NoException, pc + 1 \in Nat \ {0},
           NEW v, NEW name, NEW n \in Nat, NEW b \in [Slots -> Value],
           NEW p \in 1..StackSize, n + 1 <= p, NEW c \in Slots \cup {None},
           VCallOn(v, name, n, b, p, c), n = 0 => p < StackSize
    PROVE  Types'
<1>1. callee' \in Slots \cup {None} /\ StackType(b, p) /\ p \in 0..StackSize
  <2>1. callee' = c
      BY DEF VCallOn
  <2> QED BY <2>1, SlotFacts DEF StackType
<1>2. CASE v \in {Null, Empty}
  <2>1. Raise("null pointer", b, p)
      BY <1>2, ValuesAssumption DEF VCallOn, Scripted, HasMethod
  <2>2. "null pointer" \in Kinds
      BY DEF Kinds
  <2> QED BY <1>1, <2>1, <2>2, RaiseTypes
<1>3. CASE v \notin {Null, Empty} /\ ~Responds(v, name)
  <2>1. Raise("method not found", b, p)
      BY <1>3 DEF VCallOn, Scripted, HasMethod, Responds
  <2>2. "method not found" \in Kinds
      BY DEF Kinds
  <2> QED BY <1>1, <2>1, <2>2, RaiseTypes
<1>4. CASE v \notin {Null, Empty} /\ Responds(v, name) /\ Scripted(v, name)
  <2>1. ProgramCall(Method(v, name).entry, n, b, p, "fold", 0)
      BY <1>4 DEF VCallOn
  <2>2. Method(v, name).entry \in DOMAIN prog.entries
      BY <1>4, MethodEntry DEF Scripted, Types, Running
  <2>3. n <= p
      BY SlotFacts
  <2> QED BY <1>1, <2>1, <2>2, <2>3, CallTypes
<1>5. CASE v \notin {Null, Empty} /\ Responds(v, name) /\ ~Scripted(v, name)
  <2>1. (\E r \in Results : NativeReturn(n + 1, b, p, r)) \/ Raise("native", b, p)
      BY <1>5 DEF VCallOn
  <2>2. ASSUME NEW r \in Results, NativeReturn(n + 1, b, p, r) PROVE Types'
    <3>1. r \in Value /\ n + 1 \in 0..p /\ p - (n + 1) < StackSize
        BY SomeValues, SlotFacts
    <3> QED BY <1>1, <2>2, <3>1, NativeReturnTypes
  <2>3. CASE Raise("native", b, p)
    <3>1. "native" \in Kinds
        BY DEF Kinds
    <3> QED BY <1>1, <2>3, <3>1, RaiseTypes
  <2> QED BY <2>1, <2>2, <2>3
<1> QED BY <1>2, <1>3, <1>4, <1>5

(***************************************************************************)
(* One lemma per kind of instruction.                                      *)
(***************************************************************************)
\* Instructions that replace n values by one.
LEMMA ShiftTypes ==
    ASSUME Types, NEW op, Fetch(op), NEW n \in 0..ptr, NEW v \in Value, Shift(n, v), Plain
    PROVE  Types'
<1>1. StackType(buf', ptr') /\ pc + 1 \in Nat \ {0}
    BY FetchGives, ShiftType
<1> QED
    BY <1>1, PlainTypes DEF Plain, Types

LEMMA DropTypes ==
    ASSUME Types, NEW op, Fetch(op), NEW n \in 0..ptr, Dropped(n), Plain
    PROVE  Types'
<1>1. StackType(buf', ptr') /\ pc + 1 \in Nat \ {0}
    BY FetchGives, SlotFacts DEF Dropped, StackType
<1> QED
    BY <1>1, PlainTypes DEF Plain, Types

LEMMA LoadTypes ==
    ASSUME Types, Load \/ LoadThis \/ LoadLocal \/ Dup PROVE Types'
<1> USE DEF Types, Running, StackType
<1>1. CASE Load
  <2>1. Fetch("ld") /\ Shift(0, Inst.v) /\ Plain
      BY <1>1 DEF Load
  <2>2. Inst.v \in Value /\ 0 \in 0..ptr
      BY <2>1, FetchGives, InstructionFields
  <2> QED BY <2>1, <2>2, ShiftTypes
<1>2. CASE LoadThis
  <2>1. Fetch("ldthis") /\ Shift(0, buf[bp - 1]) /\ Plain
      BY <1>2 DEF LoadThis
  <2>2. bp > 0
      BY <2>1, FetchGives DEF InRange
  <2>3. buf[bp - 1] \in Value /\ 0 \in 0..ptr
      BY <2>1, <2>2, FetchGives, SlotFacts
  <2> QED BY <2>1, <2>3, ShiftTypes
<1>3. CASE LoadLocal
  <2>1. Fetch("ldloc") /\ Shift(0, buf[bp + Inst.k]) /\ Plain
      BY <1>3 DEF LoadLocal
  <2>2. bp + Inst.k < ptr /\ Inst.k \in Nat
      BY <2>1, FetchGives, InstructionFields DEF InRange
  <2>3. buf[bp + Inst.k] \in Value /\ 0 \in 0..ptr
      BY <2>1, <2>2, FetchGives, SlotFacts
  <2> QED BY <2>1, <2>3, ShiftTypes
<1>4. CASE Dup
  <2>1. Fetch("dup") /\ Shift(0, Arg(0)) /\ Plain
      BY <1>4 DEF Dup
  <2>2. ptr >= 1
      BY <2>1, FetchGives DEF Needs
  <2>3. Arg(0) \in Value /\ 0 \in 0..ptr
      BY <2>2, ArgType
  <2> QED BY <2>1, <2>3, ShiftTypes
<1> QED BY <1>1, <1>2, <1>3, <1>4

LEMMA StoreTypes ==
    ASSUME Types, StoreLocal PROVE Types'
<1>1. Fetch("stloc") /\ buf' = [buf EXCEPT ![bp + Inst.k] = Arg(0)] /\ ptr' = ptr - 1 /\ Plain
    BY DEF StoreLocal
<1>2. ptr >= 1 /\ pc + 1 \in Nat \ {0} /\ Inst.k \in Nat /\ bp \in 0..StackSize
      /\ buf \in [Slots -> Value] /\ ptr \in 0..(StackSize - 1)
    BY <1>1, FetchGives, InstructionFields DEF Needs
<1>3. Arg(0) \in Value /\ bp + Inst.k \in Int
    BY <1>2, ArgType, SlotFacts
<1>4. StackType(buf', ptr')
    BY <1>1, <1>2, <1>3, Written, SlotFacts DEF StackType
<1> QED BY <1>1, <1>2, <1>4, PlainTypes DEF Plain, Types

LEMMA SimpleTypes ==
    ASSUME Types, Pop \/ Nop \/ Binary \/ NewArr \/ SetCallee \/ Throw PROVE Types'
<1> USE DEF Types, Running, StackType
<1>1. CASE Pop
  <2>1. Fetch("pop") /\ Dropped(1) /\ Plain
      BY <1>1 DEF Pop
  <2>2. 1 \in 0..ptr
      BY <2>1, FetchGives DEF Needs
  <2> QED BY <2>1, <2>2, DropTypes
<1>2. CASE Nop
  <2>1. Fetch("nop") /\ Dropped(0) /\ Plain /\ 0 \in 0..ptr
      BY <1>2 DEF Nop
  <2> QED BY <2>1, DropTypes
<1>3. CASE Binary
  <2>1. PICK r \in Results : Fetch("binary") /\ Shift(2, r) /\ Plain
      BY <1>3 DEF Binary
  <2>2. 2 \in 0..ptr /\ r \in Value
      BY <2>1, FetchGives, SomeValues DEF Needs
  <2> QED BY <2>1, <2>2, ShiftTypes
<1>4. CASE NewArr
  <2>1. Fetch("newarr") /\ Shift(Inst.n, Array) /\ Plain
      BY <1>4 DEF NewArr
  <2>2. Inst.n \in 0..ptr /\ Array \in Value
      BY <2>1, FetchGives, InstructionFields, SomeValues DEF Needs
  <2> QED BY <2>1, <2>2, ShiftTypes
<1>5. CASE SetCallee
  <2>1. Fetch("setcallee") /\ callee' = ptr - 1 /\ Dropped(0) /\ Advance
        /\ exception' = exception /\ status' = status
      BY <1>5 DEF SetCallee
  <2>2. ptr >= 1 /\ pc + 1 \in Nat \ {0} /\ ptr \in 0..(StackSize - 1)
      BY <2>1, FetchGives DEF Needs
  <2>3. callee' \in Slots \cup {None}
      BY <2>1, <2>2, SlotFacts
  <2>4. StackType(buf', ptr')
      BY <2>1, <2>2, SlotFacts DEF Dropped
  <2> QED BY <2>1, <2>2, <2>3, <2>4, PlainTypes
<1>6. CASE Throw
  <2>1. Fetch("throw") /\ callee' = callee /\ Raise("thrown", buf, ptr - 1)
      BY <1>6 DEF Throw
  <2>2. ptr >= 1 /\ pc + 1 \in Nat \ {0} /\ ptr \in 0..(StackSize - 1)
        /\ buf \in [Slots -> Value]
      BY <2>1, FetchGives DEF Needs
  <2>3. StackType(buf, ptr - 1)
      BY <2>2, SlotFacts
  <2>4. "thrown" \in Kinds
      BY DEF Kinds
  <2> QED BY <2>1, <2>2, <2>3, <2>4, RaiseTypes
<1> QED BY <1>1, <1>2, <1>3, <1>4, <1>5, <1>6

\* The operands of an operator on two values.
LEMMA TwoOperands ==
    ASSUME Types, NEW op \in {"binary", "equal", "arith", "add", "stprop"}, Fetch(op)
    PROVE  /\ ptr >= 2 /\ ptr \in 0..(StackSize - 1) /\ pc + 1 \in Nat \ {0}
           /\ buf \in [Slots -> Value] /\ Arg(0) \in Value /\ Arg(1) \in Value
           /\ status = "run" /\ exception = NoException /\ callee \in Slots \cup {None}
           /\ 2 \in 0..ptr
<1>1. Needs(Inst) = 2
    BY FetchGives DEF Needs
<1>2. ptr >= 2 /\ ptr \in 0..(StackSize - 1) /\ pc + 1 \in Nat \ {0} /\ buf \in [Slots -> Value]
    BY <1>1, FetchGives
<1>3. 0 \in 0..(ptr - 1) /\ 1 \in 0..(ptr - 1) /\ ptr \in 0..StackSize
    BY <1>2, SlotFacts
<1> QED
    BY <1>2, <1>3, ArgType DEF Fetch, Looping, Types

LEMMA EqualTypes ==
    ASSUME Types, Equal PROVE Types'
<1>1. Fetch("equal")
    BY DEF Equal
<1> USE <1>1, TwoOperands
<1>2. CASE MayBeSame /\ Shift(2, TrueV) /\ Plain
    BY <1>2, ShiftTypes, SomeValues
<1>3. CASE VCallOn(Arg(1), Inst.name, 1, buf, ptr, None)
  <2>1. ptr \in 1..StackSize /\ 1 + 1 <= ptr /\ None \in Slots \cup {None} /\ 1 # 0
      BY SlotFacts
  <2> QED BY <1>3, <2>1, VCallTypes
<1>4. CASE Shift(2, FalseV) /\ Plain
    BY <1>4, ShiftTypes, SomeValues
<1> QED BY <1>2, <1>3, <1>4 DEF Equal

LEMMA ArithTypes ==
    ASSUME Types, Arith PROVE Types'
<1>1. Fetch("arith")
    BY DEF Arith
<1> USE <1>1, TwoOperands
<1>2. ASSUME NEW r \in Results, Shift(2, r), Plain PROVE Types'
    BY <1>2, ShiftTypes, SomeValues
<1>3. CASE callee' = callee /\ Raise("arithmetic", buf, ptr - 2)
  <2>1. StackType(buf, ptr - 2) /\ callee' \in Slots \cup {None}
      BY <1>3, SlotFacts DEF StackType
  <2>2. "arithmetic" \in Kinds
      BY DEF Kinds
  <2> QED BY <1>3, <2>1, <2>2, RaiseTypes
<1>4. CASE VCallOn(Arg(1), Inst.name, 1, buf, ptr, None)
  <2>1. ptr \in 1..StackSize /\ 1 + 1 <= ptr /\ None \in Slots \cup {None} /\ 1 # 0
      BY SlotFacts
  <2> QED BY <1>4, <2>1, VCallTypes
<1> QED BY <1>2, <1>3, <1>4 DEF Arith

LEMMA AddTypes ==
    ASSUME Types, Add PROVE Types'
<1>1. Fetch("add")
    BY DEF Add
<1> USE <1>1, TwoOperands
<1>2. ASSUME NEW r \in Results, Shift(2, r), Plain PROVE Types'
    BY <1>2, ShiftTypes, SomeValues
<1> DEFINE b1 == [buf EXCEPT ![ptr - 1] = Arg(1)]
           b2 == [b1 EXCEPT ![ptr] = Arg(0)]
<1>3. CASE VCallOn(Arg(1), Inst.name, 1, b2, ptr + 1, None)
  <2>1. ptr + 1 \in 1..StackSize /\ 1 + 1 <= ptr + 1 /\ None \in Slots \cup {None} /\ 1 # 0
      BY SlotFacts
  <2>2. b1 \in [Slots -> Value]
      BY Written
  <2> HIDE DEF b1
  <2>3. b2 \in [Slots -> Value]
      BY <2>2, Written
  <2> HIDE DEF b2
  <2> QED BY <1>3, <2>1, <2>3, VCallTypes
<1>4. \/ \E r \in Results : Shift(2, r) /\ Plain
      \/ VCallOn(Arg(1), Inst.name, 1, b2, ptr + 1, None)
    BY DEF Add
<1> QED BY <1>2, <1>3, <1>4

\* A property access on something without properties.
LEMMA ThrownTypes ==
    ASSUME Types, NEW op, Fetch(op), NEW n \in 0..ptr, Dropped(n), CppThrow(FALSE),
           pc' = pc + 1, UNCHANGED <<prog, bp, current_entry, callstack, callee>>
    PROVE  Types'
<1>1. StackType(buf', ptr') /\ pc + 1 \in Nat \ {0}
    BY FetchGives, SlotFacts DEF Dropped, StackType
<1>2. host \in Seq(Activation) /\ Hosted(host) /\ status = "run" /\ exception \in Kinds
    BY DEF Types, Fetch, Looping
<1>3. /\ host' \in Seq(Activation) /\ (status' = "run" => Hosted(host'))
      /\ exception' \in Kinds /\ status' \in Status
    BY <1>2, ThrowTypes
<1> QED BY <1>1, <1>3 DEF Types, Running

LEMMA PropTypes ==
    ASSUME Types, LoadProp \/ StoreProp PROVE Types'
<1>1. CASE LoadProp
  <2>1. Fetch("ldprop")
      BY <1>1 DEF LoadProp
  <2>2. 1 \in 0..ptr
      BY <2>1, FetchGives DEF Needs
  <2>3. ASSUME NEW r \in Results, Shift(1, r), Plain PROVE Types'
      BY <2>1, <2>2, <2>3, ShiftTypes, SomeValues
  <2>4. CASE ~(Arg(0) \in Objects \cup {Array, Exception})
      BY <1>1, <2>1, <2>2, <2>4, ThrownTypes DEF LoadProp
  <2> QED BY <1>1, <2>3, <2>4 DEF LoadProp
<1>2. CASE StoreProp
  <2>1. Fetch("stprop") /\ Dropped(2)
      BY <1>2 DEF StoreProp
  <2>2. 2 \in 0..ptr
      BY <2>1, TwoOperands
  <2>3. CASE Plain
      BY <2>1, <2>2, <2>3, DropTypes
  <2>4. CASE ~(Arg(0) \in Objects \cup {Array, Exception})
      BY <1>2, <2>1, <2>2, <2>4, ThrownTypes DEF StoreProp
  <2> QED BY <1>2, <2>3, <2>4 DEF StoreProp
<1> QED BY <1>1, <1>2

LEMMA NewObjTypes ==
    ASSUME Types, NEW o \in Objects, NewObj(o) PROVE Types'
<1>1. Fetch("newobj") /\ ClassOf[o] = Inst.name
    BY DEF NewObj
<1>2. /\ Inst.n \in 0..ptr /\ ptr \in 0..(StackSize - 1) /\ pc + 1 \in Nat \ {0}
      /\ Inst.n \in Nat /\ buf \in [Slots -> Value]
    BY <1>1, FetchGives, InstructionFields DEF Needs
<1>3. o \in Value
    BY DEF Value
<1>4. CASE HasMethod(o, "_ctor")
  <2> DEFINE b == [buf EXCEPT ![ptr] = o]
  <2>1. /\ callee' = ptr
        /\ ProgramCall(Method(o, "_ctor").entry, Inst.n, b, ptr + 1, "fold", 0)
      BY <1>4 DEF NewObj
  <2>2. b \in [Slots -> Value]
      BY <1>2, <1>3, Written
  <2>3. Method(o, "_ctor").entry \in DOMAIN prog.entries
      BY <1>4, MethodEntry DEF Types, Running
  <2>4. ptr + 1 \in 0..StackSize /\ Inst.n <= ptr + 1 /\ ptr + 1 >= 1
        /\ callee' \in Slots \cup {None}
      BY <1>2, <2>1, SlotFacts
  <2>5. status = "run" /\ exception = NoException
      BY <1>1 DEF Fetch, Looping
  <2> HIDE DEF b
  <2> QED BY <1>2, <2>1, <2>2, <2>3, <2>4, <2>5, CallTypes
<1>5. CASE ~HasMethod(o, "_ctor")
  <2>1. Shift(0, o) /\ Plain /\ 0 \in 0..ptr
      BY <1>2, <1>5 DEF NewObj
  <2> QED BY <1>1, <1>3, <2>1, ShiftTypes
<1> QED BY <1>4, <1>5

LEMMA CallsTypes ==
    ASSUME Types, VCall \/ StaticCall PROVE Types'
<1>1. CASE VCall
  <2>1. Fetch("vcall") /\ VCallOn(buf[callee], Inst.name, Inst.n, buf, ptr, callee)
      BY <1>1 DEF VCall
  <2>2. Inst.n \in Nat /\ Inst.n + 1 <= ptr /\ ptr \in 0..(StackSize - 1)
        /\ buf \in [Slots -> Value] /\ pc + 1 \in Nat \ {0}
      BY <2>1, FetchGives, InstructionFields DEF Needs
  <2>3. ptr \in 1..StackSize /\ (Inst.n = 0 => ptr < StackSize)
      BY <2>2, SlotFacts
  <2> QED
      BY <2>1, <2>2, <2>3, VCallTypes DEF Types, Fetch, Looping
<1>2. CASE StaticCall
  <2>1. Fetch("call") /\ ProgramCall(Inst.k, Inst.n, buf, ptr, "none", 0) /\ callee' = callee
      BY <1>2 DEF StaticCall
  <2>2. Inst.n \in Nat /\ Inst.n <= ptr /\ ptr \in 0..(StackSize - 1)
        /\ buf \in [Slots -> Value] /\ pc + 1 \in Nat \ {0} /\ Inst.k \in DOMAIN prog.entries
      BY <2>1, FetchGives, InstructionFields DEF Needs
  <2>3. ptr \in 0..StackSize /\ callee' \in Slots \cup {None}
        /\ status = "run" /\ exception = NoException
      BY <2>1, <2>2, SlotFacts DEF Types, Fetch, Looping
  <2> QED BY <2>1, <2>2, <2>3, CallTypes
<1> QED BY <1>1, <1>2

LEMMA SysCallTypes ==
    ASSUME Types, SysCall PROVE Types'
<1>1. Fetch("syscall") /\ Native(Inst.mode, Inst.arity, buf, ptr)
    BY DEF SysCall
<1>2. /\ Inst.arity \in Nat /\ Inst.arity <= ptr /\ ptr \in 0..(StackSize - 1)
      /\ buf \in [Slots -> Value] /\ pc + 1 \in Nat \ {0}
      /\ Inst.mode = "prints" => Inst.arity > 0
    BY <1>1, FetchGives, InstructionFields DEF Needs
<1>3. status = "run" /\ exception = NoException
    BY <1>1 DEF Fetch, Looping
<1>4. CASE Inst.mode = "prints" /\ Scripted(buf[ptr - 1], "to_string")
  <2> DEFINE v == buf[ptr - 1]
             b == [buf EXCEPT ![ptr] = v]
  <2>1. callee' = ptr /\ ProgramCall(Method(v, "to_string").entry, 0, b, ptr + 1, "native", Inst.arity)
      BY <1>1, <1>4 DEF Native
  <2>2. v \in Value
      BY <1>2, <1>4, SlotFacts
  <2>3. b \in [Slots -> Value]
      BY <1>2, <2>2, Written
  <2>4. Method(v, "to_string").entry \in DOMAIN prog.entries
      BY <1>4, MethodEntry DEF Types, Running, Scripted
  <2>5. ptr + 1 \in 0..StackSize /\ 0 <= ptr + 1 /\ callee' \in Slots \cup {None}
      BY <1>2, <2>1, SlotFacts
  <2> HIDE DEF b, v
  <2> QED BY <1>2, <1>3, <2>1, <2>3, <2>4, <2>5, CallTypes
<1>5. CASE ~(Inst.mode = "prints" /\ Scripted(buf[ptr - 1], "to_string"))
  <2>1. callee' = callee
        /\ \/ \E r \in Results : NativeReturn(Inst.arity, buf, ptr, r)
           \/ Raise("native", buf, ptr)
      BY <1>1, <1>5 DEF Native
  <2>2. callee' \in Slots \cup {None} /\ ptr \in 0..StackSize /\ StackType(buf, ptr)
        /\ Inst.arity \in 0..ptr /\ ptr - Inst.arity < StackSize
      BY <1>2, <2>1, SlotFacts DEF Types
  <2>3. ASSUME NEW r \in Results, NativeReturn(Inst.arity, buf, ptr, r) PROVE Types'
      BY <1>2, <2>2, <2>3, NativeReturnTypes, SomeValues
  <2>4. CASE Raise("native", buf, ptr)
    <3>1. "native" \in Kinds
        BY DEF Kinds
    <3> QED BY <1>2, <2>2, <2>4, <3>1, RaiseTypes
  <2> QED BY <2>1, <2>3, <2>4
<1> QED BY <1>4, <1>5

LEMMA ParamToArrTypes ==
    ASSUME Types, ParamToArr PROVE Types'
<1> DEFINE n == ptr - callstack[Len(callstack)].bp - (Entry(current_entry).params - 1)
<1>1. Fetch("param_to_arr") /\ Shift(n, Array) /\ Plain
    BY DEF ParamToArr
<1>2. callstack[Len(callstack)].bp \in Int /\ Entry(current_entry).params \in Nat
    BY <1>1, LoopingFrame, EntryFields DEF Fetch, FrameOf, Types, Running, Entry
<1>3. ptr - callstack[Len(callstack)].bp - Entry(current_entry).params + 1 \in 0..ptr
      /\ ptr \in 0..(StackSize - 1)
    BY <1>1, FetchGives DEF InRange
<1>4. n \in 0..ptr
    BY <1>2, <1>3
<1> HIDE DEF n
<1> QED BY <1>1, <1>4, ShiftTypes, SomeValues

LEMMA JumpTypes ==
    ASSUME Types, Jump \/ JumpIf \/ JumpUnless PROVE Types'
<1>1. ASSUME NEW op \in Branches, Fetch(op), NEW i \in {Inst.k, pc + 1}, pc' = i,
             StackType(buf', ptr'),
             UNCHANGED <<prog, bp, current_entry, callstack, host, callee, exception, status>>
      PROVE  Types'
  <2>1. Inst.k > 0 /\ Inst.k \in Nat /\ pc + 1 \in Nat \ {0}
      BY <1>1, FetchGives, InstructionFields
  <2> QED BY <1>1, <2>1 DEF Types, Running
<1>2. CASE Jump
  <2>1. Fetch("jmp") /\ "jmp" \in Branches /\ StackType(buf', ptr')
      BY <1>2 DEF Jump, Branches, Types, stackvars
  <2> QED BY <1>1, <1>2, <2>1 DEF Jump
<1>3. CASE JumpIf
  <2>1. Fetch("jmp_true") /\ "jmp_true" \in Branches /\ Dropped(1)
      BY <1>3 DEF JumpIf, Branches
  <2>2. StackType(buf', ptr')
      BY <2>1, FetchGives, SlotFacts DEF Dropped, StackType, Needs
  <2> QED BY <1>1, <1>3, <2>1, <2>2 DEF JumpIf
<1>4. CASE JumpUnless
  <2>1. Fetch("jmp_false") /\ "jmp_false" \in Branches /\ Dropped(1)
      BY <1>4 DEF JumpUnless, Branches
  <2>2. StackType(buf', ptr')
      BY <2>1, FetchGives, SlotFacts DEF Dropped, StackType, Needs
  <2> QED BY <1>1, <1>4, <2>1, <2>2 DEF JumpUnless
<1> QED BY <1>2, <1>3, <1>4

\* The frames left when the last one returns.
LEMMA Popped ==
    ASSUME NEW T, NEW s \in Seq(T), Len(s) \in Nat \ {0}
    PROVE  /\ SubSeq(s, 1, Len(s) - 1) \in Seq(T)
           /\ Len(SubSeq(s, 1, Len(s) - 1)) = Len(s) - 1
           /\ \A i \in 1..(Len(s) - 1) : SubSeq(s, 1, Len(s) - 1)[i] = s[i]
<1> DEFINE m == Len(s) - 1
<1>1. \A i \in 1..m : s[i] \in T
    BY ElementOfSeq
<1>2. 1 \in Int /\ m \in Int /\ m \in Nat
    OBVIOUS
<1> HIDE DEF m
<1>3. /\ SubSeq(s, 1, m) \in Seq(T)
      /\ Len(SubSeq(s, 1, m)) = IF 1 <= m THEN m - 1 + 1 ELSE 0
      /\ \A i \in 1..(m - 1 + 1) : SubSeq(s, 1, m)[i] = s[1 + i - 1]
    BY <1>1, <1>2, SubSeqProperties
<1>4. Len(SubSeq(s, 1, m)) = m
    BY <1>2, <1>3
<1>5. \A i \in 1..m : SubSeq(s, 1, m)[i] = s[i]
    BY <1>2, <1>3
<1> QED BY <1>3, <1>4, <1>5 DEF m

LEMMA ReturnTypes ==
    ASSUME Types, Return PROVE Types'
<1> DEFINE frame == callstack[Len(callstack)]
           locals == Entry(frame.entry).locals
<1>1. Fetch("ret") /\ Shift(locals + 1, Arg(0))
      /\ pc' = frame.pc /\ bp' = frame.bp /\ current_entry' = frame.entry
      /\ callstack' = SubSeq(callstack, 1, Len(callstack) - 1)
      /\ UNCHANGED <<prog, host, callee, exception, status>>
    BY DEF Return
<1>2. frame \in FrameOf(prog) /\ Len(callstack) \in Nat \ {0}
    BY <1>1, LoopingFrame DEF Fetch
<1>3. prog \in Programs /\ frame.entry \in DOMAIN prog.entries /\ frame.pc \in Nat \ {0}
      /\ frame.bp \in 0..StackSize
    BY <1>1, <1>2, FetchGives DEF FrameOf
<1>4. locals \in Nat
    BY <1>3, EntryFields DEF Entry
<1>5. ptr > locals /\ ptr \in 0..(StackSize - 1)
    BY <1>1, FetchGives DEF InRange
<1>6. locals + 1 \in 0..ptr /\ 0 \in 0..(ptr - 1) /\ ptr \in 0..StackSize
    BY <1>4, <1>5, SlotFacts
<1>7. Arg(0) \in Value
    BY <1>1, <1>6, FetchGives, ArgType
<1> HIDE DEF locals
<1>8. StackType(buf', ptr')
    BY <1>1, <1>5, <1>6, <1>7, FetchGives, ShiftType
<1>9. callstack' \in Seq(FrameOf(prog))
    BY <1>1, <1>2, Popped DEF Types
<1> HIDE DEF frame
<1> QED BY <1>1, <1>3, <1>8, <1>9 DEF Types, Running

LEMMA RunEndTypes ==
    ASSUME Types, RunEnd PROVE Types'
<1> DEFINE h == host[Len(host)]
<1>1. host \in Seq(Activation) /\ Hosted(host) /\ Len(host) \in Nat \ {0} /\ h \in Activation
    BY EmptySeq, ElementOfSeq DEF RunEnd, Types, Hosted
<1>2. host' = SubSeq(host, 1, Len(host) - 1)
      /\ UNCHANGED <<prog, pc, bp, current_entry, callstack, callee, exception>>
    BY DEF RunEnd, registers
<1>3. /\ host' \in Seq(Activation) /\ Len(host') = Len(host) - 1
      /\ \A i \in 1..(Len(host) - 1) : host'[i] = host[i]
    BY <1>1, <1>2, Popped
<1>4. h.then \in {"none", "fold", "native"} /\ h.arity \in Nat
    BY <1>1 DEF Activation
<1>5. CASE ptr < h.arity + 2 /\ h.then # "none"
  <2>1. status' = "fault" /\ UNCHANGED <<buf, ptr>>
      BY <1>5 DEF RunEnd, stackvars
  <2> QED BY <1>2, <1>3, <2>1 DEF Types, Running, StackType, Status
<1>6. CASE ~(ptr < h.arity + 2 /\ h.then # "none")
  <2>1. Finish(h.then, h.arity, buf, ptr) /\ status' = IF Len(host) = 1 THEN "done" ELSE status
      BY <1>6 DEF RunEnd
  <2>2. ptr \in 0..StackSize /\ buf \in [Slots -> Value]
      BY DEF Types, StackType
  <2>3. (h.then # "none" => ptr >= 1) /\ (h.then = "native" => ptr >= h.arity + 1)
      BY <1>4, <1>6, <2>2, SlotFacts
  <2> HIDE DEF h
  <2>4. StackType(buf', ptr')
      BY <1>4, <2>1, <2>2, <2>3, FinishTypes
  <2>5. status' = "run" => Hosted(host')
    <3> SUFFICES ASSUME status' = "run" PROVE Hosted(host')
        OBVIOUS
    <3>1. Len(host) # 1
        BY <2>1
    <3>2. host'[1] = host[1] /\ Len(host') # 0
        BY <1>1, <1>3, <3>1
    <3>3. host' # <<>>
        BY <3>2, EmptySeq
    <3> QED BY <1>1, <3>2, <3>3 DEF Hosted
  <2> QED BY <1>2, <1>3, <2>1, <2>4, <2>5 DEF Types, Running, Status
<1> QED BY <1>5, <1>6

\* The catch block an exception goes to is the last one of the table around it.
LEMMA LastHandler ==
    ASSUME NEW p \in Programs, NEW i, AroundAt(p, i) # {}
    PROVE  /\ LastAround(p, i) \in AroundAt(p, i) /\ LastAround(p, i) = LastOf(AroundAt(p, i))
           /\ CatchAt(p, i) \in Nat \ {0}
<1>1. Len(p.handlers) \in Nat /\ \A h \in 1..Len(p.handlers) : p.handlers[h].catch \in Nat \ {0}
    BY ProgramsAssumption DEF ProgramType
<1>2. AroundAt(p, i) \in SUBSET (1..Len(p.handlers))
    BY DEF AroundAt
<1> DEFINE S == AroundAt(p, i)
<1> HIDE DEF S
<1>3. \E h \in S : \A j \in S : j <= h
    BY <1>1, <1>2, Greatest DEF S
<1>4. LastOf(S) \in S
    BY <1>3 DEF LastOf
<1>5. LastAround(p, i) = LastOf(S)
    BY DEF LastAround, LastOf, S
<1> QED BY <1>1, <1>2, <1>4, <1>5 DEF S, CatchAt

LEMMA HandleTypes ==
    ASSUME Types, Handle PROVE Types'
<1>1. exception' = NoException /\ UNCHANGED <<prog, bp, current_entry, callstack, host, callee>>
    BY DEF Handle
<1>2. CASE 1 \in Handlers /\ ptr < StackSize
  <2>1. pc' = prog.handlers[LastOf(Handlers)].catch /\ Shift(0, Exception) /\ status' = status
      BY <1>2 DEF Handle
  <2>2. Handlers = AroundAt(prog, pc)
      BY DEF Handlers, AroundAt, Around
  <2>3. pc' \in Nat \ {0}
      BY <1>2, <2>1, <2>2, LastHandler DEF Types, Running, CatchAt
  <2>4. ptr \in 0..(StackSize - 1) /\ buf \in [Slots -> Value] /\ 0 \in 0..ptr
      BY <1>2, SlotFacts DEF Types, StackType
  <2>5. StackType(buf', ptr')
      BY <2>1, <2>4, ShiftType, SomeValues
  <2> QED BY <1>1, <2>1, <2>3, <2>5 DEF Types, Running, Kinds
<1>3. CASE ~(1 \in Handlers /\ ptr < StackSize)
  <2>1. status' \in {"aborted", "fault"} /\ UNCHANGED <<pc, buf, ptr>>
      BY <1>3 DEF Handle, stackvars
  <2> QED BY <1>1, <2>1 DEF Types, Running, StackType, Kinds, Status
<1> QED BY <1>2, <1>3

\* Where the program stops without a step of its own.
LEMMA StopTypes ==
    ASSUME Types, OutOfObjects \/ StackFault \/ Stopped \/ UNCHANGED vars PROVE Types'
<1>1. /\ UNCHANGED <<prog, pc, bp, current_entry, buf, ptr, callstack, host, callee, exception>>
      /\ status' \in {"out of objects", "fault", status}
    BY DEF OutOfObjects, StackFault, Stopped, vars, registers, stackvars
<1>2. status' \in Status /\ (status' = "run" => status = "run")
    BY <1>1 DEF Types, Status
<1> QED BY <1>1, <1>2 DEF Types, Running, StackType, Hosted

LEMMA InitTypes == Init => Types
<1> SUFFICES ASSUME Init PROVE Types OBVIOUS
<1>1. prog \in Programs /\ 1 \in DOMAIN prog.entries /\ Entry(1).start \in Nat \ {0}
    BY ProgramsAssumption, EntryFields DEF Init, Entry, ProgramType
<1>2. Running(prog, pc, bp, current_entry) /\ StackType(buf, ptr)
    BY <1>1, SlotFacts, SomeValues DEF Init, Running, StackType
<1>3. callstack \in Seq(FrameOf(prog))
  <2>1. [pc |-> Entry(1).start, bp |-> 0, entry |-> 1] \in FrameOf(prog)
      BY <1>1, SlotFacts DEF FrameOf
  <2> QED BY <2>1 DEF Init
<1>4. host \in Seq(Activation) /\ Hosted(host)
  <2> DEFINE h == [depth |-> 1, then |-> "none", arity |-> 0]
  <2>1. h \in Activation /\ h.then = "none"
      BY DEF Activation
  <2> HIDE DEF h
  <2>2. host = <<h>>
      BY DEF Init, h
  <2> QED BY <2>1, <2>2 DEF Hosted
<1> QED BY <1>2, <1>3, <1>4 DEF Init, Types, Kinds, Status

LEMMA StepTypes == Types /\ [Next]_vars => Types'
<1> SUFFICES ASSUME Types, [Next]_vars PROVE Types' OBVIOUS
<1>1. CASE Execute
  <2>1. CASE Load \/ LoadThis \/ LoadLocal \/ Dup
      BY <2>1, LoadTypes
  <2>2. CASE StoreLocal
      BY <2>2, StoreTypes
  <2>3. CASE Pop \/ Nop \/ Binary \/ NewArr \/ SetCallee \/ Throw
      BY <2>3, SimpleTypes
  <2>4. CASE Equal
      BY <2>4, EqualTypes
  <2>5. CASE Arith
      BY <2>5, ArithTypes
  <2>6. CASE Add
      BY <2>6, AddTypes
  <2>7. CASE LoadProp \/ StoreProp
      BY <2>7, PropTypes
  <2>8. ASSUME NEW o \in Objects, NewObj(o) PROVE Types'
      BY <2>8, NewObjTypes
  <2>9. CASE VCall \/ StaticCall
      BY <2>9, CallsTypes
  <2>10. CASE SysCall
      BY <2>10, SysCallTypes
  <2>11. CASE ParamToArr
      BY <2>11, ParamToArrTypes
  <2>12. CASE Jump \/ JumpIf \/ JumpUnless
      BY <2>12, JumpTypes
  <2>13. CASE Return
      BY <2>13, ReturnTypes
  <2> QED
      BY <1>1, <2>1, <2>2, <2>3, <2>4, <2>5, <2>6, <2>7, <2>8, <2>9, <2>10, <2>11, <2>12, <2>13
      DEF Execute
<1>2. CASE OutOfObjects \/ StackFault \/ Stopped \/ UNCHANGED vars
    BY <1>2, StopTypes
<1>3. CASE RunEnd
    BY <1>3, RunEndTypes
<1>4. CASE Handle
    BY <1>4, HandleTypes
<1> QED BY <1>1, <1>2, <1>3, <1>4 DEF Next

LEMMA AlwaysTypes == Spec => []Types
BY InitTypes, StepTypes, PTL DEF Spec

\* Whatever the program does, the registers, the stack, the frames and the activations
\* of run_entry keep their types: no handler, jump, call or return leads outside them.
THEOREM RunnerTypes == Spec => []TypeOK
BY AlwaysTypes, TypesGive, PTL

--------------------------------------------------------------------------------
(***************************************************************************)
(* Activations of run_entry and call frames.  They are in step unless an   *)
(* exception is on its way that the program does not catch: only a C++     *)
(* exception takes activations away without their frames, or leaves a      *)
(* frame without an activation.                                            *)
(***************************************************************************)
InStep(cs, hs) ==
    /\ Len(cs) \in {Len(hs) - 1, Len(hs)}
    /\ \A j \in 1..Len(hs) : hs[j].depth = j

HostInv ==
    status = "run" /\ (exception # NoException => Caught(prog, pc)) => InStep(callstack, host)

\* While it executes instructions, an activation has its frame.
LEMMA LoopingInStep ==
    ASSUME Types, HostInv, Looping
    PROVE  Len(callstack) = Len(host) /\ InStep(callstack, host) /\ Len(host) \in Nat \ {0}
<1>1. InStep(callstack, host)
    BY DEF HostInv, Looping
<1>2. Len(callstack) \in Nat \ {0} /\ Len(host) \in Nat \ {0}
    BY LoopingFrame
<1>3. host[Len(host)].depth = Len(host)
    BY <1>1, <1>2 DEF InStep
<1>4. Len(callstack) >= Len(host)
    BY <1>3 DEF Looping
<1> QED
    BY <1>1, <1>2, <1>4 DEF InStep

LEMMA SameHosts ==
    ASSUME InStep(callstack, host), UNCHANGED <<callstack, host>>
    PROVE  HostInv'
BY DEF HostInv, InStep

LEMMA EnterHosts ==
    ASSUME Types, HostInv, Guarded(prog), Looping,
           NEW e \in DOMAIN prog.entries, NEW n, NEW b, NEW p,
           NEW then \in {"none", "fold", "native"}, NEW arity \in Nat,
           EnterFrame(e, n, b, p, then, arity)
    PROVE  HostInv'
<1> DEFINE size == FirstSlot(e, p, n) + Bound(e, n) + Locals(e)
           top == [pc |-> Resume, bp |-> bp, entry |-> e]
           act == [depth |-> Len(callstack) + 1, then |-> then, arity |-> arity]
<1>1. CASE size > StackSize
    BY <1>1 DEF EnterFrame, HostInv
<1>2. CASE ~(size > StackSize) /\ TooDeep(Len(callstack) + 1)
  <2>1. CppThrow(then = "native") /\ pc' = Entry(e).start /\ prog' = prog
      BY <1>2 DEF EnterFrame
  <2>2. host \in Seq(Activation) /\ Hosted(host) /\ status = "run" /\ exception \in Kinds
      BY DEF Types, Looping
  <2>3. status' = "run" => exception' # NoException
      BY <2>1, <2>2, ThrowTypes
  <2>4. ~Caught(prog', pc')
      BY <2>1 DEF Guarded, Entry
  <2> QED BY <2>3, <2>4 DEF HostInv
<1>3. CASE ~(size > StackSize) /\ ~TooDeep(Len(callstack) + 1)
  <2>1. callstack' = Append(callstack, top) /\ host' = Append(host, act)
      BY <1>3 DEF EnterFrame
  <2>2. Len(callstack) = Len(host) /\ InStep(callstack, host) /\ Len(host) \in Nat \ {0}
      BY LoopingInStep
  <2>3. top \in FrameOf(prog)
      BY LoopingInStep DEF Types, Running, FrameOf, Resume, Looping
  <2>4. act \in Activation /\ act.depth = Len(host) + 1
      BY <2>2 DEF Activation
  <2> HIDE DEF top, act
  <2>5. Len(callstack') = Len(callstack) + 1
      BY <2>1, <2>3, AppendProperties DEF Types
  <2>6. /\ Len(host') = Len(host) + 1 /\ host'[Len(host) + 1] = act
        /\ \A j \in 1..Len(host) : host'[j] = host[j]
      BY <2>1, <2>4, AppendProperties DEF Types
  <2>7. \A j \in 1..Len(host') : host'[j].depth = j
      BY <2>2, <2>4, <2>6 DEF InStep
  <2>8. Len(callstack') \in {Len(host') - 1, Len(host')}
      BY <2>2, <2>5, <2>6
  <2> QED BY <2>7, <2>8 DEF InStep, HostInv
<1> QED BY <1>1, <1>2, <1>3

LEMMA CallHosts ==
    ASSUME Types, HostInv, Guarded(prog), Looping,
           NEW e \in DOMAIN prog.entries, NEW n, NEW b, NEW p,
           NEW then \in {"none", "fold", "native"}, NEW arity \in Nat,
           ProgramCall(e, n, b, p, then, arity)
    PROVE  HostInv'
<1>1. CASE n > Entry(e).params /\ ~Entry(e).va_args
    BY <1>1, SameHosts, LoopingInStep DEF ProgramCall, Advance
<1>2. CASE ~(n > Entry(e).params /\ ~Entry(e).va_args)
    BY <1>2, EnterHosts DEF ProgramCall
<1> QED BY <1>1, <1>2

LEMMA VCallHosts ==
    ASSUME Types, HostInv, Guarded(prog), Looping,
           NEW v, NEW name, NEW n, NEW b, NEW p, NEW c, VCallOn(v, name, n, b, p, c)
    PROVE  HostInv'
<1>1. CASE Scripted(v, name) /\ v \notin {Null, Empty}
  <2>1. ProgramCall(Method(v, name).entry, n, b, p, "fold", 0)
      BY <1>1 DEF VCallOn, Scripted, HasMethod, Responds
  <2>2. Method(v, name).entry \in DOMAIN prog.entries
      BY <1>1, MethodEntry DEF Scripted, Types, Running
  <2> QED BY <2>1, <2>2, CallHosts
<1>2. CASE ~(Scripted(v, name) /\ v \notin {Null, Empty})
  <2>1. Advance
    <3>1. \/ Raise("null pointer", b, p) \/ Raise("method not found", b, p) \/ Raise("native", b, p)
          \/ \E r \in Results : NativeReturn(n + 1, b, p, r)
        BY <1>2, ValuesAssumption DEF VCallOn, Scripted, HasMethod, Responds
    <3> QED BY <3>1 DEF Raise, NativeReturn
  <2> QED BY <2>1, SameHosts, LoopingInStep DEF Advance
<1> QED BY <1>1, <1>2

LEMMA ThrownHosts ==
    ASSUME Types, HostInv, Guarded(prog), NEW op \in {"ldprop", "stprop"}, Fetch(op),
           CppThrow(FALSE), pc' = pc + 1, prog' = prog
    PROVE  HostInv'
<1>1. host \in Seq(Activation) /\ Hosted(host) /\ status = "run" /\ exception \in Kinds
    BY DEF Types, Fetch, Looping
<1>2. status' = "run" => exception' # NoException
    BY <1>1, ThrowTypes
<1>3. ~Caught(prog', pc')
    BY FetchGives DEF Guarded, Code
<1> QED BY <1>2, <1>3 DEF HostInv

LEMMA ExecuteHosts ==
    ASSUME Types, HostInv, Guarded(prog), Execute PROVE HostInv'
<1>1. Looping
    BY DEF Execute, Fetch, Load, LoadThis, LoadLocal, StoreLocal, Dup, Pop, Nop, Binary, Equal,
           Arith, Add, LoadProp, StoreProp, NewArr, NewObj, SetCallee, VCall, StaticCall, SysCall,
           ParamToArr, Jump, JumpIf, JumpUnless, Return, Throw
<1> USE <1>1, LoopingInStep
<1>2. CASE UNCHANGED <<callstack, host>>
    BY <1>2, SameHosts
<1>3. ASSUME NEW v, NEW name, NEW n, NEW b, NEW p, NEW c, VCallOn(v, name, n, b, p, c)
      PROVE  HostInv'
    BY <1>3, VCallHosts
<1>4. CASE Load \/ LoadThis \/ LoadLocal \/ StoreLocal \/ Dup \/ Pop \/ Nop \/ Binary \/ NewArr
           \/ SetCallee \/ ParamToArr \/ Throw
    BY <1>2, <1>4 DEF Load, LoadThis, LoadLocal, StoreLocal, Dup, Pop, Nop, Binary, NewArr,
                      SetCallee, ParamToArr, Throw, Raise, Plain, Advance
<1>5. CASE Equal
    BY <1>2, <1>3, <1>5 DEF Equal, Plain, Advance
<1>6. CASE Arith
  <2>1. CASE VCallOn(Arg(1), Inst.name, 1, buf, ptr, None)
      BY <1>3, <2>1
  <2>2. CASE ~VCallOn(Arg(1), Inst.name, 1, buf, ptr, None)
      BY <1>2, <1>6, <2>2 DEF Arith, Raise, Plain, Advance
  <2> QED BY <2>1, <2>2
<1>7. CASE Add
    BY <1>2, <1>3, <1>7 DEF Add, Plain, Advance
<1>8. CASE LoadProp
    BY <1>2, <1>8, ThrownHosts DEF LoadProp, Plain, Advance
<1>9. CASE StoreProp
    BY <1>2, <1>9, ThrownHosts DEF StoreProp, Plain, Advance
<1>10. ASSUME NEW o \in Objects, NewObj(o) PROVE HostInv'
  <2>1. CASE HasMethod(o, "_ctor")
    <3>1. Method(o, "_ctor").entry \in DOMAIN prog.entries
        BY <2>1, MethodEntry DEF Types, Running
    <3> QED BY <1>10, <2>1, <3>1, CallHosts DEF NewObj
  <2>2. CASE ~HasMethod(o, "_ctor")
      BY <1>2, <1>10, <2>2 DEF NewObj, Plain, Advance
  <2> QED BY <2>1, <2>2
<1>11. CASE VCall
    BY <1>3, <1>11 DEF VCall
<1>12. CASE StaticCall
  <2>1. Inst.k \in DOMAIN prog.entries /\ 0 \in Nat
      BY <1>12, FetchGives, InstructionFields DEF StaticCall
  <2> QED BY <1>12, <2>1, CallHosts DEF StaticCall
<1>13. CASE SysCall
  <2>1. CASE Inst.mode = "prints" /\ Scripted(buf[ptr - 1], "to_string")
    <3>1. Method(buf[ptr - 1], "to_string").entry \in DOMAIN prog.entries
        BY <2>1, MethodEntry DEF Scripted, Types, Running
    <3>2. Inst.arity \in Nat
        BY <1>13, FetchGives, InstructionFields DEF SysCall
    <3> QED BY <1>13, <2>1, <3>1, <3>2, CallHosts DEF SysCall, Native
  <2>2. CASE ~(Inst.mode = "prints" /\ Scripted(buf[ptr - 1], "to_string"))
      BY <1>2, <1>13, <2>2 DEF SysCall, Native, NativeReturn, Raise, Advance
  <2> QED BY <2>1, <2>2
<1>14. CASE Jump \/ JumpIf \/ JumpUnless
    BY <1>2, <1>14 DEF Jump, JumpIf, JumpUnless
<1>15. CASE Return
  <2>1. callstack' = SubSeq(callstack, 1, Len(callstack) - 1) /\ host' = host
      BY <1>15 DEF Return
  <2>2. Len(callstack') = Len(callstack) - 1
      BY <2>1, Popped DEF Types
  <2> QED BY <2>1, <2>2 DEF HostInv, InStep
<1> QED
    BY <1>4, <1>5, <1>6, <1>7, <1>8, <1>9, <1>10, <1>11, <1>12, <1>13, <1>14, <1>15 DEF Execute

LEMMA RunEndHosts ==
    ASSUME Types, HostInv, RunEnd PROVE HostInv'
<1>1. InStep(callstack, host) /\ callstack' = callstack /\ host' = SubSeq(host, 1, Len(host) - 1)
    BY DEF RunEnd, HostInv
<1>2. host \in Seq(Activation) /\ Len(host) \in Nat \ {0}
    BY EmptySeq DEF RunEnd, Types, Hosted
<1>3. /\ Len(host') = Len(host) - 1
      /\ \A i \in 1..(Len(host) - 1) : host'[i] = host[i]
    BY <1>1, <1>2, Popped
<1>4. Len(callstack) < Len(host) /\ Len(callstack) \in Nat
    BY <1>1, <1>2, LenProperties DEF InStep, RunEnd, Types
<1>5. Len(callstack') = Len(host')
    BY <1>1, <1>2, <1>3, <1>4 DEF InStep
<1>6. \A j \in 1..Len(host') : host'[j].depth = j
    BY <1>1, <1>2, <1>3 DEF InStep
<1> QED BY <1>5, <1>6 DEF HostInv, InStep

LEMMA HandleHosts ==
    ASSUME Types, HostInv, Handle PROVE HostInv'
<1>1. Handlers = AroundAt(prog, pc)
    BY DEF Handlers, AroundAt, Around
<1>2. CASE Caught(prog, pc)
  <2>1. InStep(callstack, host)
      BY <1>2 DEF HostInv, Handle
  <2> QED BY <2>1, SameHosts DEF Handle
<1>3. CASE ~Caught(prog, pc)
  <2>1. status' = "aborted"
      BY <1>1, <1>3 DEF Handle, Caught
  <2> QED BY <2>1 DEF HostInv
<1> QED BY <1>2, <1>3

LEMMA StepHosts ==
    ASSUME Types, HostInv, Guarded(prog), [Next]_vars PROVE HostInv'
<1>1. CASE Execute
    BY <1>1, ExecuteHosts
<1>2. CASE RunEnd
    BY <1>2, RunEndHosts
<1>3. CASE Handle
    BY <1>3, HandleHosts
<1>4. CASE OutOfObjects \/ StackFault
    BY <1>4 DEF OutOfObjects, StackFault, HostInv
<1>5. CASE Stopped \/ UNCHANGED vars
    BY <1>5 DEF Stopped, vars, registers, HostInv, Caught, AroundAt, InStep
<1> QED BY <1>1, <1>2, <1>3, <1>4, <1>5 DEF Next

LEMMA InitHosts == Init => HostInv
<1> SUFFICES ASSUME Init PROVE HostInv OBVIOUS
<1> DEFINE h == [depth |-> 1, then |-> "none", arity |-> 0]
           f == [pc |-> Entry(1).start, bp |-> 0, entry |-> 1]
<1>1. host = <<h>> /\ h.depth = 1 /\ callstack = <<f>>
    BY DEF Init
<1> HIDE DEF h, f
<1> QED BY <1>1 DEF HostInv, InStep

LEMMA HostInvGives == ASSUME HostInv PROVE HostInStep
BY DEF HostInv, InStep, HostInStep

\* In programs that catch no C++ exception, every activation of run_entry runs its own
\* call frame: as many frames as activations, or one less when a call has just returned.
THEOREM HostsInStep ==
    ASSUME \A p \in Programs : Guarded(p)
    PROVE  Spec => []HostInStep
<1>1. Types => Guarded(prog)
    BY DEF Types, Running
<1>2. Spec => []HostInv
    BY <1>1, AlwaysTypes, InitHosts, StepHosts, PTL DEF Spec
<1> QED BY <1>2, HostInvGives, PTL

--------------------------------------------------------------------------------
(***************************************************************************)
(* The height of the stack, for verified programs.  Given is what an       *)
(* activation of run_entry leaves above the slots its frame began at.  A   *)
(* frame that waits for a call goes on in its own method, at the height    *)
(* compiled there, once the callee is gone and the result is there; the    *)
(* frame of a call that has just returned already has its registers back,  *)
(* but its value is where the callee left it.                              *)
(***************************************************************************)
Given(h) ==
    CASE h.then = "none" -> 1
      [] h.then = "fold" -> 0
      [] h.then = "native" -> 0 - h.arity

BaseOf(cs, b, i) == IF i = Len(cs) THEN b ELSE cs[i + 1].bp

Waiting(p, cs, hs, b, i) ==
    /\ InMethod(p, cs[i].entry, cs[i + 1].pc)
    /\ cs[i + 1].bp + p.height[cs[i + 1].pc] = BaseOf(cs, b, i + 1) + Given(hs[i + 1])
    /\ p.height[cs[i + 1].pc] >= 1

Ordered(cs, b) ==
    \A i, j \in 1..Len(cs) : i <= j => BaseOf(cs, b, i) <= BaseOf(cs, b, j)

Chain(p, cs, hs, b) ==
    /\ cs # <<>> => BaseOf(cs, b, 1) = 0
    /\ Ordered(cs, b)
    /\ \A i \in 1..(Len(cs) - 1) : Waiting(p, cs, hs, b, i)

Level(p, cs, i, b, top) == InMethod(p, cs[Len(cs)].entry, i) /\ top = b + p.height[i]

Now(p, cs, hs, i, b, top) ==
    IF Len(cs) = Len(hs) THEN Level(p, cs, i, b, top)
    ELSE IF cs = <<>> THEN top = 1
    ELSE Level(p, cs, i, b, top - 1 + Given(hs[Len(hs)])) /\ p.height[i] >= 1

HeightsInv ==
    /\ status = "run" =>
         IF exception = NoException
         THEN /\ InStep(callstack, host) /\ Chain(prog, callstack, host, bp)
              /\ Now(prog, callstack, host, pc, bp, ptr)
         ELSE Caught(prog, pc) =>
              /\ InStep(callstack, host) /\ Chain(prog, callstack, host, bp)
              /\ Len(callstack) = Len(host)
              /\ Level(prog, callstack, CatchAt(prog, pc), bp, ptr + 1)
              /\ prog.height[CatchAt(prog, pc)] >= 1
    /\ status = "done" => ptr = 1

LEMMA HeightsHosts == ASSUME HeightsInv PROVE HostInv
BY DEF HeightsInv, HostInv

LEMMA BaseType ==
    ASSUME Types, NEW i \in 1..Len(callstack)
    PROVE  BaseOf(callstack, bp, i) \in Int
<1>1. CASE i = Len(callstack)
    BY <1>1, SlotFacts DEF BaseOf, Types, Running
<1>2. CASE i # Len(callstack)
  <2>1. i + 1 \in 1..Len(callstack)
      BY <1>2, LenProperties DEF Types
  <2>2. callstack[i + 1] \in FrameOf(prog)
      BY <2>1, ElementOfSeq DEF Types
  <2> QED BY <1>2, <2>2, SlotFacts DEF BaseOf, FrameOf
<1> QED BY <1>1, <1>2

\* The method that runs, and what its code says of the instruction it is at.
Method_ == callstack[Len(callstack)].entry

LEMMA Here ==
    ASSUME Types, HeightsInv, Verified(prog), Looping
    PROVE  /\ Len(callstack) = Len(host) /\ Len(host) \in Nat \ {0}
           /\ InStep(callstack, host) /\ Chain(prog, callstack, host, bp)
           /\ Method_ \in DOMAIN prog.entries
           /\ InMethod(prog, Method_, pc) /\ ptr = bp + prog.height[pc]
           /\ Heights(prog, Method_, pc) /\ Raises(prog, Method_, pc)
<1>1. Len(callstack) = Len(host) /\ InStep(callstack, host) /\ Len(host) \in Nat \ {0}
    BY HeightsHosts, LoopingInStep
<1>2. Chain(prog, callstack, host, bp) /\ Level(prog, callstack, pc, bp, ptr)
    BY <1>1 DEF HeightsInv, Looping, Now
<1>3. Method_ \in DOMAIN prog.entries
    BY LoopingFrame DEF Method_, FrameOf
<1>4. InMethod(prog, Method_, pc) /\ ptr = bp + prog.height[pc]
    BY <1>2 DEF Level, Method_
<1>5. Heights(prog, Method_, pc) /\ Raises(prog, Method_, pc)
    BY <1>3, <1>4 DEF Verified, InMethod
<1> QED BY <1>1, <1>2, <1>3, <1>4, <1>5

\* The running method goes on at an instruction of its own.
LEMMA GoesOn ==
    ASSUME Types, HeightsInv, Verified(prog), Looping,
           UNCHANGED <<prog, bp, callstack, host, exception, status>>,
           InMethod(prog, Method_, pc'), ptr' = bp + prog.height[pc']
    PROVE  HeightsInv'
<1>1. Level(prog, callstack, pc', bp, ptr')
    BY DEF Level, Method_
<1>2. status = "run" /\ exception = NoException
    BY DEF Looping
<1> QED
    BY <1>1, <1>2, Here DEF HeightsInv, Now

\* An exception that no handler of the program is for.
LEMMA Uncaught ==
    ASSUME status' = "run" => exception' # NoException /\ ~Caught(prog', pc'), status' # "done"
    PROVE  HeightsInv'
BY DEF HeightsInv

LEMMA Effects ==
    ASSUME NEW i, i.n \in Nat
    PROVE  /\ i.op \in {"ld", "ldthis", "ldloc", "dup"} => Effect(i) = 1
           /\ i.op \in {"stloc", "pop", "binary", "equal", "arith", "add", "jmp_true", "jmp_false"}
                => Effect(i) = 0 - 1
           /\ i.op = "stprop" => Effect(i) = 0 - 2
           /\ i.op \in {"call", "newobj", "newarr"} => Effect(i) = 1 - i.n
           /\ i.op = "vcall" => Effect(i) = 0 - i.n
           /\ i.op = "syscall" => Effect(i) = 1 - i.arity
           /\ i.op \in {"nop", "ldprop", "setcallee", "param_to_arr", "jmp"} => Effect(i) = 0
BY DEF Effect

\* An instruction does to the stack what the compiler has counted.
LEMMA AsCounted ==
    ASSUME Types, HeightsInv, Verified(prog), NEW op, Fetch(op), op \notin Stops,
           Advance, exception' = exception, status' = status, ptr' = ptr + Effect(Inst),
           Effect(Inst) \in Int
    PROVE  HeightsInv'
<1>1. Looping /\ Inst = prog.code[pc] /\ Inst.op = op
    BY FetchGives DEF Fetch
<1>2. InMethod(prog, Method_, pc + 1) /\ prog.height[pc + 1] = prog.height[pc] + Effect(Inst)
      /\ prog.height[pc] \in Nat
    BY <1>1, Here DEF Heights
<1>3. bp \in Int /\ ptr = bp + prog.height[pc] /\ pc' = pc + 1
    BY <1>1, Here, SlotFacts DEF Advance, Types, Running
<1>4. ptr' = bp + prog.height[pc']
    BY <1>2, <1>3
<1> QED BY <1>1, <1>2, <1>3, <1>4, GoesOn DEF Advance

\* The call of a method: the caller waits at the next instruction, the callee begins with
\* its locals.
LEMMA EnterHeights ==
    ASSUME Types, HeightsInv, Verified(prog), Looping,
           NEW e \in DOMAIN prog.entries, NEW n \in Nat, NEW b \in [Slots -> Value],
           NEW p \in 0..StackSize, n <= p, n <= Entry(e).params,
           NEW then \in {"none", "fold", "native"}, NEW arity \in Nat,
           InMethod(prog, Method_, pc + 1),
           bp + prog.height[pc + 1]
             = p - n + Given([depth |-> Len(callstack) + 1, then |-> then, arity |-> arity]),
           bp <= p - n, prog.height[pc + 1] >= 1,
           EnterFrame(e, n, b, p, then, arity)
    PROVE  HeightsInv'
<1> DEFINE base == FirstSlot(e, p, n)
           size == base + Bound(e, n) + Locals(e)
           top == [pc |-> Resume, bp |-> bp, entry |-> e]
           act == [depth |-> Len(callstack) + 1, then |-> then, arity |-> arity]
<1>1. CASE size > StackSize
  <2>1. status' = "fault"
      BY <1>1 DEF EnterFrame
  <2> QED BY <2>1, Uncaught
<1>2. CASE ~(size > StackSize) /\ TooDeep(Len(callstack) + 1)
  <2>1. CppThrow(then = "native") /\ pc' = Entry(e).start /\ prog' = prog
      BY <1>2 DEF EnterFrame
  <2>2. host \in Seq(Activation) /\ Hosted(host) /\ status = "run" /\ exception \in Kinds
      BY DEF Types, Looping
  <2>3. (status' = "run" => exception' # NoException) /\ status' # "done"
      BY <2>1, <2>2, ThrowTypes DEF CppThrow
  <2>4. ~Caught(prog', pc')
      BY <2>1 DEF Verified, Guarded, Entry
  <2> QED BY <2>3, <2>4, Uncaught
<1>3. CASE ~(size > StackSize) /\ ~TooDeep(Len(callstack) + 1)
  <2>1. /\ ptr' = size /\ callstack' = Append(callstack, top) /\ host' = Append(host, act)
        /\ pc' = Entry(e).start /\ bp' = base /\ prog' = prog
        /\ exception' = exception /\ status' = status
      BY <1>3 DEF EnterFrame
  <2>2. /\ Len(callstack) = Len(host) /\ Len(host) \in Nat \ {0}
        /\ InStep(callstack, host) /\ Chain(prog, callstack, host, bp)
      BY Here
  <2>3. top \in FrameOf(prog)
      BY LoopingInStep DEF Types, Running, FrameOf, Resume, Looping
  <2>4. act \in Activation
      BY <2>2 DEF Activation
  <2>5. top.pc = pc + 1 /\ top.bp = bp /\ top.entry = e
      BY DEF Resume
  <2>6. HostInv /\ Guarded(prog)
      BY HeightsHosts DEF Verified
  <2>7. InStep(callstack', host')
      BY <2>1, <2>6, EnterHosts DEF HostInv, Looping
  <2>8. size = base + prog.entries[e].locals /\ prog.height[Entry(e).start] = prog.entries[e].locals
        /\ InMethod(prog, e, Entry(e).start)
    <3>1. Entry(e).params \in Nat /\ Entry(e).locals \in Nat /\ Entry(e).params <= Entry(e).locals
        BY EntryFields DEF Types, Running, Entry, Verified
    <3>2. Bound(e, n) = Entry(e).params
        BY <3>1 DEF Bound
    <3>3. Locals(e) = Entry(e).locals - Entry(e).params
        BY <3>1 DEF Locals, Fills
    <3>4. base \in Int
        BY SlotFacts DEF FirstSlot
    <3> QED BY <3>1, <3>2, <3>3, <3>4 DEF Entry, Verified
  <2> DEFINE k == Len(callstack)
  <2> HIDE DEF top, size
  <2>9. /\ Len(callstack') = k + 1 /\ callstack'[k + 1] = top
        /\ \A i \in 1..k : callstack'[i] = callstack[i]
      BY <2>1, <2>3, AppendProperties DEF Types
  <2>10. /\ Len(host') = k + 1 /\ host'[k + 1] = act
         /\ \A i \in 1..k : host'[i] = host[i]
    <3> HIDE DEF act
    <3> QED BY <2>1, <2>2, <2>4, AppendProperties DEF Types
  <2>11. Level(prog', callstack', pc', bp', ptr')
      BY <2>1, <2>5, <2>8, <2>9 DEF Level
  <2>12. \A i \in 1..k : BaseOf(callstack', bp', i) = BaseOf(callstack, bp, i)
      BY <2>2, <2>5, <2>9 DEF BaseOf
  <2>13. BaseOf(callstack', bp', k + 1) = p - n
      BY <2>1, <2>9 DEF BaseOf, FirstSlot
  <2>14. Chain(prog', callstack', host', bp')
    <3>1. BaseOf(callstack', bp', 1) = 0
        BY <2>2, <2>12, EmptySeq DEF Chain
    <3>2. ASSUME NEW i \in 1..(k - 1) PROVE Waiting(prog', callstack', host', bp', i)
      <4>1. Waiting(prog, callstack, host, bp, i)
          BY <2>2 DEF Chain
      <4>2. i \in 1..k /\ i + 1 \in 1..k
          BY <2>2
      <4> QED BY <2>1, <2>9, <2>10, <2>12, <4>1, <4>2 DEF Waiting
    <3>3. Waiting(prog', callstack', host', bp', k)
      <4>1. k \in 1..k
          BY <2>2
      <4>2. callstack'[k].entry = Method_ /\ callstack'[k + 1].pc = pc + 1 /\ callstack'[k + 1].bp = bp
          BY <2>5, <2>9, <4>1 DEF Method_
      <4> HIDE DEF k
      <4> QED BY <2>1, <2>10, <2>13, <4>2 DEF Waiting
    <3>4. \A i \in 1..(Len(callstack') - 1) : Waiting(prog', callstack', host', bp', i)
        BY <2>2, <2>9, <3>2, <3>3
    <3>5. Ordered(callstack', bp')
      <4>1. BaseOf(callstack, bp, k) = bp /\ k \in Nat \ {0} /\ Ordered(callstack, bp)
          BY <2>2 DEF BaseOf, Chain
      <4>2. \A i \in 1..k : BaseOf(callstack, bp, i) \in Int
          BY BaseType
      <4> DEFINE B(i) == BaseOf(callstack', bp', i)
      <4>3. \A i \in 1..k : B(i) = BaseOf(callstack, bp, i)
          BY <2>12
      <4>4. \A i \in 1..k : B(i) <= bp
          BY <4>1, <4>3 DEF Ordered
      <4>5. B(k + 1) = p - n /\ p - n \in Int /\ bp \in Int
          BY <2>13, SlotFacts DEF Types, Running
      <4>6. \A i, j \in 1..k : i <= j => B(i) <= B(j)
          BY <4>1, <4>3 DEF Ordered
      <4> HIDE DEF B, k
      <4>7. \A i, j \in 1..(k + 1) : i <= j => B(i) <= B(j)
        <5> SUFFICES ASSUME NEW i \in 1..(k + 1), NEW j \in 1..(k + 1), i <= j PROVE B(i) <= B(j)
            OBVIOUS
        <5>1. CASE j = k + 1 /\ i = k + 1
            BY <4>5, <5>1
        <5>2. CASE j = k + 1 /\ i # k + 1
          <6>1. i \in 1..k
              BY <4>1, <5>2
          <6> QED BY <4>2, <4>3, <4>4, <4>5, <5>2, <6>1
        <5>3. CASE j # k + 1
          <6>1. i \in 1..k /\ j \in 1..k
              BY <4>1, <5>3
          <6> QED BY <4>6, <6>1
        <5> QED BY <5>1, <5>2, <5>3
      <4> QED BY <2>9, <4>7 DEF Ordered, B
    <3> QED BY <3>1, <3>4, <3>5 DEF Chain
  <2>15. Now(prog', callstack', host', pc', bp', ptr')
      BY <2>9, <2>10, <2>11 DEF Now
  <2> QED
      BY <2>1, <2>7, <2>14, <2>15 DEF HeightsInv, Looping
<1> QED BY <1>1, <1>2, <1>3

LEMMA CallHeights ==
    ASSUME Types, HeightsInv, Verified(prog), NEW op, Fetch(op), op \notin Stops,
           NEW e \in DOMAIN prog.entries, NEW n \in Nat, NEW b \in [Slots -> Value],
           NEW p \in 0..StackSize, n <= p, n > 0 => MayRaise(Inst),
           NEW then \in {"none", "fold", "native"}, NEW arity \in Nat,
           ptr + Effect(Inst)
             = p - n + Given([depth |-> Len(callstack) + 1, then |-> then, arity |-> arity]),
           Effect(Inst) \in Int, Needs(Inst) + Effect(Inst) >= 1, Needs(Inst) \in Nat,
           ProgramCall(e, n, b, p, then, arity)
    PROVE  HeightsInv'
<1>1. Looping /\ Inst = prog.code[pc] /\ Inst.op = op
    BY FetchGives DEF Fetch
<1>2. InMethod(prog, Method_, pc + 1) /\ prog.height[pc + 1] = prog.height[pc] + Effect(Inst)
      /\ prog.height[pc] \in Nat /\ ptr = bp + prog.height[pc]
    BY <1>1, Here DEF Heights
<1>3. Entry(e).params \in Nat /\ ~Entry(e).va_args
    BY EntryFields DEF Types, Running, Entry, Verified
<1>4. CASE n > Entry(e).params
  <2>1. exception' = "too many parameters" /\ Advance /\ status' = status
      BY <1>3, <1>4 DEF ProgramCall
  <2>2. MayRaise(Inst)
      BY <1>3, <1>4
  <2>3. ~Caught(prog, pc + 1)
      BY <1>1, <2>2, Here DEF Raises
  <2>4. status' # "done" /\ exception' # NoException
      BY <1>1, <2>1 DEF Looping, NoException
  <2> QED BY <2>1, <2>3, <2>4, Uncaught DEF Advance
<1>5. CASE ~(n > Entry(e).params)
  <2>1. n <= Entry(e).params
      BY <1>3, <1>5
  <2>3. EnterFrame(e, n, b, p, then, arity)
      BY <1>5 DEF ProgramCall
  <2>2. bp + prog.height[pc + 1] = ptr + Effect(Inst)
      BY <1>2, SlotFacts DEF Types, Running
  <2>4. prog.height[pc + 1] >= 1
    <3>1. prog.height[pc] >= Needs(Inst)
        BY <1>1, Here DEF Heights
    <3> QED BY <1>2, <3>1
  <2> DEFINE act == [depth |-> Len(callstack) + 1, then |-> then, arity |-> arity]
  <2>5. Given(act) \in Int /\ Given(act) <= 1
      BY DEF Given
  <2>6. bp <= p - n
    <3> HIDE DEF act
    <3>3. bp \in Int /\ p - n \in Int
        BY SlotFacts DEF Types, Running
    <3>4. prog.height[pc + 1] \in Int
        BY <1>2
    <3>1. bp \in Int /\ p - n \in Int /\ prog.height[pc + 1] \in Int
        BY <3>3, <3>4
    <3>2. bp + prog.height[pc + 1] = p - n + Given(act)
        BY <2>2 DEF act
    <3> QED BY <2>4, <2>5, <3>1, <3>2
  <2> QED BY <1>1, <1>2, <2>1, <2>2, <2>3, <2>4, <2>6, EnterHeights
<1> QED BY <1>4, <1>5

\* An instruction that raises an exception where none is caught.
LEMMA RaiseHeights ==
    ASSUME Types, HeightsInv, Verified(prog), NEW op, Fetch(op), MayRaise(Inst),
           pc' = pc + 1, prog' = prog, status' = "run" => exception' # NoException, status' # "done"
    PROVE  HeightsInv'
<1>1. ~Caught(prog, pc + 1)
    BY FetchGives, Here DEF Raises, Fetch
<1> QED BY <1>1, Uncaught

LEMMA VCallHeights ==
    ASSUME Types, HeightsInv, Verified(prog), NEW op, Fetch(op), op \notin Stops,
           NEW v, NEW name, NEW n \in Nat, Needs(Inst) = n + 1, MayRaise(Inst), Effect(Inst) = 0 - n,
           NEW c, VCallOn(v, name, n, buf, ptr, c)
    PROVE  HeightsInv'
<1>1. buf \in [Slots -> Value] /\ ptr \in 0..StackSize /\ n <= ptr /\ status = "run"
      /\ exception = NoException
    BY FetchGives, SlotFacts DEF Fetch, Looping
<1>2. ASSUME NEW kind \in {"null pointer", "method not found", "native"}, Raise(kind, buf, ptr)
      PROVE  HeightsInv'
    BY <1>1, <1>2, RaiseHeights DEF Raise, Advance, NoException
<1>3. ASSUME Scripted(v, name), ProgramCall(Method(v, name).entry, n, buf, ptr, "fold", 0)
      PROVE  HeightsInv'
  <2>1. Method(v, name).entry \in DOMAIN prog.entries
      BY <1>3, MethodEntry DEF Scripted, Types, Running
  <2> DEFINE act == [depth |-> Len(callstack) + 1, then |-> "fold", arity |-> 0]
  <2>2. Given(act) = 0
      BY DEF Given
  <2>3. ptr + Effect(Inst) = ptr - n + Given(act) /\ Effect(Inst) \in Int
        /\ Needs(Inst) + Effect(Inst) >= 1 /\ Needs(Inst) \in Nat
      BY <1>1, <2>2, SlotFacts
  <2> QED BY <1>1, <1>3, <2>1, <2>3, CallHeights
<1>4. ASSUME NEW r \in Results, NativeReturn(n + 1, buf, ptr, r)
      PROVE  HeightsInv'
  <2>1. ptr' = ptr + Effect(Inst) /\ Advance /\ exception' = exception /\ status' = status
        /\ Effect(Inst) \in Int
      BY <1>1, <1>4, SlotFacts DEF NativeReturn
  <2> QED BY <2>1, AsCounted
<1>5. \/ \E kind \in {"null pointer", "method not found", "native"} : Raise(kind, buf, ptr)
      \/ Scripted(v, name) /\ ProgramCall(Method(v, name).entry, n, buf, ptr, "fold", 0)
      \/ \E r \in Results : NativeReturn(n + 1, buf, ptr, r)
    BY ValuesAssumption DEF VCallOn, Scripted, HasMethod, Responds
<1> QED BY <1>2, <1>3, <1>4, <1>5

\* Instructions that replace n values by one, or drop n.
LEMMA PlainHeights ==
    ASSUME Types, HeightsInv, Verified(prog), NEW op, Fetch(op), op \notin Stops, Plain,
           NEW n \in Nat,
           \/ (\E v : Shift(n, v)) /\ Effect(Inst) = 1 - n
           \/ Dropped(n) /\ Effect(Inst) = 0 - n
    PROVE  HeightsInv'
<1>1. ptr \in Int /\ Advance /\ exception' = exception /\ status' = status
    BY SlotFacts DEF Types, StackType, Plain
<1>2. ptr' = ptr + Effect(Inst) /\ Effect(Inst) \in Int
    BY <1>1 DEF Shift, Dropped
<1> QED BY <1>1, <1>2, AsCounted

LEMMA InstEffects ==
    ASSUME Types, NEW op, Fetch(op)
    PROVE  Inst.op = op /\ Inst.n \in Nat /\ Inst.arity \in Nat
BY FetchGives, InstructionFields

LEMMA SimpleHeights ==
    ASSUME Types, HeightsInv, Verified(prog),
           \/ Load \/ LoadThis \/ LoadLocal \/ Dup \/ StoreLocal \/ Pop \/ Nop \/ Binary
           \/ NewArr \/ SetCallee
    PROVE  HeightsInv'
<1> USE DEF Stops
<1>1. ASSUME NEW op \in {"ld", "ldthis", "ldloc", "dup"}, Fetch(op), NEW v, Shift(0, v), Plain
      PROVE  HeightsInv'
    BY <1>1, InstEffects, Effects, PlainHeights
<1>2. CASE Load \/ LoadThis \/ LoadLocal \/ Dup
    BY <1>1, <1>2 DEF Load, LoadThis, LoadLocal, Dup
<1>3. CASE StoreLocal
  <2>1. Fetch("stloc") /\ ptr' = ptr - 1 /\ Plain
      BY <1>3 DEF StoreLocal
  <2>2. Effect(Inst) = 0 - 1 /\ ptr \in Int
      BY <2>1, InstEffects, Effects, SlotFacts DEF Types, StackType
  <2> QED BY <2>1, <2>2, AsCounted DEF Plain
<1>4. CASE Pop
  <2>1. Fetch("pop") /\ Dropped(1) /\ Plain
      BY <1>4 DEF Pop
  <2> QED BY <2>1, InstEffects, Effects, PlainHeights
<1>5. CASE Nop
  <2>1. Fetch("nop") /\ Dropped(0) /\ Plain
      BY <1>5 DEF Nop
  <2> QED BY <2>1, InstEffects, Effects, PlainHeights
<1>6. CASE Binary
  <2>1. PICK r \in Results : Fetch("binary") /\ Shift(2, r) /\ Plain
      BY <1>6 DEF Binary
  <2> QED BY <2>1, InstEffects, Effects, PlainHeights
<1>7. CASE NewArr
  <2>1. Fetch("newarr") /\ Shift(Inst.n, Array) /\ Plain
      BY <1>7 DEF NewArr
  <2> QED BY <2>1, InstEffects, Effects, PlainHeights
<1>8. CASE SetCallee
  <2>1. Fetch("setcallee") /\ ptr' = ptr - 0 /\ Advance /\ exception' = exception
        /\ status' = status
      BY <1>8 DEF SetCallee, Dropped
  <2>2. Effect(Inst) = 0 /\ ptr \in Int
      BY <2>1, InstEffects, Effects, SlotFacts DEF Types, StackType
  <2>3. ptr' = ptr + Effect(Inst) /\ Effect(Inst) \in Int
      BY <2>1, <2>2
  <2> QED BY <2>1, <2>3, AsCounted
<1> QED BY <1>2, <1>3, <1>4, <1>5, <1>6, <1>7, <1>8

LEMMA OperatorHeights ==
    ASSUME Types, HeightsInv, Verified(prog), AddsNumbers, Equal \/ Arith \/ Add PROVE HeightsInv'
<1>1. ASSUME NEW op \in {"equal", "arith"}, Fetch(op),
             \/ \E v : Shift(2, v) /\ Plain
             \/ Raise("arithmetic", buf, ptr - 2)
             \/ VCallOn(Arg(1), Inst.name, 1, buf, ptr, None)
      PROVE  HeightsInv'
  <2>1. Inst.op = op /\ Effect(Inst) = 0 - 1 /\ MayRaise(Inst) /\ op \notin Stops
      BY <1>1, InstEffects, Effects DEF MayRaise, Stops
  <2>2. CASE \E v : Shift(2, v) /\ Plain
      BY <1>1, <2>1, <2>2, PlainHeights
  <2>3. CASE Raise("arithmetic", buf, ptr - 2)
    <3>1. status = "run"
        BY <1>1 DEF Fetch, Looping
    <3> QED BY <1>1, <2>1, <2>3, <3>1, RaiseHeights DEF Raise, Advance, NoException
  <2>4. CASE VCallOn(Arg(1), Inst.name, 1, buf, ptr, None)
    <3>1. Needs(Inst) = 1 + 1
        BY <2>1 DEF Needs
    <3> QED BY <1>1, <2>1, <2>4, <3>1, VCallHeights
  <2> QED BY <1>1, <2>2, <2>3, <2>4
<1>2. CASE Equal
    BY <1>1, <1>2 DEF Equal
<1>3. CASE Arith
  <2>1. \/ \E r \in Results : Shift(2, r) /\ Plain
        \/ Raise("arithmetic", buf, ptr - 2)
        \/ VCallOn(Arg(1), Inst.name, 1, buf, ptr, None)
      BY <1>3 DEF Arith
  <2> QED BY <1>1, <1>3, <2>1 DEF Arith
<1>4. CASE Add
  <2>1. Fetch("add") /\ Effect(Inst) = 0 - 1 /\ "add" \notin Stops
      BY <1>4, InstEffects, Effects DEF Add, Stops
  <2>2. Numbers
      BY <2>1, FetchGives DEF AddsNumbers, Fetch, Code
  <2>3. \E r \in Results : Shift(2, r) /\ Plain
      BY <1>4, <2>2 DEF Add
  <2> QED BY <2>1, <2>3, PlainHeights
<1> QED BY <1>2, <1>3, <1>4

LEMMA PropHeights ==
    ASSUME Types, HeightsInv, Verified(prog), LoadProp \/ StoreProp PROVE HeightsInv'
<1>1. ASSUME NEW op \in {"ldprop", "stprop"}, Fetch(op), CppThrow(FALSE), pc' = pc + 1, prog' = prog
      PROVE  HeightsInv'
  <2>1. host \in Seq(Activation) /\ Hosted(host) /\ status = "run" /\ exception \in Kinds
      BY <1>1 DEF Types, Fetch, Looping
  <2>2. (status' = "run" => exception' # NoException) /\ status' # "done"
      BY <1>1, <2>1, ThrowTypes DEF CppThrow
  <2>3. MayRaise(Inst)
      BY <1>1, InstEffects DEF MayRaise
  <2> QED BY <1>1, <2>2, <2>3, RaiseHeights
<1>2. CASE LoadProp
  <2>1. Fetch("ldprop") /\ Effect(Inst) = 0 /\ "ldprop" \notin Stops
      BY <1>2, InstEffects, Effects DEF LoadProp, Stops
  <2>2. ASSUME NEW r \in Results, Shift(1, r), Plain PROVE HeightsInv'
      BY <2>1, <2>2, PlainHeights
  <2> QED BY <1>1, <1>2, <2>1, <2>2 DEF LoadProp
<1>3. CASE StoreProp
  <2>1. Fetch("stprop") /\ Dropped(2) /\ Effect(Inst) = 0 - 2 /\ "stprop" \notin Stops
      BY <1>3, InstEffects, Effects DEF StoreProp, Stops
  <2>2. ASSUME Plain PROVE HeightsInv'
      BY <2>1, <2>2, PlainHeights
  <2> QED BY <1>1, <1>3, <2>1, <2>2 DEF StoreProp
<1> QED BY <1>2, <1>3

LEMMA NewObjHeights ==
    ASSUME Types, HeightsInv, Verified(prog), NEW o \in Objects, NewObj(o) PROVE HeightsInv'
<1>1. /\ Fetch("newobj") /\ Looping /\ ClassOf[o] = Inst.name
      /\ Inst = prog.code[pc] /\ Inst.op = "newobj" /\ Inst.n \in Nat
    BY FetchGives, InstEffects DEF NewObj, Fetch
<1>2. Effect(Inst) = 1 - Inst.n /\ "newobj" \notin Stops /\ MayRaise(Inst)
    BY <1>1, Effects DEF Stops, MayRaise
<1>3. Inst.n = 0 \/ HasMethod(o, "_ctor")
    BY <1>1, Here DEF Heights, HasMethod
<1>4. CASE HasMethod(o, "_ctor")
  <2> DEFINE b == [buf EXCEPT ![ptr] = o]
             act == [depth |-> Len(callstack) + 1, then |-> "fold", arity |-> 0]
  <2>1. ProgramCall(Method(o, "_ctor").entry, Inst.n, b, ptr + 1, "fold", 0)
      BY <1>4 DEF NewObj
  <2>2. ptr \in 0..(StackSize - 1) /\ Inst.n <= ptr /\ buf \in [Slots -> Value] /\ o \in Value
      BY <1>1, FetchGives DEF Needs, Value
  <2>3. b \in [Slots -> Value] /\ ptr + 1 \in 0..StackSize /\ Inst.n <= ptr + 1
      BY <1>1, <2>2, Written, SlotFacts
  <2>4. Method(o, "_ctor").entry \in DOMAIN prog.entries
      BY <1>4, MethodEntry DEF Types, Running
  <2>5. Given(act) = 0
      BY DEF Given
  <2>6. ptr + Effect(Inst) = ptr + 1 - Inst.n + Given(act) /\ Effect(Inst) \in Int
      BY <1>1, <1>2, <2>2, <2>5, SlotFacts
  <2> DEFINE e == Method(o, "_ctor").entry
             n == Inst.n
             p == ptr + 1
  <2>7. ProgramCall(e, n, b, p, "fold", 0) /\ ptr + Effect(Inst) = p - n + Given(act)
        /\ n \in Nat /\ n <= p /\ p \in 0..StackSize /\ e \in DOMAIN prog.entries
        /\ b \in [Slots -> Value] /\ (n > 0 => MayRaise(Inst)) /\ Effect(Inst) \in Int
      BY <1>1, <1>2, <2>1, <2>3, <2>4, <2>6
  <2>8. Needs(Inst) + Effect(Inst) >= 1 /\ Needs(Inst) \in Nat
      BY <1>1, <1>2 DEF Needs
  <2> HIDE DEF b, e, n, p
  <2> QED BY <1>1, <1>2, <2>7, <2>8, CallHeights
<1>5. CASE ~HasMethod(o, "_ctor")
  <2>1. Shift(0, o) /\ Plain
      BY <1>5 DEF NewObj
  <2>2. Effect(Inst) = 1 - 0
      BY <1>2, <1>3, <1>5
  <2> QED BY <1>1, <1>2, <2>1, <2>2, PlainHeights
<1> QED BY <1>4, <1>5

LEMMA CallsHeights ==
    ASSUME Types, HeightsInv, Verified(prog), VCall \/ StaticCall PROVE HeightsInv'
<1>1. CASE VCall
  <2>1. Fetch("vcall") /\ VCallOn(buf[callee], Inst.name, Inst.n, buf, ptr, callee)
      BY <1>1 DEF VCall
  <2>2. Inst.n \in Nat /\ Effect(Inst) = 0 - Inst.n /\ "vcall" \notin Stops /\ MayRaise(Inst)
      BY <2>1, InstEffects, Effects DEF Stops, MayRaise
  <2>3. Needs(Inst) = Inst.n + 1
      BY <2>1, FetchGives DEF Needs
  <2> QED BY <2>1, <2>2, <2>3, VCallHeights
<1>2. CASE StaticCall
  <2> DEFINE act == [depth |-> Len(callstack) + 1, then |-> "none", arity |-> 0]
  <2>1. Fetch("call") /\ ProgramCall(Inst.k, Inst.n, buf, ptr, "none", 0)
      BY <1>2 DEF StaticCall
  <2>2. Inst.n \in Nat /\ Effect(Inst) = 1 - Inst.n /\ "call" \notin Stops /\ MayRaise(Inst)
      BY <2>1, InstEffects, Effects DEF Stops, MayRaise
  <2>3. Inst.n <= ptr /\ ptr \in 0..(StackSize - 1) /\ buf \in [Slots -> Value]
        /\ Inst.k \in DOMAIN prog.entries
      BY <2>1, FetchGives, InstructionFields DEF Needs
  <2>4. Given(act) = 1
      BY DEF Given
  <2>5. ptr + Effect(Inst) = ptr - Inst.n + Given(act) /\ Effect(Inst) \in Int /\ ptr \in 0..StackSize
      BY <2>2, <2>3, <2>4, SlotFacts
  <2>6. Needs(Inst) + Effect(Inst) >= 1 /\ Needs(Inst) \in Nat
      BY <2>1, <2>2, InstEffects DEF Needs
  <2> QED BY <2>1, <2>2, <2>3, <2>5, <2>6, CallHeights
<1> QED BY <1>1, <1>2

LEMMA SysCallHeights ==
    ASSUME Types, HeightsInv, Verified(prog), SysCall PROVE HeightsInv'
<1>1. Fetch("syscall") /\ Native(Inst.mode, Inst.arity, buf, ptr)
    BY DEF SysCall
<1>2. Inst.op = "syscall" /\ Inst.arity \in Nat /\ Effect(Inst) = 1 - Inst.arity /\ "syscall" \notin Stops
    BY <1>1, InstEffects, Effects DEF Stops
<1>3. ptr \in 0..(StackSize - 1) /\ buf \in [Slots -> Value] /\ Effect(Inst) \in Int
      /\ (Inst.mode = "prints" => Inst.arity > 0) /\ Inst.arity <= ptr
    BY <1>1, <1>2, FetchGives, InstructionFields DEF Needs
<1>4. CASE Inst.mode = "prints" /\ Scripted(buf[ptr - 1], "to_string")
  <2> DEFINE v == buf[ptr - 1]
             b == [buf EXCEPT ![ptr] = v]
             act == [depth |-> Len(callstack) + 1, then |-> "native", arity |-> Inst.arity]
  <2>1. ProgramCall(Method(v, "to_string").entry, 0, b, ptr + 1, "native", Inst.arity)
      BY <1>1, <1>4 DEF Native
  <2>2. v \in Value
      BY <1>2, <1>3, <1>4, SlotFacts
  <2>3. b \in [Slots -> Value] /\ ptr + 1 \in 0..StackSize /\ 0 <= ptr + 1
      BY <1>3, <2>2, Written, SlotFacts
  <2>4. Method(v, "to_string").entry \in DOMAIN prog.entries
      BY <1>4, MethodEntry DEF Types, Running, Scripted
  <2>5. Given(act) = 0 - Inst.arity
      BY DEF Given
  <2>6. ptr + Effect(Inst) = ptr + 1 - 0 + Given(act)
      BY <1>2, <1>3, <2>5, SlotFacts
  <2>7. Needs(Inst) + Effect(Inst) >= 1 /\ Needs(Inst) \in Nat
      BY <1>2 DEF Needs
  <2> HIDE DEF b, v
  <2> QED BY <1>1, <1>2, <1>3, <2>1, <2>3, <2>4, <2>6, <2>7, CallHeights
<1>5. ASSUME NEW r \in Results, NativeReturn(Inst.arity, buf, ptr, r) PROVE HeightsInv'
  <2>1. ptr' = ptr + Effect(Inst) /\ Advance /\ exception' = exception /\ status' = status
      BY <1>2, <1>3, <1>5, SlotFacts DEF NativeReturn
  <2> QED BY <1>1, <1>2, <1>3, <2>1, AsCounted
<1>6. CASE Inst.mode = "fails" /\ Raise("native", buf, ptr)
  <2>1. MayRaise(Inst)
      BY <1>2, <1>6 DEF MayRaise
  <2>2. status = "run"
      BY <1>1 DEF Fetch, Looping
  <2> QED BY <1>1, <1>6, <2>1, <2>2, RaiseHeights DEF Raise, Advance, NoException
<1> QED BY <1>1, <1>4, <1>5, <1>6 DEF Native

LEMMA JumpHeights ==
    ASSUME Types, HeightsInv, Verified(prog), Jump \/ JumpIf \/ JumpUnless PROVE HeightsInv'
<1>1. ASSUME NEW op \in Branches, Fetch(op), op \in {"jmp"} => pc' = Inst.k,
             NEW i \in {Inst.k, pc + 1}, pc' = i, ptr' = ptr + Effect(Inst),
             UNCHANGED <<prog, bp, callstack, host, exception, status>>
      PROVE  HeightsInv'
  <2>1. Inst = prog.code[pc] /\ Inst.op = op /\ Looping
      BY <1>1, FetchGives DEF Fetch
  <2>2. Heights(prog, Method_, pc) /\ ptr = bp + prog.height[pc] /\ bp \in Int
      BY <2>1, Here, SlotFacts DEF Types, Running
  <2>3. InMethod(prog, Method_, pc') /\ prog.height[pc'] = prog.height[pc] + Effect(Inst)
      BY <1>1, <2>1, <2>2 DEF Heights, Branches, Stops
  <2>4. Effect(Inst) \in Int /\ prog.height[pc] \in Nat
      BY <1>1, <2>1, <2>2, InstEffects, Effects DEF Branches, Heights
  <2>5. ptr' = bp + prog.height[pc']
      BY <1>1, <2>2, <2>3, <2>4
  <2> QED BY <1>1, <2>1, <2>3, <2>5, GoesOn
<1>2. ptr \in Int
    BY SlotFacts DEF Types, StackType
<1>3. CASE Jump
  <2>1. Fetch("jmp") /\ "jmp" \in Branches /\ pc' = Inst.k /\ ptr' = ptr
      BY <1>3 DEF Jump, Branches, stackvars
  <2>2. ptr' = ptr + Effect(Inst)
      BY <1>2, <2>1, InstEffects, Effects
  <2> QED BY <1>1, <1>3, <2>1, <2>2 DEF Jump
<1>4. CASE JumpIf
  <2>1. Fetch("jmp_true") /\ "jmp_true" \in Branches /\ ptr' = ptr - 1 /\ "jmp_true" \notin {"jmp"}
      BY <1>4 DEF JumpIf, Branches, Dropped
  <2>2. ptr' = ptr + Effect(Inst)
      BY <1>2, <2>1, InstEffects, Effects
  <2> QED BY <1>1, <1>4, <2>1, <2>2 DEF JumpIf
<1>5. CASE JumpUnless
  <2>1. Fetch("jmp_false") /\ "jmp_false" \in Branches /\ ptr' = ptr - 1 /\ "jmp_false" \notin {"jmp"}
      BY <1>5 DEF JumpUnless, Branches, Dropped
  <2>2. ptr' = ptr + Effect(Inst)
      BY <1>2, <2>1, InstEffects, Effects
  <2> QED BY <1>1, <1>5, <2>1, <2>2 DEF JumpUnless
<1> QED BY <1>3, <1>4, <1>5

LEMMA ThrowHeights ==
    ASSUME Types, HeightsInv, Verified(prog), Throw PROVE HeightsInv'
<1>1. Fetch("throw") /\ Raise("thrown", buf, ptr - 1)
    BY DEF Throw
<1>2. Looping /\ Inst = prog.code[pc] /\ Inst.op = "throw" /\ ptr \in Int
    BY <1>1, FetchGives, SlotFacts DEF Fetch
<1>3. /\ exception' = "thrown" /\ ptr' = ptr - 1 /\ pc' = pc + 1 /\ status' = status
      /\ UNCHANGED <<prog, bp, callstack, host>>
    BY <1>1 DEF Raise, Advance
<1>4. status = "run" /\ exception' # NoException
    BY <1>2, <1>3 DEF Looping, NoException
<1>5. CASE Caught(prog, pc + 1)
  <2>1. InMethod(prog, Method_, CatchAt(prog, pc + 1))
        /\ prog.height[CatchAt(prog, pc + 1)] = prog.height[pc]
      BY <1>2, <1>5, Here DEF Raises
  <2>2. ptr' + 1 = bp + prog.height[CatchAt(prog, pc + 1)]
      BY <1>2, <1>3, <2>1, Here
  <2>3. Level(prog, callstack, CatchAt(prog, pc + 1), bp, ptr' + 1)
      BY <2>1, <2>2 DEF Level, Method_
  <2>4. Len(callstack) = Len(host) /\ InStep(callstack, host) /\ Chain(prog, callstack, host, bp)
      BY <1>2, Here
  <2>5. prog.height[CatchAt(prog, pc + 1)] >= 1
      BY <1>2, <2>1, Here DEF Heights, Needs
  <2> QED BY <1>3, <1>4, <2>3, <2>4, <2>5 DEF HeightsInv
<1>6. CASE ~Caught(prog, pc + 1)
    BY <1>3, <1>4, <1>6, Uncaught
<1> QED BY <1>5, <1>6

LEMMA GivenType == ASSUME NEW h \in Activation PROVE Given(h) \in Int
BY DEF Activation, Given

LEMMA ReturnHeights ==
    ASSUME Types, HeightsInv, Verified(prog), Return PROVE HeightsInv'
<1> DEFINE k == Len(callstack)
           frame == callstack[k]
<1>1. /\ Fetch("ret") /\ Shift(Entry(frame.entry).locals + 1, Arg(0))
      /\ pc' = frame.pc /\ bp' = frame.bp
      /\ callstack' = SubSeq(callstack, 1, k - 1)
      /\ UNCHANGED <<prog, host, exception, status>>
    BY DEF Return
<1>2. Looping /\ Inst = prog.code[pc] /\ Inst.op = "ret" /\ ptr \in Int /\ bp \in Int
    BY <1>1, FetchGives, SlotFacts DEF Fetch
<1>3. /\ k = Len(host) /\ k \in Nat \ {0} /\ Chain(prog, callstack, host, bp)
      /\ ptr = bp + prog.height[pc] /\ Method_ \in DOMAIN prog.entries
      /\ Heights(prog, Method_, pc)
    BY <1>2, Here
<1>4. ptr' = bp + 1
  <2>1. prog.height[pc] = Entry(frame.entry).locals + 1
      BY <1>2, <1>3 DEF Heights, Method_, Entry
  <2>2. Entry(frame.entry).locals \in Nat
      BY <1>3, EntryFields DEF Types, Running, Entry, Method_
  <2>3. ptr' = ptr - (Entry(frame.entry).locals + 1) + 1
      BY <1>1 DEF Shift
  <2> QED BY <1>2, <1>3, <2>1, <2>2, <2>3
<1>5. HostInv' /\ status' = "run" /\ exception' = NoException
  <2>1. Execute /\ Guarded(prog) /\ HostInv
      BY HeightsHosts DEF Execute, Verified
  <2> QED BY <1>1, <1>2, <2>1, ExecuteHosts DEF Looping
<1>6. /\ Len(callstack') = k - 1
      /\ \A i \in 1..(k - 1) : callstack'[i] = callstack[i]
    BY <1>1, <1>3, Popped DEF Types
<1>7. \A i \in 1..(k - 1) : BaseOf(callstack', bp', i) = BaseOf(callstack, bp, i)
    BY <1>1, <1>3, <1>6 DEF BaseOf
<1> HIDE DEF k
<1>8. Chain(prog', callstack', host', bp')
  <2>1. callstack' # <<>> => BaseOf(callstack', bp', 1) = 0
    <3> SUFFICES ASSUME callstack' # <<>> PROVE BaseOf(callstack', bp', 1) = 0
        OBVIOUS
    <3>1. callstack' \in Seq(FrameOf(prog))
        BY <1>1, <1>3, Popped DEF Types, k
    <3>2. 1 \in 1..(k - 1)
        BY <1>3, <1>6, <3>1, EmptySeq
    <3>3. callstack # <<>>
        BY <1>3, EmptySeq DEF k
    <3> QED BY <1>3, <1>7, <3>2, <3>3 DEF Chain
  <2>2. ASSUME NEW i \in 1..(Len(callstack') - 1)
        PROVE  Waiting(prog', callstack', host', bp', i)
    <3>1. i \in 1..(k - 1) /\ i + 1 \in 1..(k - 1)
        BY <1>3, <1>6
    <3>2. Waiting(prog, callstack, host, bp, i)
        BY <1>3, <3>1 DEF Chain, k
    <3> QED BY <1>1, <1>6, <1>7, <3>1, <3>2 DEF Waiting
  <2>3. Ordered(callstack', bp')
    <3>1. \A i, j \in 1..(k - 1) : i <= j => BaseOf(callstack, bp, i) <= BaseOf(callstack, bp, j)
        BY <1>3 DEF Chain, Ordered, k
    <3> QED BY <1>6, <1>7, <3>1 DEF Ordered
  <2> QED BY <2>1, <2>2, <2>3 DEF Chain
<1>9. Now(prog', callstack', host', pc', bp', ptr')
  <2>1. Len(callstack') # Len(host')
      BY <1>1, <1>3, <1>6
  <2>2. CASE callstack' = <<>>
    <3>1. k = 1
      <4>1. Len(<<>>) = 0
          BY EmptySeq
      <4>2. Len(callstack') = Len(<<>>)
          BY <2>2
      <4>3. k \in Nat /\ Len(callstack') = k - 1
          BY <1>3, <1>6
      <4>4. k - 1 = 0
          BY <4>1, <4>2, <4>3
      <4> QED BY <4>3, <4>4
    <3>2. callstack # <<>>
        BY <1>3, EmptySeq DEF k
    <3>3. bp = 0
        BY <1>3, <3>1, <3>2 DEF Chain, BaseOf, k
    <3>4. ptr' = 1
        BY <1>4, <3>3
    <3> QED BY <2>1, <2>2, <3>4 DEF Now
  <2>3. CASE callstack' # <<>>
    <3>1. callstack' \in Seq(FrameOf(prog))
        BY <1>1, <1>3, Popped DEF Types, k
    <3>2. k - 1 \in 1..(k - 1) /\ k - 1 + 1 = k
        BY <1>3, <1>6, <2>3, <3>1, EmptySeq
    <3>3. Waiting(prog, callstack, host, bp, k - 1)
        BY <1>3, <3>2 DEF Chain, k
    <3>4. BaseOf(callstack, bp, k) = bp
        BY DEF BaseOf, k
    <3>5. InMethod(prog, callstack[k - 1].entry, frame.pc)
          /\ frame.bp + prog.height[frame.pc] = bp + Given(host[k])
        BY <3>2, <3>3, <3>4 DEF Waiting
    <3>6. Given(host[k]) \in Int
      <4>1. host[k] \in Activation
          BY <1>3, ElementOfSeq DEF Types
      <4> QED BY <4>1, GivenType
    <3>7. ptr' - 1 + Given(host[k]) = bp' + prog.height[pc']
        BY <1>1, <1>2, <1>4, <3>5, <3>6
    <3>8. Level(prog', callstack', pc', bp', ptr' - 1 + Given(host'[Len(host')]))
        BY <1>1, <1>3, <1>6, <3>2, <3>5, <3>7 DEF Level
    <3>9. prog'.height[pc'] >= 1
        BY <1>1, <3>2, <3>3 DEF Waiting
    <3> QED BY <2>1, <2>3, <3>8, <3>9 DEF Now
  <2> QED BY <2>2, <2>3
<1> QED BY <1>5, <1>8, <1>9 DEF HeightsInv, HostInv

LEMMA RunEndHeights ==
    ASSUME Types, HeightsInv, RunEnd PROVE HeightsInv'
<1> DEFINE h == host[Len(host)]
<1>1. host \in Seq(Activation) /\ Hosted(host) /\ Len(host) \in Nat \ {0} /\ h \in Activation
    BY EmptySeq, ElementOfSeq DEF RunEnd, Types, Hosted
<1>2. /\ host' = SubSeq(host, 1, Len(host) - 1)
      /\ UNCHANGED <<prog, pc, bp, callstack, exception>>
      /\ status = "run" /\ exception = NoException
    BY DEF RunEnd, registers
<1>3. /\ InStep(callstack, host) /\ Chain(prog, callstack, host, bp)
      /\ Now(prog, callstack, host, pc, bp, ptr)
    BY <1>2 DEF HeightsInv
<1>4. /\ Len(host') = Len(host) - 1
      /\ \A i \in 1..(Len(host) - 1) : host'[i] = host[i]
    BY <1>1, <1>2, Popped
<1>5. Len(callstack) = Len(host) - 1
    BY <1>1, <1>3, LenProperties DEF InStep, RunEnd, Types
<1>6. CASE status' = "fault"
    BY <1>6, Uncaught
<1>7. CASE status' # "fault"
  <2>1. Finish(h.then, h.arity, buf, ptr) /\ status' = IF Len(host) = 1 THEN "done" ELSE status
      BY <1>7 DEF RunEnd
  <2>2. ptr \in Int /\ h.arity \in Nat
      BY <1>1, SlotFacts DEF Types, StackType, Activation
  <2>3. ptr' = ptr - 1 + Given(h)
      BY <1>1, <2>1, <2>2 DEF Finish, After, Given, Activation
  <2>4. CASE callstack = <<>>
    <3>1. Len(host) = 1 /\ h.then = "none"
      <4>1. Len(callstack) = 0
          BY <2>4, EmptySeq
      <4>2. Len(host) = 1
          BY <1>1, <1>5, <4>1
      <4> QED BY <1>1, <4>2 DEF Hosted
    <3>2. Given(h) = 1
        BY <3>1 DEF Given
    <3>3. ptr = 1
        BY <1>1, <1>3, <1>5, <2>4 DEF Now
    <3>4. ptr' = 1 /\ status' = "done"
        BY <2>1, <2>3, <3>1, <3>2, <3>3
    <3> QED BY <3>4 DEF HeightsInv
  <2>5. CASE callstack # <<>>
    <3>1. Len(host) # 1 /\ Len(callstack) # Len(host)
        BY <1>1, <1>5, <2>5, EmptySeq DEF Types
    <3>2. Level(prog, callstack, pc, bp, ptr')
        BY <1>3, <2>3, <2>5, <3>1 DEF Now
    <3>3. Now(prog', callstack', host', pc', bp', ptr')
        BY <1>2, <1>4, <1>5, <3>2 DEF Now
    <3>4. Chain(prog', callstack', host', bp')
      <4>1. ASSUME NEW i \in 1..(Len(callstack) - 1) PROVE Waiting(prog, callstack, host', bp, i)
        <5>1. i + 1 \in 1..(Len(host) - 1)
            BY <1>1, <1>5
        <5>2. Waiting(prog, callstack, host, bp, i)
            BY <1>3 DEF Chain
        <5> QED BY <1>4, <5>1, <5>2 DEF Waiting
      <4> QED BY <1>2, <1>3, <4>1 DEF Chain
    <3>5. InStep(callstack', host')
      <4>1. HostInv' /\ status' = "run"
          BY <1>2, <2>1, <3>1, HeightsHosts, RunEndHosts
      <4> QED BY <1>2, <4>1 DEF HostInv
    <3>6. status' = "run" /\ exception' = NoException
        BY <1>2, <2>1, <3>1
    <3> QED BY <3>3, <3>4, <3>5, <3>6 DEF HeightsInv
  <2> QED BY <2>4, <2>5
<1> QED BY <1>6, <1>7

LEMMA HandleHeights ==
    ASSUME Types, HeightsInv, Handle PROVE HeightsInv'
<1>1. Handlers = AroundAt(prog, pc) /\ status = "run" /\ exception # NoException
    BY DEF Handlers, AroundAt, Around, Handle
<1>2. CASE 1 \in Handlers /\ ptr < StackSize
  <2>1. /\ pc' = CatchAt(prog, pc) /\ ptr' = ptr - 0 + 1 /\ exception' = NoException
        /\ status' = status /\ UNCHANGED <<prog, bp, callstack, host>>
      BY <1>1, <1>2, LastHandler DEF Handle, CatchAt, Shift, Types, Running
  <2>2. /\ InStep(callstack, host) /\ Chain(prog, callstack, host, bp)
        /\ Len(callstack) = Len(host)
        /\ Level(prog, callstack, CatchAt(prog, pc), bp, ptr + 1)
      BY <1>1, <1>2 DEF HeightsInv, Caught
  <2>3. ptr' = ptr + 1
      BY <2>1, SlotFacts DEF Types, StackType
  <2> QED BY <1>1, <2>1, <2>2, <2>3 DEF HeightsInv, Now
<1>3. CASE ~(1 \in Handlers /\ ptr < StackSize)
  <2>1. status' \in {"aborted", "fault"}
      BY <1>3 DEF Handle
  <2> QED BY <2>1, Uncaught
<1> QED BY <1>2, <1>3

LEMMA StepHeights ==
    ASSUME Types, HeightsInv, Verified(prog), AddsNumbers, [Next]_vars PROVE HeightsInv'
<1>1. CASE Execute
  <2>1. ASSUME ParamToArr PROVE HeightsInv'
    <3>1. Looping /\ Inst = prog.code[pc] /\ Inst.op = "param_to_arr"
        BY <2>1, FetchGives DEF ParamToArr, Fetch
    <3> QED BY <3>1, Here DEF Raises
  <2>2. CASE \/ Load \/ LoadThis \/ LoadLocal \/ Dup \/ StoreLocal \/ Pop \/ Nop \/ Binary
             \/ NewArr \/ SetCallee
      BY <2>2, SimpleHeights
  <2>3. CASE Equal \/ Arith \/ Add
      BY <2>3, OperatorHeights
  <2>4. CASE LoadProp \/ StoreProp
      BY <2>4, PropHeights
  <2>5. ASSUME NEW o \in Objects, NewObj(o) PROVE HeightsInv'
      BY <2>5, NewObjHeights
  <2>6. CASE VCall \/ StaticCall
      BY <2>6, CallsHeights
  <2>7. CASE SysCall
      BY <2>7, SysCallHeights
  <2>8. CASE Jump \/ JumpIf \/ JumpUnless
      BY <2>8, JumpHeights
  <2>9. CASE Return
      BY <2>9, ReturnHeights
  <2>10. CASE Throw
      BY <2>10, ThrowHeights
  <2> QED
      BY <1>1, <2>1, <2>2, <2>3, <2>4, <2>5, <2>6, <2>7, <2>8, <2>9, <2>10 DEF Execute
<1>2. CASE OutOfObjects \/ StackFault
    BY <1>2, Uncaught DEF OutOfObjects, StackFault
<1>3. CASE Stopped \/ UNCHANGED vars
  <2>1. UNCHANGED <<prog, pc, bp, ptr, callstack, host, exception, status>>
      BY <1>3 DEF Stopped, vars, registers, stackvars
  <2> QED
      BY <2>1 DEF HeightsInv, Caught, CatchAt, AroundAt, InStep, Chain, Ordered, Waiting, Level, Now,
                  BaseOf, InMethod
<1>4. CASE RunEnd
    BY <1>4, RunEndHeights
<1>5. CASE Handle
    BY <1>5, HandleHeights
<1> QED BY <1>1, <1>2, <1>3, <1>4, <1>5 DEF Next

LEMMA InitHeights ==
    ASSUME Init, Verified(prog) PROVE HeightsInv
<1> DEFINE h == [depth |-> 1, then |-> "none", arity |-> 0]
           f == [pc |-> Entry(1).start, bp |-> 0, entry |-> 1]
<1>1. /\ host = <<h>> /\ callstack = <<f>> /\ f.bp = 0 /\ f.entry = 1
      /\ pc = Entry(1).start /\ bp = 0 /\ ptr = 0
      /\ status = "run" /\ exception = NoException /\ prog \in Programs
    BY DEF Init
<1>2. InStep(callstack, host)
    BY <1>1, InitHosts DEF HostInv
<1>3. InMethod(prog, 1, pc) /\ prog.height[pc] = 0
  <2>1. 1 \in DOMAIN prog.entries
      BY <1>1, ProgramsAssumption DEF ProgramType
  <2> QED BY <1>1, <2>1 DEF Verified, Entry
<1> HIDE DEF h, f
<1>4. Len(callstack) = 1 /\ Len(host) = 1 /\ callstack[1] = f
    BY <1>1
<1>5. Now(prog, callstack, host, pc, bp, ptr)
    BY <1>1, <1>3, <1>4 DEF Now, Level
<1>6. Chain(prog, callstack, host, bp)
    BY <1>1, <1>4 DEF Chain, Ordered, BaseOf
<1> QED BY <1>1, <1>2, <1>5, <1>6 DEF HeightsInv

LEMMA HeightsGive ==
    ASSUME Types, HeightsInv, Verified(prog) PROVE HeightsAsCompiled /\ EndsClean
<1>1. Looping => ptr = bp + prog.height[pc]
    BY Here
<1> QED BY <1>1 DEF HeightsAsCompiled, EndsClean, HeightsInv

LEMMA AlwaysHeights ==
    ASSUME \A p \in Programs : Verified(p)
    PROVE  Spec /\ []AddsNumbers => []HeightsInv
<1>1. Types => Verified(prog)
    BY DEF Types, Running
<1>2. Init => HeightsInv
  <2>1. Init => Verified(prog)
      BY DEF Init
  <2> QED BY <2>1, InitHeights
<1> QED BY <1>1, <1>2, AlwaysTypes, StepHeights, PTL DEF Spec

\* A verified program finds on the shared stack, at each of its instructions, as many
\* operands as its code says, through any calls, returns, native functions that call back
\* and exceptions, as long as + is used on numbers.
THEOREM HeightsKept ==
    ASSUME \A p \in Programs : Verified(p)
    PROVE  Spec /\ []AddsNumbers => []HeightsAsCompiled
<1>1. Types => Verified(prog)
    BY DEF Types, Running
<1> QED BY <1>1, AlwaysTypes, AlwaysHeights, HeightsGive, PTL

\* Such a program leaves one value, the result of main, when it has come to its end.
THEOREM OneValueLeft ==
    ASSUME \A p \in Programs : Verified(p)
    PROVE  Spec /\ []AddsNumbers => []EndsClean
<1>1. Types => Verified(prog)
    BY DEF Types, Running
<1> QED BY <1>1, AlwaysTypes, AlwaysHeights, HeightsGive, PTL
================================================================================
