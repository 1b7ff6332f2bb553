------------------------------- MODULE GCProofs -------------------------------
(* Proofs about the collector, for every set of objects and every bound. *)
EXTENDS GC, FiniteSetTheorems, SequenceTheorems, TLAPS

(***************************************************************************)
(* Type correctness.  Two facts make it inductive: what a resumed          *)
(* operation needs of the stack, and that a guarded builder holds a guard. *)
(***************************************************************************)
\* What a suspended operation may still do to the stack and to the guards.
ResumeOK ==
    /\ phase = "idle" => ret.do = "none"
    /\ ret.do = "push" => Len(stack) < MaxStack
    /\ ret.do = "replace" => stack # <<>>
    /\ building # Nil /\ Guarded => force_no_gc > 0

\* Activations of gc::mark exist during marking only and follow references.
FramesOK ==
    /\ phase # "mark" => frames = <<>>
    /\ \A i \in 1..Len(frames) : frames[i].todo \subseteq Pending(frames[i].obj)

TypeInv == TypeOK /\ ResumeOK /\ FramesOK

USE DEF Slots, Value

\* The slots of a new object hold nothing.
LEMMA BareType == Bare \in [Slots -> Value]
BY DEF Bare

\* Truncated division never exceeds its dividend (grow_until_fit's last step).
LEMMA DivBound ==
    ASSUME NEW a \in Nat, NEW b \in Nat \ {0}
    PROVE  b * (a \div b) \in 0..a
BY Z3

\* Truncated division of naturals is a natural.
LEMMA DivNat ==
    ASSUME NEW a \in Nat, NEW b \in Nat \ {0}
    PROVE  a \div b \in Nat
BY Z3

\* So is a product.
LEMMA TimesNat ==
    ASSUME NEW a \in Nat, NEW b \in Nat
    PROVE  a * b \in Nat
BY Z3

\* The threshold end_no_gc stops at when it cannot grow further is in range.
LEMMA SaturatedType == TypeOK => Saturated \in 0..MaxThreshold
<1> SUFFICES ASSUME TypeOK PROVE Saturated \in 0..MaxThreshold
    OBVIOUS
<1> DEFINE room == MaxThreshold - next_collect
<1>1. room \in Nat /\ next_collect \in Nat /\ MaxThreshold \in Nat
    BY NumbersAssumption DEF TypeOK
<1>2. GrowSize * (room \div GrowSize) \in 0..room
    BY <1>1, DivBound, NumbersAssumption
<1> QED
    BY <1>1, <1>2, Z3 DEF Saturated

\* shrink_if_possible never raises the threshold.
LEMMA ShrunkBound ==
    ASSUME NEW c \in Nat, NEW n \in 0..MaxThreshold
    PROVE  Shrunk(c, n) \in 0..n
BY NumbersAssumption DEF Shrunk

\* The empty VM has its types.
LEMMA InitType == Init => TypeInv
<1> SUFFICES ASSUME Init PROVE TypeInv
    OBVIOUS
<1>1. TypeOK
    BY BareType, NumbersAssumption, SlotsAssumption DEF Init, TypeOK, NoRet, Ret, RetType
<1> QED
    BY <1>1 DEF Init, TypeInv, ResumeOK, FramesOK, NoRet, Ret

\* What add_object does to the collector's variables, whatever called it.
LEMMA AddObjectType ==
    ASSUME TypeInv, NEW o \in Objects, NEW g, NEW n, NEW r \in RetType,
           AddObject(o, g, n, r)
    PROVE  /\ all_objects' \subseteq Objects
           /\ ret' = r /\ ret' \in RetType
           /\ phase' \in {"mark", "return"}
           /\ marks' \subseteq Objects
           /\ cursor' \in Nat \ {0}
           /\ frames' \in Seq(FrameType)
<1>1. CASE StartMarking
    BY <1>1 DEF AddObject, StartMarking, TypeInv, TypeOK
<1>2. CASE phase' = "return" /\ UNCHANGED marking
    BY <1>2 DEF AddObject, marking, TypeInv, TypeOK
<1> QED
    BY <1>1, <1>2 DEF AddObject

\* What is left of a sequence without its last member, and that member.
LEMMA FrontOf ==
    ASSUME NEW S, NEW q \in Seq(S), q # <<>>
    PROVE  /\ SubSeq(q, 1, Len(q) - 1) \in Seq(S)
           /\ Len(q) \in Nat \ {0}
           /\ Len(SubSeq(q, 1, Len(q) - 1)) = Len(q) - 1
           /\ \A i \in 1..(Len(q) - 1) : SubSeq(q, 1, Len(q) - 1)[i] = q[i]
<1>1. /\ Len(q) \in Nat \ {0}
      /\ \A i \in 1..(Len(q) - 1) : q[i] \in S
    OBVIOUS
<1>2. ASSUME NEW n \in Nat, n = Len(q) - 1
      PROVE  /\ SubSeq(q, 1, n) \in Seq(S) /\ Len(SubSeq(q, 1, n)) = n
             /\ \A i \in 1..n : SubSeq(q, 1, n)[i] = q[i]
  <2>1. /\ SubSeq(q, 1, n) \in Seq(S)
        /\ Len(SubSeq(q, 1, n)) = IF 1 <= n THEN n - 1 + 1 ELSE 0
        /\ \A i \in 1..(n - 1 + 1) : SubSeq(q, 1, n)[i] = q[1 + i - 1]
      BY <1>1, <1>2, SubSeqProperties
  <2> QED
      BY <2>1
<1>3. Len(q) - 1 \in Nat
    BY <1>1
<1> QED
    BY <1>1, <1>2, <1>3, Zenon

\* The records that say what an operation does after add_object have their type.
LEMMA RetTyped ==
    ASSUME NEW d \in {"collect", "none", "push", "replace", "elem"},
           NEW v \in Value, NEW s \in Slots \cup {Nil}
    PROVE  Ret(d, v, s) \in RetType
BY DEF Ret, RetType

\* The stack after n values were popped is a stack, shorter by n.
LEMMA PoppedType ==
    ASSUME TypeOK, NEW n \in 0..Len(stack)
    PROVE  Popped(n) \in Seq(Value) /\ Len(Popped(n)) = Len(stack) - n
BY DEF TypeOK, Popped

\* The top of a stack that is not empty is a value.
LEMMA TopType ==
    ASSUME TypeOK, stack # <<>>
    PROVE  Top \in Value /\ Len(stack) \in Nat \ {0}
BY DEF TypeOK, Top

\* Entering a new activation of gc::mark.
LEMMA VisitType ==
    ASSUME TypeInv, NEW o \in Objects, NEW under \in Seq(FrameType), Visit(o, under)
    PROVE  /\ marks' \subseteq Objects /\ frames' \in Seq(FrameType)
           /\ status' \in {"ok", "dangling", "cpp_stack_overflow"}
<1>1. Pending(o) \subseteq Slots
    BY DEF Pending
<1>2. [obj |-> o, todo |-> Pending(o)] \in FrameType
    BY <1>1 DEF FrameType
<1> QED
    BY <1>2 DEF Visit, TypeInv, TypeOK

\* The parts of the recursion stack have their types.
LEMMA FramesType ==
    ASSUME TypeInv, frames # <<>>
    PROVE  /\ Frame \in FrameType /\ Callers \in Seq(FrameType)
           /\ \A s : After(s) \in Seq(FrameType)
<1>1. Frame \in FrameType /\ Callers \in Seq(FrameType)
    BY DEF TypeInv, TypeOK, Frame, Callers
<1>2. ASSUME NEW s PROVE After(s) \in Seq(FrameType)
    <2>1. [Frame EXCEPT !.todo = @ \ {s}] \in FrameType
        BY <1>1 DEF FrameType
    <2> QED
        BY <1>1, <2>1 DEF After
<1> QED
    BY <1>1, <1>2

\* A new activation of gc::mark has only real references to follow.
LEMMA VisitFrames ==
    ASSUME TypeInv, slot' = slot, NEW o \in Objects, NEW under \in Seq(FrameType),
           \A i \in 1..Len(under) : under[i].todo \subseteq Pending(under[i].obj),
           Visit(o, under)
    PROVE  \A i \in 1..Len(frames') : frames'[i].todo \subseteq Pending(frames'[i].obj)
<1> DEFINE new == [obj |-> o, todo |-> Pending(o)]
<1>1. frames' = Append(under, new)
    BY DEF Visit
<1>2. TAKE i \in 1..Len(frames')
<1>3. CASE i = Len(under) + 1
    BY <1>1, <1>3
<1>4. CASE i \in 1..Len(under)
    BY <1>1, <1>4
<1> QED
    BY <1>1, <1>2, <1>3, <1>4

\* Following a reference leaves only real references to follow.
LEMMA AfterFrames ==
    ASSUME TypeInv, frames # <<>>, NEW s
    PROVE  \A i \in 1..Len(After(s)) : After(s)[i].todo \subseteq Pending(After(s)[i].obj)
<1> DEFINE top == [Frame EXCEPT !.todo = @ \ {s}]
<1>1. /\ Callers \in Seq(FrameType) /\ Len(Callers) = Len(frames) - 1
      /\ \A i \in 1..Len(Callers) : Callers[i] = frames[i]
      /\ Len(frames) \in Nat \ {0}
    BY FrontOf DEF TypeInv, TypeOK, Callers
<1>2. top.obj = Frame.obj /\ top.todo \subseteq Frame.todo
    BY FramesType DEF FrameType
<1>3. After(s) = Append(Callers, top)
    BY DEF After
<1>4. Frame.todo \subseteq Pending(Frame.obj)
    BY <1>1 DEF TypeInv, FramesOK, Frame
<1>5. TAKE i \in 1..Len(After(s))
<1>6. CASE i = Len(Callers) + 1
    <2>1. After(s)[i] = top
        BY <1>1, <1>3, <1>6
    <2> QED
        BY <1>2, <1>4, <2>1
<1>7. CASE i \in 1..Len(Callers)
    BY <1>1, <1>3, <1>7 DEF TypeInv, FramesOK
<1> QED
    BY <1>1, <1>3, <1>5, <1>6, <1>7

\* An activation of gc::mark that is entered, goes on or returns.
LEMMA MarkStepType ==
    ASSUME TypeInv, phase = "mark", slot' = slot, phase' = phase,
           UNCHANGED <<heap, all_objects, program, stack, numbers, ret>>,
           cursor' \in Nat \ {0}, marks' \subseteq Objects,
           frames' \in Seq(FrameType),
           status' \in {"ok", "dangling", "cpp_stack_overflow"},
           \A i \in 1..Len(frames') : frames'[i].todo \subseteq Pending(frames'[i].obj)
    PROVE  TypeInv'
<1>1. TypeOK'
    BY DEF TypeInv, TypeOK, program, numbers, FrameType, RetType
<1>2. ResumeOK'
    BY DEF TypeInv, ResumeOK, program, numbers, Guarded
<1>3. FramesOK'
    BY DEF FramesOK, Pending
<1> QED
    BY <1>1, <1>2, <1>3 DEF TypeInv

\* The loop over the VM stack keeps the types.
LEMMA MarkRootType == TypeInv /\ MarkRoot => TypeInv'
<1> SUFFICES ASSUME TypeInv, MarkRoot PROVE TypeInv'
    OBVIOUS
<1>1. /\ phase = "mark" /\ phase' = phase /\ slot' = slot
      /\ UNCHANGED <<heap, all_objects, program, stack, numbers, ret>>
      /\ cursor' \in Nat \ {0}
    BY DEF MarkRoot, Running, program, TypeInv, TypeOK
<1>2. CASE stack[cursor] \in Objects
  <2>1. /\ Visit(stack[cursor], <<>>) /\ <<>> \in Seq(FrameType)
        /\ Len(<<>>) = 0
      BY <1>2 DEF MarkRoot
  <2>2. /\ marks' \subseteq Objects /\ frames' \in Seq(FrameType)
        /\ status' \in {"ok", "dangling", "cpp_stack_overflow"}
      BY <1>2, <2>1, VisitType
  <2>3. \A i \in 1..Len(<<>>) : <<>>[i].todo \subseteq Pending(<<>>[i].obj)
      BY <2>1
  <2>4. \A i \in 1..Len(frames') : frames'[i].todo \subseteq Pending(frames'[i].obj)
      BY <1>1, <1>2, <2>1, <2>3, VisitFrames
  <2> QED
      BY <1>1, <2>2, <2>4, MarkStepType
<1>3. CASE UNCHANGED <<marks, frames, status>>
    BY <1>1, <1>3, MarkStepType DEF TypeInv, TypeOK, FramesOK
<1> QED
    BY <1>2, <1>3 DEF MarkRoot

\* Following slot s of the innermost activation, or passing it by.
LEMMA FollowType ==
    ASSUME TypeInv, NEW s \in Slots, phase = "mark", phase' = phase, frames # <<>>,
           s \in Frame.todo,
           UNCHANGED <<heap, all_objects, program, stack, numbers, ret, cursor>>,
           \/ frames' = After(s) /\ UNCHANGED <<marks, status>>
           \/ Visit(slot[Frame.obj][s], After(s))
    PROVE  TypeInv'
<1>1. /\ slot' = slot /\ cursor' \in Nat \ {0}
      /\ UNCHANGED <<heap, all_objects, program, stack, numbers, ret>>
    BY DEF program, TypeInv, TypeOK
<1>2. /\ After(s) \in Seq(FrameType)
      /\ \A i \in 1..Len(After(s)) : After(s)[i].todo \subseteq Pending(After(s)[i].obj)
    BY FramesType, AfterFrames
<1>3. CASE frames' = After(s) /\ UNCHANGED <<marks, status>>
  <2>1. \A i \in 1..Len(frames') : frames'[i].todo \subseteq Pending(frames'[i].obj)
      BY <1>2, <1>3
  <2>2. /\ marks' \subseteq Objects /\ frames' \in Seq(FrameType)
        /\ status' \in {"ok", "dangling", "cpp_stack_overflow"}
      BY <1>2, <1>3 DEF TypeInv, TypeOK
  <2> QED
      BY <1>1, <2>1, <2>2, MarkStepType
<1>4. CASE Visit(slot[Frame.obj][s], After(s))
  <2>1. Frame = frames[Len(frames)] /\ Len(frames) \in Nat \ {0}
      BY FrontOf DEF Frame, TypeInv, TypeOK
  <2>2. Frame.todo \subseteq Pending(Frame.obj)
      BY <2>1 DEF TypeInv, FramesOK
  <2>3. slot[Frame.obj][s] \in Objects
      BY <2>2 DEF Pending
  <2>4. /\ marks' \subseteq Objects /\ frames' \in Seq(FrameType)
        /\ status' \in {"ok", "dangling", "cpp_stack_overflow"}
      BY <1>2, <1>4, <2>3, VisitType
  <2>5. \A i \in 1..Len(frames') : frames'[i].todo \subseteq Pending(frames'[i].obj)
      BY <1>1, <1>2, <1>4, <2>3, VisitFrames
  <2> QED
      BY <1>1, <2>4, <2>5, MarkStepType
<1> QED
    BY <1>3, <1>4

\* Returning from an activation of gc::mark keeps the types.
LEMMA MarkReturnType == TypeInv /\ MarkReturn => TypeInv'
<1> SUFFICES ASSUME TypeInv, MarkReturn PROVE TypeInv'
    OBVIOUS
<1>1. /\ phase = "mark" /\ phase' = phase /\ slot' = slot /\ frames # <<>>
      /\ UNCHANGED <<heap, all_objects, program, stack, numbers, ret>>
      /\ frames' = Callers
      /\ cursor' \in Nat \ {0} /\ marks' \subseteq Objects
      /\ status' \in {"ok", "dangling", "cpp_stack_overflow"}
    BY DEF MarkReturn, Running, program, TypeInv, TypeOK
<1>2. /\ Callers \in Seq(FrameType) /\ Len(Callers) = Len(frames) - 1
      /\ \A i \in 1..(Len(frames) - 1) : Callers[i] = frames[i]
      /\ Len(frames) \in Nat \ {0}
    BY <1>1, FrontOf DEF TypeInv, TypeOK, Callers
<1>3. \A i \in 1..Len(frames') : frames'[i].todo \subseteq Pending(frames'[i].obj)
    BY <1>1, <1>2 DEF TypeInv, FramesOK
<1> QED
    BY <1>1, <1>2, <1>3, MarkStepType

\* gc::sweep and shrink_if_possible keep the types.
LEMMA SweepType == TypeInv /\ Sweep => TypeInv'
<1> SUFFICES ASSUME TypeInv, Sweep PROVE TypeInv'
    OBVIOUS
<1> DEFINE dead == all_objects \ marks
<1>1. /\ heap' = heap \ dead /\ all_objects' = all_objects \ dead
      /\ slot' = [o \in Objects |-> IF o \in dead THEN Bare ELSE slot[o]]
      /\ over' = [o \in Objects |-> IF o \in dead THEN Nil ELSE over[o]]
      /\ next_collect' = Shrunk(Cardinality(all_objects \ dead), next_collect)
      /\ phase' \in {"return", "grow"} /\ frames = <<>>
      /\ UNCHANGED <<stack, fields, force_no_gc, ret, marking, building, status>>
    BY DEF Sweep
<1>2. Cardinality(all_objects \ dead) \in Nat
  <2>1. all_objects \ dead \subseteq Objects
      BY DEF TypeInv, TypeOK
  <2> QED
      BY <2>1, ObjectsAssumption, FS_Subset, FS_CardinalityType
<1>3. next_collect' \in 0..MaxThreshold
    BY <1>1, <1>2, ShrunkBound, NumbersAssumption DEF TypeInv, TypeOK
<1>4. slot' \in [Objects -> [Slots -> Value]] /\ over' \in [Objects -> Value]
    BY <1>1, BareType DEF TypeInv, TypeOK
<1>5. TypeOK'
    BY <1>1, <1>3, <1>4 DEF TypeInv, TypeOK, marking, RetType, FrameType
<1>6. ResumeOK'
    BY <1>1 DEF TypeInv, ResumeOK, Guarded
<1>7. FramesOK'
  <2>1. frames' = <<>> /\ Len(frames') = 0
      BY <1>1 DEF marking
  <2> QED
      BY <1>1, <2>1 DEF FramesOK
<1> QED
    BY <1>5, <1>6, <1>7 DEF TypeInv

\* Growing after a collection keeps the types.
LEMMA GrowType == TypeInv /\ Grow => TypeInv'
<1> SUFFICES ASSUME TypeInv, Grow PROVE TypeInv'
    OBVIOUS
<1>1. /\ phase = "grow" /\ phase' = "return" /\ frames = <<>> /\ frames' = <<>>
      /\ Len(frames') = 0
      /\ UNCHANGED <<heap, all_objects, program, stack, force_no_gc, ret, marking,
                     status>>
    BY DEF Grow, Running, TypeInv, FramesOK, marking
<1>2. next_collect' \in 0..MaxThreshold
    BY NumbersAssumption DEF Grow, Overflows, TypeInv, TypeOK
<1>3. TypeOK'
    BY <1>1, <1>2 DEF TypeInv, TypeOK, program, marking, RetType, FrameType
<1>4. ResumeOK'
    BY <1>1 DEF TypeInv, ResumeOK, program, Guarded
<1>5. FramesOK'
    BY <1>1 DEF FramesOK
<1> QED
    BY <1>3, <1>4, <1>5 DEF TypeInv

\* The rest of the interrupted operation keeps the types.
LEMMA ReturnType == TypeInv /\ Return => TypeInv'
<1> SUFFICES ASSUME TypeInv, Return PROVE TypeInv'
    OBVIOUS
<1>1. /\ phase = "return" /\ phase' = "idle" /\ frames = <<>> /\ frames' = <<>>
      /\ Len(frames') = 0 /\ ret' = NoRet
      /\ UNCHANGED <<heap, all_objects, over, fields, numbers, marking, building,
                     status>>
    BY DEF Return, Running, TypeInv, FramesOK, marking
<1>2. ret.val \in Value /\ ret.at \in Slots \cup {Nil} /\ NoRet \in RetType
    BY DEF TypeInv, TypeOK, RetType, NoRet, Ret
<1>3. stack' \in Seq(Value) /\ Len(stack') <= MaxStack
  <2>1. stack \in Seq(Value) /\ Len(stack) \in Nat /\ Len(stack) <= MaxStack
      BY DEF TypeInv, TypeOK
  <2>2. CASE ret.do = "push"
      BY <1>2, <2>1, <2>2, NumbersAssumption DEF Return, TypeInv, ResumeOK
  <2>3. CASE ret.do = "replace"
    <3>1. Popped(1) \in Seq(Value) /\ Len(Popped(1)) = Len(stack) - 1
        BY <2>1, <2>3, PoppedType DEF TypeInv, ResumeOK
    <3> QED
        BY <1>2, <2>1, <2>3, <3>1 DEF Return
  <2>4. CASE ret.do = "elem"
    <3>0. stack' = Popped(1)
        BY <2>4 DEF Return
    <3>1. CASE stack # <<>>
      <4>1. Popped(1) \in Seq(Value) /\ Len(Popped(1)) = Len(stack) - 1
          BY <2>1, <3>1, PoppedType DEF TypeInv
      <4> QED
          BY <2>1, <3>0, <4>1, NumbersAssumption
    <3>2. CASE stack = <<>>
      <4>1. Popped(1) = <<>> /\ <<>> \in Seq(Value) /\ Len(<<>>) = 0
          BY <3>2, SubSeqEmpty DEF Popped
      <4>2. stack' \in Seq(Value) /\ Len(stack') = 0
          BY <3>0, <4>1, Zenon
      <4> QED
          BY <4>2, NumbersAssumption
    <3> QED
        BY <3>1, <3>2
  <2> QED
      BY <2>1, <2>2, <2>3, <2>4 DEF Return
<1>4. slot' \in [Objects -> [Slots -> Value]]
    BY <1>2 DEF Return, TypeInv, TypeOK
<1>5. TypeOK'
    BY <1>1, <1>2, <1>3, <1>4 DEF TypeInv, TypeOK, numbers, marking, RetType, FrameType
<1>6. ResumeOK'
    BY <1>1 DEF TypeInv, ResumeOK, NoRet, Ret, numbers, Guarded
<1>7. FramesOK'
    BY <1>1 DEF FramesOK
<1> QED
    BY <1>5, <1>6, <1>7 DEF TypeInv

\* Every step of the collector keeps the types.
LEMMA CollectorType == TypeInv /\ Collector => TypeInv'
<1> SUFFICES ASSUME TypeInv, Collector PROVE TypeInv'
    OBVIOUS
<1>1. ASSUME NEW k \in PropKeys, MarkProperty(k) PROVE TypeInv'
    BY <1>1, FollowType DEF MarkProperty, Running
<1>2. ASSUME NEW e \in ElemSlots, MarkElement(e) PROVE TypeInv'
    BY <1>2, FollowType DEF MarkElement, Running
<1> QED
    BY <1>1, <1>2, MarkRootType, MarkReturnType, SweepType, GrowType, ReturnType
    DEF Collector

(***************************************************************************)
(* The program's operations: those that leave the collector alone, and     *)
(* those that end in add_object.                                           *)
(***************************************************************************)
LEMMA QuietType ==
    ASSUME TypeInv, phase = "idle", Quiet,
           slot' \in [Objects -> [Slots -> Value]],
           fields' \in [Fields -> Value],
           stack' \in Seq(Value), Len(stack') <= MaxStack,
           status' \in {"ok", "dangling", "cpp_stack_overflow"}
    PROVE  TypeInv'
<1>1. frames' = <<>> /\ Len(frames') = 0
    BY DEF TypeInv, FramesOK, Quiet, marking
<1>2. TypeOK'
    BY DEF TypeInv, TypeOK, Quiet, numbers, marking, RetType, FrameType
<1>3. ResumeOK'
    BY DEF TypeInv, ResumeOK, Quiet, numbers, Guarded
<1>4. FramesOK'
    BY <1>1 DEF FramesOK
<1> QED
    BY <1>2, <1>3, <1>4 DEF TypeInv

\* gc::add_object keeps the types, whatever its caller has done before.
LEMMA AllocType ==
    ASSUME TypeInv, phase = "idle",
           NEW o \in Objects, NEW g, NEW n, NEW r \in RetType, AddObject(o, g, n, r),
           heap' \subseteq Objects,
           slot' \in [Objects -> [Slots -> Value]],
           over' \in [Objects -> Value],
           fields' \in [Fields -> Value],
           stack' \in Seq(Value), Len(stack') <= MaxStack,
           r.do = "push" => Len(stack') < MaxStack,
           r.do = "replace" => stack' # <<>>,
           next_collect' \in 0..MaxThreshold, force_no_gc' \in Nat,
           building' \in Value,
           building' # Nil /\ Guarded => force_no_gc' > 0,
           status' \in {"ok", "dangling", "cpp_stack_overflow"}
    PROVE  TypeInv'
<1>1. /\ all_objects' \subseteq Objects
      /\ ret' = r /\ ret' \in RetType
      /\ phase' \in {"mark", "return"}
      /\ marks' \subseteq Objects
      /\ cursor' \in Nat \ {0}
      /\ frames' \in Seq(FrameType)
    BY AddObjectType
<1>2. frames' = <<>> /\ Len(frames') = 0
    BY DEF TypeInv, FramesOK, AddObject, StartMarking, marking
<1>3. TypeOK'
    BY <1>1 DEF TypeOK, RetType, FrameType
<1>4. ResumeOK'
    BY <1>1 DEF ResumeOK, Guarded
<1>5. FramesOK'
    BY <1>2 DEF FramesOK
<1> QED
    BY <1>3, <1>4, <1>5 DEF TypeInv

\* What an operation finds on the stack.
LEMMA StackFacts ==
    ASSUME TypeInv
    PROVE  /\ stack \in Seq(Value) /\ Len(stack) \in Nat /\ Len(stack) <= MaxStack
           /\ MaxStack \in Nat
           /\ \A n \in 0..Len(stack) :
                Popped(n) \in Seq(Value) /\ Len(Popped(n)) = Len(stack) - n
           /\ \A i \in 1..Len(stack) : stack[i] \in Value
           /\ stack # <<>> => Top \in Value /\ Len(stack) >= 1
<1>1. /\ stack \in Seq(Value) /\ Len(stack) \in Nat /\ Len(stack) <= MaxStack
      /\ MaxStack \in Nat
    BY NumbersAssumption DEF TypeInv, TypeOK
<1>2. \A i \in 1..Len(stack) : stack[i] \in Value
    BY <1>1
<1>3. \A n \in 0..Len(stack) :
        Popped(n) \in Seq(Value) /\ Len(Popped(n)) = Len(stack) - n
    BY PoppedType DEF TypeInv
<1>4. stack # <<>> => Top \in Value /\ Len(stack) >= 1
    BY TopType DEF TypeInv
<1> QED
    BY <1>1, <1>2, <1>3, <1>4

\* op_ldnull and its like keep the types.
LEMMA LoadNilType == TypeInv /\ LoadNil => TypeInv'
<1> SUFFICES ASSUME TypeInv, LoadNil PROVE TypeInv'
    OBVIOUS
<1>1. /\ phase = "idle" /\ Quiet /\ UNCHANGED <<slot, fields, status>>
      /\ stack' = Append(stack, Nil) /\ Len(stack) < MaxStack
    BY DEF LoadNil, Ready, Running, Room
<1>2. stack' \in Seq(Value) /\ Len(stack') <= MaxStack
    BY <1>1, StackFacts
<1> QED
    BY <1>1, <1>2, QuietType DEF TypeInv, TypeOK

\* op_ldloc keeps the types.
LEMMA LoadLocalType ==
    ASSUME TypeInv, NEW i \in 1..MaxStack, LoadLocal(i)
    PROVE  TypeInv'
<1>1. /\ phase = "idle" /\ Quiet /\ UNCHANGED <<slot, fields, status>>
      /\ stack' = Append(stack, stack[i]) /\ Len(stack) < MaxStack
      /\ i \in 1..Len(stack)
    BY DEF LoadLocal, Ready, Running, Room
<1>2. stack' \in Seq(Value) /\ Len(stack') <= MaxStack
    BY <1>1, StackFacts
<1> QED
    BY <1>1, <1>2, QuietType DEF TypeInv, TypeOK

\* op_stloc keeps the types.
LEMMA StoreLocalType ==
    ASSUME TypeInv, NEW i \in 1..MaxStack, StoreLocal(i)
    PROVE  TypeInv'
<1>1. /\ phase = "idle" /\ Quiet /\ UNCHANGED <<slot, fields, status>>
      /\ stack' = [Popped(1) EXCEPT ![i] = Top] /\ i \in 1..(Len(stack) - 1)
    BY DEF StoreLocal, Ready, Running
<1>2. /\ Popped(1) \in Seq(Value) /\ Len(Popped(1)) = Len(stack) - 1
      /\ Top \in Value
    BY <1>1, StackFacts
<1>3. stack' \in Seq(Value) /\ Len(stack') = Len(stack) - 1
    BY <1>1, <1>2
<1>4. Len(stack') <= MaxStack
    BY <1>3, StackFacts
<1> QED
    BY <1>1, <1>3, <1>4, QuietType DEF TypeInv, TypeOK

\* op_pop keeps the types.
LEMMA PopType == TypeInv /\ Pop => TypeInv'
<1> SUFFICES ASSUME TypeInv, Pop PROVE TypeInv'
    OBVIOUS
<1>1. /\ phase = "idle" /\ Quiet /\ UNCHANGED <<slot, fields, status>>
      /\ stack' = Popped(1) /\ stack # <<>>
    BY DEF Pop, Ready, Running
<1>2. stack' \in Seq(Value) /\ Len(stack') <= MaxStack
    BY <1>1, StackFacts
<1> QED
    BY <1>1, <1>2, QuietType DEF TypeInv, TypeOK

\* A dereference changes only the status.
LEMMA DerefType ==
    ASSUME TypeInv, NEW o, Deref(o)
    PROVE  status' \in {"ok", "dangling", "cpp_stack_overflow"}
BY DEF Deref, TypeInv, TypeOK

\* op_stprop and __setitem__ keep the types.
LEMMA StoreSlotType ==
    ASSUME TypeInv, NEW s \in Slots, StoreSlot(s)
    PROVE  TypeInv'
<1>1. /\ phase = "idle" /\ Len(stack) >= 2 /\ Quiet /\ fields' = fields
      /\ stack' = Popped(2) \/ stack' = Append(Popped(2), Nil)
    BY DEF StoreSlot, Ready, Running
<1>2. stack' \in Seq(Value) /\ Len(stack') <= MaxStack
  <2>1. /\ Popped(2) \in Seq(Value) /\ Len(Popped(2)) = Len(stack) - 2
        /\ Len(stack) \in Nat /\ Len(stack) <= MaxStack /\ MaxStack \in Nat
      BY <1>1, StackFacts
  <2>2. /\ Append(Popped(2), Nil) \in Seq(Value)
        /\ Len(Append(Popped(2), Nil)) = Len(Popped(2)) + 1
      BY <2>1
  <2> QED
      BY <1>1, <2>1, <2>2
<1>3. PICK this \in Objects, val \in Value :
        slot' = [slot EXCEPT ![this][s] = val] /\ Deref(this)
  <2>1. Top \in Value /\ stack[Len(stack) - 1] \in Value
      BY <1>1, StackFacts DEF Top
  <2> QED
      BY <2>1 DEF StoreSlot
<1>4. slot' \in [Objects -> [Slots -> Value]] /\ fields' \in [Fields -> Value]
    BY <1>1, <1>3 DEF TypeInv, TypeOK
<1>5. status' \in {"ok", "dangling", "cpp_stack_overflow"}
    BY <1>3, DerefType
<1> QED
    BY <1>1, <1>2, <1>4, <1>5, QuietType

\* Operations that put something in the place of the top of the stack.
LEMMA ReplaceTopType ==
    ASSUME TypeInv, phase = "idle", stack # <<>>, Quiet, NEW v \in Value,
           stack' = Append(Popped(1), v), UNCHANGED <<slot, fields>>,
           status' \in {"ok", "dangling", "cpp_stack_overflow"}
    PROVE  TypeInv'
<1>1. stack' \in Seq(Value) /\ Len(stack') <= MaxStack
    BY StackFacts
<1> QED
    BY <1>1, QuietType DEF TypeInv, TypeOK

\* Reading a property, an element or a field keeps the types.
LEMMA LoadType ==
    ASSUME TypeInv
    PROVE  /\ \A s \in Slots : LoadSlot(s) => TypeInv'
           /\ \A f \in Fields : LoadField(f) => TypeInv'
           /\ \A e \in ElemSlots : IterCurrent(e) => TypeInv'
<1>1. ASSUME NEW s \in Slots, LoadSlot(s) PROVE TypeInv'
  <2>1. slot[Top][s] \in Value
      BY <1>1 DEF LoadSlot, TypeInv, TypeOK
  <2>2. status' \in {"ok", "dangling", "cpp_stack_overflow"}
      BY <1>1, DerefType DEF LoadSlot
  <2> QED
      BY <1>1, <2>1, <2>2, ReplaceTopType DEF LoadSlot, Ready, Running
<1>2. ASSUME NEW f \in Fields, LoadField(f) PROVE TypeInv'
  <2>1. fields[f] \in Value /\ status' \in {"ok", "dangling", "cpp_stack_overflow"}
      BY <1>2 DEF LoadField, TypeInv, TypeOK
  <2> QED
      BY <1>2, <2>1, ReplaceTopType DEF LoadField, Ready, Running
<1>3. ASSUME NEW e \in ElemSlots, IterCurrent(e) PROVE TypeInv'
  <2>1. over[Top] \in Objects
      BY <1>3 DEF IterCurrent, TypeInv, TypeOK
  <2>2. slot[over[Top]][e] \in Value
      BY <2>1 DEF TypeInv, TypeOK
  <2>3. status' \in {"ok", "dangling", "cpp_stack_overflow"}
      BY <1>3, DerefType DEF IterCurrent
  <2>4. /\ phase = "idle" /\ stack # <<>>
        /\ stack' = Append(Popped(1), slot[over[Top]][e])
        /\ Quiet /\ UNCHANGED <<slot, fields>>
      BY <1>3 DEF IterCurrent, Ready, Running
  <2> QED
      BY <2>2, <2>3, <2>4, ReplaceTopType
<1> QED
    BY <1>1, <1>2, <1>3

\* op_stfld keeps the types.
LEMMA StoreFieldType ==
    ASSUME TypeInv, NEW f \in Fields, StoreField(f)
    PROVE  TypeInv'
<1>1. /\ phase = "idle" /\ Quiet /\ UNCHANGED <<slot, status>>
      /\ stack' = Popped(2) /\ Len(stack) >= 2
      /\ fields' = [fields EXCEPT ![f] = Top]
    BY DEF StoreField, Ready, Running
<1>2. stack' \in Seq(Value) /\ Len(stack') <= MaxStack /\ Top \in Value
    BY <1>1, StackFacts DEF Top
<1> QED
    BY <1>1, <1>2, QuietType DEF TypeInv, TypeOK

\* gc.collect() keeps the types.
LEMMA CollectType == TypeInv /\ Collect => TypeInv'
<1> SUFFICES ASSUME TypeInv, Collect PROVE TypeInv'
    OBVIOUS
<1>1. ret' \in RetType /\ ret'.do = "collect"
    BY RetTyped DEF Collect, Ret
<1>2. /\ frames' = <<>> /\ Len(frames') = 0 /\ frames' \in Seq(FrameType)
      /\ phase' = "mark" /\ marks' \subseteq Objects /\ cursor' \in Nat \ {0}
      /\ UNCHANGED <<heap, all_objects, program, stack, numbers, status>>
    BY DEF Collect, StartMarking
<1>3. TypeOK'
    BY <1>1, <1>2 DEF TypeInv, TypeOK, program, numbers, FrameType, RetType
<1>4. ResumeOK'
    BY <1>1, <1>2 DEF TypeInv, ResumeOK, program, numbers, Guarded
<1>5. FramesOK'
    BY <1>2 DEF FramesOK
<1> QED
    BY <1>3, <1>4, <1>5 DEF TypeInv

\* What an allocating operation leaves as it was keeps its type.
LEMMA KeptType ==
    ASSUME TypeInv
    PROVE  /\ heap \subseteq Objects
           /\ slot \in [Objects -> [Slots -> Value]] /\ over \in [Objects -> Value]
           /\ fields \in [Fields -> Value]
           /\ next_collect \in 0..MaxThreshold /\ force_no_gc \in Nat
           /\ building \in Value
           /\ status \in {"ok", "dangling", "cpp_stack_overflow"}
BY DEF TypeInv, TypeOK

\* op_newobj keeps the types.
LEMMA NewObjType ==
    ASSUME TypeInv, NEW o \in Objects, NewObj(o)
    PROVE  TypeInv'
<1>1. /\ phase = "idle" /\ building = Nil /\ Len(stack) < MaxStack
      /\ heap' = heap \cup {o} /\ stack' = Append(stack, o)
      /\ AddObject(o, force_no_gc, next_collect, NoRet)
      /\ UNCHANGED <<slot, over, fields, building, next_collect, force_no_gc, status>>
    BY DEF NewObj, Ready, Running, Room, program, numbers
<1>2. stack' \in Seq(Value) /\ Len(stack') <= MaxStack
    BY <1>1, StackFacts
<1>3. NoRet \in RetType /\ NoRet.do = "none"
    BY RetTyped DEF NoRet, Ret
<1> QED
    BY <1>1, <1>2, <1>3, KeptType, AllocType

\* op_newarr and op_newdic keep the types.
LEMMA NewArrType ==
    ASSUME TypeInv, NEW o \in Objects, NEW n \in 0..MaxStack, NewArr(o, n)
    PROVE  TypeInv'
<1>1. /\ phase = "idle" /\ building = Nil /\ n \in 0..Len(stack)
      /\ Len(stack) < MaxStack
      /\ heap' = heap \cup {o} /\ stack' = Append(Popped(n), o)
      /\ slot' = [slot EXCEPT ![o] =
                    [s \in Slots |-> IF s \in 1..n THEN stack[Len(stack) + 1 - s]
                                     ELSE Nil]]
      /\ AddObject(o, force_no_gc, next_collect, NoRet)
      /\ UNCHANGED <<over, fields, building, next_collect, force_no_gc, status>>
    BY DEF NewArr, Ready, Running, Room, numbers
<1>2. stack' \in Seq(Value) /\ Len(stack') <= MaxStack
  <2>1. /\ Popped(n) \in Seq(Value) /\ Len(Popped(n)) = Len(stack) - n
        /\ Len(stack) \in Nat /\ MaxStack \in Nat
      BY <1>1, StackFacts
  <2>2. /\ Append(Popped(n), o) \in Seq(Value)
        /\ Len(Append(Popped(n), o)) = Len(Popped(n)) + 1
      BY <2>1
  <2> QED
      BY <1>1, <2>1, <2>2
<1>3. slot' \in [Objects -> [Slots -> Value]]
  <2>1. [s \in Slots |-> IF s \in 1..n THEN stack[Len(stack) + 1 - s] ELSE Nil]
          \in [Slots -> Value]
    <3>1. ASSUME NEW s \in Slots, s \in 1..n PROVE stack[Len(stack) + 1 - s] \in Value
      <4>1. Len(stack) + 1 - s \in 1..Len(stack)
          BY <1>1, <3>1, StackFacts
      <4> QED
          BY <4>1, StackFacts
    <3> QED
        BY <3>1
  <2> QED
      BY <1>1, <2>1, KeptType
<1>4. NoRet \in RetType /\ NoRet.do = "none"
    BY RetTyped DEF NoRet, Ret
<1> QED
    BY <1>1, <1>2, <1>3, <1>4, KeptType, AllocType

\* _initobj_systype keeps the types.
LEMMA InitObjType ==
    ASSUME TypeInv, NEW o \in Objects, NEW how \in {"push", "replace"}, InitObj(o, how)
    PROVE  TypeInv'
<1> DEFINE r == Ret(how, o, Nil)
<1>1. /\ phase = "idle" /\ building = Nil
      /\ how = "push" => Len(stack) < MaxStack
      /\ how = "replace" => stack # <<>>
      /\ heap' = heap \cup {o} /\ stack' = stack
      /\ AddObject(o, force_no_gc, next_collect, r)
      /\ UNCHANGED <<slot, over, fields, building, next_collect, force_no_gc, status>>
    BY DEF InitObj, Ready, Running, Room, program, numbers
<1>2. r \in RetType /\ r.do = how
    BY RetTyped DEF Ret
<1>3. stack' \in Seq(Value) /\ Len(stack') <= MaxStack
    BY <1>1, StackFacts
<1> HIDE DEF r
<1> QED
    BY <1>1, <1>2, <1>3, KeptType, AllocType

\* op_throw keeps the types.
LEMMA ThrowType == TypeInv /\ Throw => TypeInv'
<1> SUFFICES ASSUME TypeInv, Throw PROVE TypeInv'
    OBVIOUS
<1> DEFINE r == Ret("push", Top, Nil)
<1>1. /\ phase = "idle" /\ building = Nil /\ stack # <<>> /\ Top \in Objects
      /\ stack' = Popped(1)
      /\ AddObject(Top, force_no_gc, next_collect, r)
      /\ UNCHANGED <<heap, slot, over, fields, building, next_collect, force_no_gc>>
      /\ Deref(Top)
    BY DEF Throw, Ready, Running, program, numbers
<1>2. r \in RetType /\ r.do = "push"
    BY <1>1, RetTyped DEF Ret
<1>3. stack' \in Seq(Value) /\ Len(stack') < MaxStack /\ Len(stack') <= MaxStack
    BY <1>1, StackFacts
<1>4. status' \in {"ok", "dangling", "cpp_stack_overflow"}
    BY <1>1, DerefType
<1> HIDE DEF r
<1> QED
    BY <1>1, <1>2, <1>3, <1>4, KeptType, AllocType

\* get_iterator keeps the types.
LEMMA GetIteratorType ==
    ASSUME TypeInv, NEW o \in Objects, GetIterator(o)
    PROVE  TypeInv'
<1> DEFINE r == Ret("replace", o, Nil)
<1>1. /\ phase = "idle" /\ building = Nil /\ stack # <<>> /\ Top \in Objects
      /\ heap' = heap \cup {o} /\ over' = [over EXCEPT ![o] = Top]
      /\ AddObject(o, force_no_gc, next_collect, r)
      /\ UNCHANGED <<slot, fields, building, stack, next_collect, force_no_gc>>
      /\ Deref(Top)
    BY DEF GetIterator, Ready, Running, numbers
<1>2. r \in RetType /\ r.do = "replace"
    BY RetTyped DEF Ret
<1>3. over' \in [Objects -> Value]
    BY <1>1, KeptType
<1>4. stack' \in Seq(Value) /\ Len(stack') <= MaxStack /\ stack' # <<>>
    BY <1>1, StackFacts
<1>5. status' \in {"ok", "dangling", "cpp_stack_overflow"}
    BY <1>1, DerefType
<1> HIDE DEF r
<1> QED
    BY <1>1, <1>2, <1>3, <1>4, <1>5, KeptType, AllocType

\* The builders: begin, add an element, end, fail.
LEMMA BuildBeginType ==
    ASSUME TypeInv, NEW o \in Objects, BuildBegin(o)
    PROVE  TypeInv'
<1>1. /\ phase = "idle" /\ heap' = heap \cup {o} /\ building' = o
      /\ force_no_gc' = IF Guarded THEN force_no_gc + 1 ELSE force_no_gc
      /\ UNCHANGED <<all_objects, slot, over, stack, fields, next_collect, phase,
                     ret, marking, status>>
    BY DEF BuildBegin, Ready, Running
<1>2. frames' = <<>> /\ Len(frames') = 0
    BY <1>1 DEF TypeInv, FramesOK, marking
<1>3. TypeOK'
  <2>1. force_no_gc' \in Nat /\ building' \in Value /\ heap' \subseteq Objects
      BY <1>1, KeptType
  <2> QED
      BY <1>1, <2>1 DEF TypeInv, TypeOK, marking, RetType, FrameType
<1>4. ResumeOK'
  <2>1. Guarded => force_no_gc' > 0
      BY <1>1 DEF TypeInv, TypeOK
  <2> QED
      BY <1>1, <2>1 DEF TypeInv, ResumeOK, Guarded
<1>5. FramesOK'
    BY <1>2 DEF FramesOK
<1> QED
    BY <1>3, <1>4, <1>5 DEF TypeInv

\* Adding to a container under construction keeps the types.
LEMMA BuildAddType ==
    ASSUME TypeInv, NEW o \in Objects, NEW e \in ElemSlots, BuildAdd(o, e)
    PROVE  TypeInv'
<1> DEFINE r == Ret("elem", o, e)
<1>1. /\ phase = "idle" /\ Len(stack) < MaxStack
      /\ heap' = heap \cup {o} /\ stack' = Append(stack, o)
      /\ AddObject(o, force_no_gc, next_collect, r)
      /\ UNCHANGED <<slot, over, fields, building, next_collect, force_no_gc, status>>
    BY DEF BuildAdd, Building, Running, Room, program, numbers
<1>2. r \in RetType /\ r.do = "elem"
    BY RetTyped DEF Ret
<1>3. stack' \in Seq(Value) /\ Len(stack') <= MaxStack
    BY <1>1, StackFacts
<1>4. building' # Nil /\ Guarded => force_no_gc' > 0
    BY <1>1 DEF TypeInv, ResumeOK
<1> HIDE DEF r
<1> QED
    BY <1>1, <1>2, <1>3, <1>4, KeptType, AllocType

\* end_no_gc never lowers the threshold, wherever it stops.
LEMMA WantedType ==
    ASSUME TypeInv, NEW g
    PROVE  Wanted(g) \in Nat
<1>1. Cardinality(all_objects) \in Nat
    BY ObjectsAssumption, FS_Subset, FS_CardinalityType DEF TypeInv, TypeOK
<1>2. ASSUME NEW c \in Nat, ~Fits(c, next_collect)
      PROVE  ((11 * c - 10 * next_collect) \div (10 * GrowSize) + 1) \in Nat
  <2>1. 11 * c - 10 * next_collect \in Nat /\ 10 * GrowSize \in Nat \ {0}
      BY <1>2, NumbersAssumption, KeptType DEF Fits
  <2> QED
      BY <2>1, DivNat
<1>3. ASSUME NEW k \in Nat PROVE next_collect + GrowSize * k \in Nat
  <2>1. GrowSize * k \in Nat
      BY TimesNat, NumbersAssumption
  <2>2. next_collect \in Nat
      BY KeptType, NumbersAssumption
  <2>3. \A x, y \in Nat : x + y \in Nat
      OBVIOUS
  <2> QED
      BY <2>1, <2>2, <2>3, Zenon
<1>4. ASSUME NEW c \in Nat PROVE GrownToFit(c, next_collect) \in Nat
  <2>1. CASE Fits(c, next_collect)
      BY <2>1, KeptType, NumbersAssumption DEF GrownToFit
  <2>2. CASE ~Fits(c, next_collect)
      BY <1>2, <1>3, <2>2 DEF GrownToFit
  <2> QED
      BY <2>1, <2>2
<1> QED
    BY <1>1, <1>4, KeptType, NumbersAssumption DEF Wanted

\* Registering a finished container keeps the types.
LEMMA BuildEndType == TypeInv /\ BuildEnd => TypeInv'
<1> SUFFICES ASSUME TypeInv, BuildEnd PROVE TypeInv'
    OBVIOUS
<1> DEFINE r == Ret("push", building, Nil)
           next == IF Guarded THEN Wanted(force_no_gc') ELSE next_collect
<1>1. /\ phase = "idle" /\ building \in Objects /\ Len(stack) < MaxStack
      /\ force_no_gc' = IF Guarded THEN force_no_gc - 1 ELSE force_no_gc
      /\ building' = Nil
      /\ UNCHANGED <<over, stack, fields, status>>
    BY KeptType DEF BuildEnd, Building, Running, Room
<1>2. force_no_gc' \in Nat
    BY <1>1, KeptType, ObjectsAssumption DEF TypeInv, ResumeOK
<1>3. stack' \in Seq(Value) /\ Len(stack') < MaxStack /\ Len(stack') <= MaxStack
    BY <1>1, StackFacts
<1>4. r \in RetType /\ r.do = "push"
    BY <1>1, RetTyped DEF Ret
<1>5. next \in Nat
    BY WantedType, KeptType, NumbersAssumption
<1>6. CASE next <= MaxThreshold
  <2>1. /\ next_collect' = next /\ AddObject(building, force_no_gc', next, r)
        /\ UNCHANGED <<heap, slot>>
      BY <1>6 DEF BuildEnd
  <2>2. next_collect' \in 0..MaxThreshold
      BY <1>5, <1>6, <2>1, NumbersAssumption
  <2> HIDE DEF r, next
  <2> QED
      BY <1>1, <1>2, <1>3, <1>4, <2>1, <2>2, KeptType, AllocType
<1>7. CASE ~(next <= MaxThreshold)
  <2>1. /\ next_collect' = Saturated
        /\ heap' = heap \ {building}
        /\ slot' = [slot EXCEPT ![building] = Bare]
        /\ UNCHANGED <<all_objects, phase, ret, marking>>
      BY <1>7 DEF BuildEnd
  <2>2. /\ next_collect' \in 0..MaxThreshold /\ heap' \subseteq Objects
        /\ slot' \in [Objects -> [Slots -> Value]] /\ building' \in Value
      BY <1>1, <2>1, SaturatedType, BareType, KeptType DEF TypeInv
  <2>3. frames' = <<>> /\ Len(frames') = 0
      BY <1>1, <2>1 DEF TypeInv, FramesOK, marking
  <2>4. TypeOK'
      BY <1>1, <1>2, <1>3, <2>1, <2>2 DEF TypeInv, TypeOK, marking, RetType, FrameType
  <2>5. ResumeOK'
      BY <1>1, <2>1 DEF TypeInv, ResumeOK
  <2>6. FramesOK'
      BY <2>1, <2>3, <1>1 DEF FramesOK
  <2> QED
      BY <2>4, <2>5, <2>6 DEF TypeInv
<1> QED
    BY <1>6, <1>7

\* A native builder that throws keeps the types.
LEMMA BuildFailType == TypeInv /\ BuildFail => TypeInv'
<1> SUFFICES ASSUME TypeInv, BuildFail PROVE TypeInv'
    OBVIOUS
<1>1. /\ phase = "idle" /\ heap' = heap \ {building} /\ building' = Nil
      /\ slot' = [slot EXCEPT ![building] = Bare]
      /\ UNCHANGED <<all_objects, over, stack, fields, numbers, phase, ret,
                     marking, status>>
    BY DEF BuildFail, Building, Running
<1>2. /\ heap' \subseteq Objects /\ building' \in Value
      /\ slot' \in [Objects -> [Slots -> Value]]
    BY <1>1, BareType, KeptType
<1>3. frames' = <<>> /\ Len(frames') = 0
    BY <1>1 DEF TypeInv, FramesOK, marking
<1>4. TypeOK'
    BY <1>1, <1>2 DEF TypeInv, TypeOK, numbers, marking, RetType, FrameType
<1>5. ResumeOK'
    BY <1>1 DEF TypeInv, ResumeOK
<1>6. FramesOK'
    BY <1>1, <1>3 DEF FramesOK
<1> QED
    BY <1>4, <1>5, <1>6 DEF TypeInv

\* Every operation of the program keeps the types.
LEMMA MutatorType == TypeInv /\ Mutator => TypeInv'
<1> SUFFICES ASSUME TypeInv, Mutator PROVE TypeInv'
    OBVIOUS
<1>1. CASE LoadNil \/ Pop \/ Throw \/ Collect
    BY <1>1, LoadNilType, PopType, ThrowType, CollectType
<1>2. CASE \E i \in 1..MaxStack : LoadLocal(i) \/ StoreLocal(i)
    BY <1>2, LoadLocalType, StoreLocalType
<1>3. CASE \E s \in Slots : StoreSlot(s) \/ LoadSlot(s)
    BY <1>3, StoreSlotType, LoadType
<1>4. CASE \E f \in Fields : StoreField(f) \/ LoadField(f)
    BY <1>4, StoreFieldType, LoadType
<1>5. CASE \E o \in Objects :
             \/ NewObj(o) \/ GetIterator(o) \/ BuildBegin(o)
             \/ \E n \in 0..MaxStack : NewArr(o, n)
             \/ \E how \in {"push", "replace"} : InitObj(o, how)
             \/ \E e \in ElemSlots : BuildAdd(o, e)
    BY <1>5, NewObjType, GetIteratorType, BuildBeginType, NewArrType, InitObjType,
       BuildAddType
<1>6. CASE \E e \in ElemSlots : IterCurrent(e)
    BY <1>6, LoadType
<1>7. CASE BuildEnd \/ BuildFail
    BY <1>7, BuildEndType, BuildFailType
<1> QED
    BY <1>1, <1>2, <1>3, <1>4, <1>5, <1>6, <1>7 DEF Mutator

\* The type invariant and its strengthening hold in every reachable state.
LEMMA TypeInvariant == Spec => []TypeInv
<1>1. TypeInv /\ [Next]_vars => TypeInv'
  <2>1. TypeInv /\ UNCHANGED vars => TypeInv'
    <3> SUFFICES ASSUME TypeInv, UNCHANGED vars PROVE TypeInv'
        OBVIOUS
    <3>1. TypeOK'
        BY DEF TypeInv, TypeOK, vars, program, numbers, marking, RetType, FrameType
    <3>2. ResumeOK'
        BY DEF TypeInv, ResumeOK, vars, program, numbers, Guarded
    <3>3. FramesOK'
        BY DEF TypeInv, FramesOK, Pending, vars, program, marking
    <3> QED
        BY <3>1, <3>2, <3>3 DEF TypeInv
  <2> QED
      BY <2>1, CollectorType, MutatorType DEF Next
<1> QED
    BY InitType, <1>1, PTL DEF Spec

\* Every variable keeps its type, for every set of objects, every threshold and
\* every program: in particular next_collect never wraps (gc.cpp:105-123).
THEOREM TypeCorrect == Spec => []TypeOK
BY TypeInvariant, PTL DEF TypeInv

(***************************************************************************)
(* Marking: the tri-colour invariant, precision, and what a collection     *)
(* deletes.  The activations' objects are marked, so the strengthened      *)
(* invariant is inductive.                                                 *)
(***************************************************************************)
MarkInv ==
    phase = "mark" =>
        /\ TriColour /\ MarkPrecise
        /\ \A i \in 1..Len(frames) : frames[i].obj \in marks

\* Reachable contains the roots, follows references, and is the least such set.
LEMMA ReachableLaws ==
    /\ Roots \subseteq Reachable
    /\ \A o \in Reachable : Targets(o) \subseteq Reachable
    /\ \A S \in SUBSET Objects : Roots \subseteq S /\ Closed(S) => Reachable \subseteq S
<1>1. Roots \subseteq Reachable
    BY DEF Reachable, Roots
<1>2. ASSUME NEW o \in Reachable, NEW t \in Targets(o) PROVE t \in Reachable
  <2>1. t \in Objects
      BY DEF Targets
  <2>2. ASSUME NEW S \in SUBSET Objects, Roots \subseteq S, Closed(S) PROVE t \in S
      BY <2>2 DEF Reachable, Closed
  <2> QED
      BY <2>1, <2>2 DEF Reachable
<1>3. ASSUME NEW S \in SUBSET Objects, Roots \subseteq S, Closed(S)
      PROVE  Reachable \subseteq S
    BY <1>3 DEF Reachable
<1> QED
    BY <1>1, <1>2, <1>3

\* Reachability depends on the stack and the slots alone.
LEMMA ReachableSame ==
    ASSUME stack' = stack, slot' = slot
    PROVE  Reachable' = Reachable
BY DEF Reachable, Roots, Closed, Targets

\* Removing slot t from the innermost activation loses that slot only.
LEMMA AfterCovers ==
    ASSUME TypeInv, frames # <<>>, NEW t
    PROVE  /\ After(t) \in Seq(FrameType) /\ Len(After(t)) = Len(frames)
           /\ \A i \in 1..Len(frames) : /\ After(t)[i].obj = frames[i].obj
                                        /\ frames[i].todo \ {t} \subseteq After(t)[i].todo
           /\ \A i \in 1..Len(frames) :
                t \in frames[i].todo /\ t \notin After(t)[i].todo => frames[i].obj = Frame.obj
           /\ Frame = frames[Len(frames)] /\ Len(frames) \in Nat \ {0}
<1> DEFINE top == [Frame EXCEPT !.todo = @ \ {t}]
<1>1. /\ Callers \in Seq(FrameType) /\ Len(Callers) = Len(frames) - 1
      /\ \A i \in 1..(Len(frames) - 1) : Callers[i] = frames[i]
      /\ Len(frames) \in Nat \ {0}
    BY FrontOf DEF TypeInv, TypeOK, Callers
<1>2. After(t) \in Seq(FrameType) /\ Frame \in FrameType
    BY FramesType
<1>3. top.obj = Frame.obj /\ top.todo = Frame.todo \ {t}
    BY <1>2 DEF FrameType
<1>4. After(t) = Append(Callers, top)
    BY DEF After
<1>5. Len(After(t)) = Len(frames) /\ After(t)[Len(frames)] = top
    BY <1>1, <1>4
<1>6. \A i \in 1..(Len(frames) - 1) : After(t)[i] = frames[i]
    BY <1>1, <1>4
<1>7. Frame = frames[Len(frames)]
    BY DEF Frame
<1>8. \A i \in 1..Len(frames) : i \in 1..(Len(frames) - 1) \/ i = Len(frames)
    BY <1>1
<1> HIDE DEF top
<1> QED
    BY <1>1, <1>2, <1>3, <1>5, <1>6, <1>7, <1>8

\* Entering mark(o): the new activation covers o, the rest stays covered.
LEMMA VisitMark ==
    ASSUME TypeInv, NEW o \in Objects, NEW under \in Seq(FrameType), Visit(o, under),
           slot' = slot,
           \A i \in 1..Len(under) : under[i].obj \in marks,
           \A x \in marks : \A s \in Pending(x) :
             \/ slot[x][s] \in marks \cup {o}
             \/ \E i \in 1..Len(under) : under[i].obj = x /\ s \in under[i].todo
    PROVE  /\ \A x \in marks' : \A s \in Pending(x) :
                \/ slot[x][s] \in marks'
                \/ \E i \in 1..Len(frames') : frames'[i].obj = x /\ s \in frames'[i].todo
           /\ \A i \in 1..Len(frames') : frames'[i].obj \in marks'
<1> DEFINE new == [obj |-> o, todo |-> Pending(o)]
<1>1. /\ marks' = marks \cup {o} /\ frames' = Append(under, new)
      /\ new.obj = o /\ new.todo = Pending(o)
    BY DEF Visit
<1> HIDE DEF new
<1>2. /\ Len(frames') = Len(under) + 1 /\ Len(under) \in Nat
      /\ frames'[Len(under) + 1] = new
      /\ \A i \in 1..Len(under) : frames'[i] = under[i]
    BY <1>1
<1>3. \A i \in 1..Len(frames') : i \in 1..Len(under) \/ i = Len(under) + 1
    BY <1>2
<1>4. /\ \A i \in 1..Len(under) : i \in 1..Len(frames')
      /\ Len(under) + 1 \in 1..Len(frames')
    BY <1>2
<1>5. \A i \in 1..Len(frames') : frames'[i].obj \in marks'
    BY <1>1, <1>2, <1>3
<1>6. ASSUME NEW x \in marks', NEW s \in Pending(x)
      PROVE  \/ slot[x][s] \in marks'
             \/ \E i \in 1..Len(frames') : frames'[i].obj = x /\ s \in frames'[i].todo
  <2>1. CASE x = o
      BY <1>1, <1>2, <1>4, <2>1
  <2>2. CASE x \in marks
      BY <1>1, <1>2, <1>4, <2>2
  <2> QED
      BY <1>1, <2>1, <2>2
<1> QED
    BY <1>5, <1>6

\* The parts of MarkInv, restated for a step inside the marking phase.
LEMMA MarkParts ==
    ASSUME TypeInv, stack' = stack, slot' = slot,
           marks' \subseteq Reachable,
           \A x \in marks' : \A s \in Pending(x) :
             \/ slot[x][s] \in marks'
             \/ \E i \in 1..Len(frames') : frames'[i].obj = x /\ s \in frames'[i].todo,
           \A i \in 1..Len(frames') : frames'[i].obj \in marks',
           \A i \in 1..Len(stack) : i < cursor' /\ stack[i] \in Objects => stack[i] \in marks'
    PROVE  MarkInv'
<1>1. \A x : Pending(x)' = Pending(x)
    BY DEF Pending
<1>2. TriColour'
    BY <1>1 DEF TriColour
<1>3. MarkPrecise'
    BY ReachableSame DEF MarkPrecise
<1> QED
    BY <1>2, <1>3 DEF MarkInv

\* Marking a root keeps the marking invariant.
LEMMA MarkRootInv == TypeInv /\ MarkInv /\ MarkRoot => MarkInv'
<1> SUFFICES ASSUME TypeInv, MarkInv, MarkRoot PROVE MarkInv'
    OBVIOUS
<1>1. /\ phase = "mark" /\ stack' = stack /\ slot' = slot /\ frames = <<>>
      /\ cursor' = cursor + 1 /\ cursor \in 1..Len(stack) /\ cursor \in Nat
      /\ Len(stack) \in Nat
    BY StackFacts DEF MarkRoot, Running, program, TypeInv, TypeOK
<1>2. /\ marks \subseteq Reachable
      /\ \A x \in marks : \A s \in Pending(x) : slot[x][s] \in marks
      /\ \A i \in 1..Len(stack) : i < cursor /\ stack[i] \in Objects => stack[i] \in marks
    BY <1>1 DEF MarkInv, TriColour, MarkPrecise
<1>3. CASE stack[cursor] \in Objects
  <2> DEFINE o == stack[cursor]
  <2>1. /\ Visit(o, <<>>) /\ <<>> \in Seq(FrameType) /\ Len(<<>>) = 0
        /\ marks' = marks \cup {o}
      BY <1>3 DEF MarkRoot, Visit
  <2>2. o \in Reachable
      BY <1>1, <1>3, ReachableLaws DEF Roots
  <2> HIDE DEF o
  <2>3. /\ \A i \in 1..Len(<<>>) : <<>>[i].obj \in marks
        /\ \A x \in marks : \A s \in Pending(x) :
             \/ slot[x][s] \in marks \cup {o}
             \/ \E i \in 1..Len(<<>>) : <<>>[i].obj = x /\ s \in <<>>[i].todo
      BY <1>2, <2>1
  <2>4. /\ \A x \in marks' : \A s \in Pending(x) :
             \/ slot[x][s] \in marks'
             \/ \E i \in 1..Len(frames') : frames'[i].obj = x /\ s \in frames'[i].todo
        /\ \A i \in 1..Len(frames') : frames'[i].obj \in marks'
      BY <1>1, <1>3, <2>1, <2>3, VisitMark DEF o
  <2>5. \A i \in 1..Len(stack) : i < cursor' /\ stack[i] \in Objects => stack[i] \in marks'
      BY <1>1, <1>2, <2>1 DEF o
  <2> QED
      BY <1>1, <1>2, <2>1, <2>2, <2>4, <2>5, MarkParts
<1>4. CASE stack[cursor] \notin Objects
  <2>1. marks' = marks /\ frames' = <<>> /\ Len(frames') = 0
      BY <1>1, <1>4 DEF MarkRoot
  <2>2. \A i \in 1..Len(stack) : i < cursor' /\ stack[i] \in Objects => stack[i] \in marks'
      BY <1>1, <1>2, <1>4, <2>1
  <2> QED
      BY <1>1, <1>2, <2>1, <2>2, MarkParts
<1> QED
    BY <1>3, <1>4

\* So does following a reference, whether it is skipped or visited.
LEMMA FollowInv ==
    ASSUME TypeInv, MarkInv, NEW s \in Slots, phase = "mark", frames # <<>>,
           s \in Frame.todo, UNCHANGED <<slot, stack, cursor>>,
           \/ slot[Frame.obj][s] \in marks /\ frames' = After(s) /\ marks' = marks
           \/ Visit(slot[Frame.obj][s], After(s))
    PROVE  MarkInv'
<1> DEFINE o == slot[Frame.obj][s]
<1>1. /\ marks \subseteq Reachable /\ marks \subseteq Objects
      /\ \A x \in marks : \A t \in Pending(x) :
           \/ slot[x][t] \in marks
           \/ \E i \in 1..Len(frames) : frames[i].obj = x /\ t \in frames[i].todo
      /\ \A i \in 1..Len(frames) : frames[i].obj \in marks
      /\ \A i \in 1..Len(stack) : i < cursor /\ stack[i] \in Objects => stack[i] \in marks
    BY DEF MarkInv, TriColour, MarkPrecise, TypeInv, TypeOK
<1>2. /\ After(s) \in Seq(FrameType) /\ Len(After(s)) = Len(frames)
      /\ \A i \in 1..Len(frames) : /\ After(s)[i].obj = frames[i].obj
                                   /\ frames[i].todo \ {s} \subseteq After(s)[i].todo
      /\ \A i \in 1..Len(frames) :
           s \in frames[i].todo /\ s \notin After(s)[i].todo => frames[i].obj = Frame.obj
      /\ Frame = frames[Len(frames)] /\ Len(frames) \in Nat \ {0}
    BY AfterCovers
<1>3. Frame.obj \in marks /\ Frame.todo \subseteq Pending(Frame.obj)
    BY <1>1, <1>2 DEF TypeInv, FramesOK
<1>4. o \in Objects /\ o \in Targets(Frame.obj)
    BY <1>3 DEF Pending, Targets
<1>5. o \in Reachable
    BY <1>1, <1>3, <1>4, ReachableLaws
<1>6. \A i \in 1..Len(After(s)) : After(s)[i].obj \in marks
    BY <1>1, <1>2
<1>7. \A x \in marks : \A t \in Pending(x) :
        \/ slot[x][t] \in marks \cup {o}
        \/ \E i \in 1..Len(After(s)) : After(s)[i].obj = x /\ t \in After(s)[i].todo
  <2> SUFFICES ASSUME NEW x \in marks, NEW t \in Pending(x), slot[x][t] \notin marks,
                      slot[x][t] # o
               PROVE  \E i \in 1..Len(After(s)) :
                        After(s)[i].obj = x /\ t \in After(s)[i].todo
      OBVIOUS
  <2>1. PICK i \in 1..Len(frames) : frames[i].obj = x /\ t \in frames[i].todo
      BY <1>1
  <2>2. t \in After(s)[i].todo
      BY <1>2, <2>1
  <2> QED
      BY <1>2, <2>1, <2>2
<1> HIDE DEF o
<1>8. CASE o \in marks /\ frames' = After(s) /\ marks' = marks
  <2>1. marks \cup {o} = marks'
      BY <1>8
  <2> QED
      BY <1>1, <1>6, <1>7, <1>8, <2>1, MarkParts
<1>9. CASE Visit(o, After(s))
  <2>1. marks' = marks \cup {o}
      BY <1>9 DEF Visit
  <2>2. /\ \A x \in marks' : \A t \in Pending(x) :
             \/ slot[x][t] \in marks'
             \/ \E i \in 1..Len(frames') : frames'[i].obj = x /\ t \in frames'[i].todo
        /\ \A i \in 1..Len(frames') : frames'[i].obj \in marks'
      BY <1>2, <1>4, <1>6, <1>7, <1>9, VisitMark
  <2> QED
      BY <1>1, <1>5, <2>1, <2>2, MarkParts
<1> QED
    BY <1>8, <1>9 DEF o

\* So does returning from an activation, which has nothing left to follow.
LEMMA MarkReturnInv == TypeInv /\ MarkInv /\ MarkReturn => MarkInv'
<1> SUFFICES ASSUME TypeInv, MarkInv, MarkReturn PROVE MarkInv'
    OBVIOUS
<1>1. /\ phase = "mark" /\ frames # <<>> /\ Frame.todo = {} /\ frames' = Callers
      /\ UNCHANGED <<slot, stack, marks, cursor>>
    BY DEF MarkReturn, Running, program
<1>2. /\ Len(Callers) = Len(frames) - 1
      /\ \A i \in 1..(Len(frames) - 1) : Callers[i] = frames[i]
      /\ Len(frames) \in Nat \ {0}
    BY <1>1, FrontOf DEF TypeInv, TypeOK, Callers
<1>3. /\ marks \subseteq Reachable
      /\ \A x \in marks : \A t \in Pending(x) :
           \/ slot[x][t] \in marks
           \/ \E i \in 1..Len(frames) : frames[i].obj = x /\ t \in frames[i].todo
      /\ \A i \in 1..Len(frames) : frames[i].obj \in marks
      /\ \A i \in 1..Len(stack) : i < cursor /\ stack[i] \in Objects => stack[i] \in marks
    BY <1>1 DEF MarkInv, TriColour, MarkPrecise
<1>4. ASSUME NEW x \in marks, NEW t \in Pending(x), slot[x][t] \notin marks
      PROVE  \E i \in 1..Len(frames') : frames'[i].obj = x /\ t \in frames'[i].todo
  <2>1. PICK i \in 1..Len(frames) : frames[i].obj = x /\ t \in frames[i].todo
      BY <1>3, <1>4
  <2>2. i # Len(frames)
      BY <1>1, <2>1 DEF Frame
  <2>3. i \in 1..(Len(frames) - 1)
      BY <1>2, <2>2
  <2> QED
      BY <1>1, <1>2, <2>1, <2>3
<1>5. \A i \in 1..Len(frames') : frames'[i].obj \in marks'
    BY <1>1, <1>2, <1>3
<1> QED
    BY <1>1, <1>3, <1>4, <1>5, MarkParts

\* A collection begins with nothing marked.
LEMMA StartInv == TypeInv /\ StartMarking => MarkInv'
<1> SUFFICES ASSUME TypeInv, StartMarking PROVE MarkInv'
    OBVIOUS
<1>1. marks' = {} /\ cursor' = 1 /\ frames' = <<>> /\ Len(frames') = 0
    BY DEF StartMarking
<1>2. TriColour' /\ MarkPrecise'
    BY <1>1 DEF TriColour, MarkPrecise
<1> QED
    BY <1>1, <1>2 DEF MarkInv

\* The other steps either leave marking or begin it.
LEMMA OutsideInv == TypeInv /\ (Sweep \/ Grow \/ Return \/ Mutator) => MarkInv'
<1> SUFFICES ASSUME TypeInv, Sweep \/ Grow \/ Return \/ Mutator PROVE MarkInv'
    OBVIOUS
<1>1. CASE phase' # "mark"
    BY <1>1 DEF MarkInv
<1>2. ASSUME NEW o, NEW g, NEW n, NEW r, AddObject(o, g, n, r) PROVE MarkInv'
    BY <1>1, <1>2, StartInv DEF AddObject
<1>3. CASE Sweep \/ Grow \/ Return
    BY <1>1, <1>3 DEF Sweep, Grow, Return
<1>4. CASE Mutator
  <2>1. CASE \/ LoadNil \/ Pop \/ BuildFail
             \/ \E i \in 1..MaxStack : LoadLocal(i) \/ StoreLocal(i)
             \/ \E s \in Slots : StoreSlot(s) \/ LoadSlot(s)
             \/ \E f \in Fields : StoreField(f) \/ LoadField(f)
             \/ \E e \in ElemSlots : IterCurrent(e)
             \/ \E o \in Objects : BuildBegin(o)
    <3>1. phase = "idle" /\ phase' = phase
        BY <2>1 DEF LoadNil, Pop, BuildFail, LoadLocal, StoreLocal, StoreSlot, LoadSlot,
             StoreField, LoadField, IterCurrent, BuildBegin, Ready, Running, Building,
             Quiet
    <3> QED
        BY <1>1, <3>1
  <2>2. CASE Collect
      BY <2>2, StartInv DEF Collect
  <2>3. CASE BuildEnd
    <3>1. CASE phase' = phase
        BY <1>1, <2>3, <3>1 DEF BuildEnd, Building, Running
    <3>2. CASE \E n, r : AddObject(building, force_no_gc', n, r)
        BY <1>2, <3>2
    <3> QED
        BY <2>3, <3>1, <3>2 DEF BuildEnd
  <2>4. CASE Throw
      BY <1>2, <2>4 DEF Throw
  <2>5. ASSUME NEW o \in Objects,
               \/ NewObj(o) \/ GetIterator(o)
               \/ \E n \in 0..MaxStack : NewArr(o, n)
               \/ \E how \in {"push", "replace"} : InitObj(o, how)
               \/ \E e \in ElemSlots : BuildAdd(o, e)
        PROVE  MarkInv'
      BY <1>2, <2>5 DEF NewObj, GetIterator, NewArr, InitObj, BuildAdd
  <2> QED
      BY <1>4, <2>1, <2>2, <2>3, <2>4, <2>5 DEF Mutator
<1> QED
    BY <1>3, <1>4

\* The marking invariant holds in every reachable state.
LEMMA MarkInvariant == Spec => [](TypeInv /\ MarkInv)
<1>1. Init => MarkInv
    BY DEF Init, MarkInv
<1>2. TypeInv /\ MarkInv /\ [Next]_vars => MarkInv'
  <2> SUFFICES ASSUME TypeInv, MarkInv, [Next]_vars PROVE MarkInv'
      OBVIOUS
  <2>1. CASE MarkRoot
      BY <2>1, MarkRootInv
  <2>2. ASSUME NEW k \in PropKeys, MarkProperty(k) PROVE MarkInv'
      BY <2>2, FollowInv DEF MarkProperty, Running, program
  <2>3. ASSUME NEW e \in ElemSlots, MarkElement(e) PROVE MarkInv'
      BY <2>3, FollowInv DEF MarkElement, Running, program
  <2>4. CASE MarkReturn
      BY <2>4, MarkReturnInv
  <2>5. CASE Sweep \/ Grow \/ Return \/ Mutator
      BY <2>5, OutsideInv
  <2>6. CASE UNCHANGED vars
      BY <2>6 DEF MarkInv, TriColour, MarkPrecise, Reachable, Roots, Closed, Targets,
           Pending, vars, program, marking
  <2> QED
      BY <2>1, <2>2, <2>3, <2>4, <2>5, <2>6 DEF Next, Collector
<1> QED
    BY TypeInvariant, <1>1, <1>2, PTL DEF Spec

\* Marking obeys the tri-colour discipline whatever the object graph (gc.cpp:77-92).
THEOREM MarkingTriColour == Spec => []TriColour
<1>1. MarkInv => TriColour
    BY DEF MarkInv, TriColour
<1> QED
    BY MarkInvariant, <1>1, PTL

\* Marking never marks what the stack does not reach.
THEOREM MarkingPrecise == Spec => []MarkPrecise
<1>1. MarkInv => MarkPrecise
    BY DEF MarkInv, MarkPrecise
<1> QED
    BY MarkInvariant, <1>1, PTL

\* When the loop over the stack is done the marks are the reachable objects.
LEMMA MarksComplete ==
    ASSUME TypeInv, MarkInv, phase = "mark", frames = <<>>, cursor > Len(stack)
    PROVE  marks = Reachable
<1>1. marks \in SUBSET Objects /\ marks \subseteq Reachable /\ Len(frames) = 0
    BY DEF MarkInv, MarkPrecise, TypeInv, TypeOK
<1>2. Roots \subseteq marks
    BY StackFacts DEF Roots, MarkInv, TriColour, TypeInv, TypeOK
<1>3. Closed(marks)
  <2> SUFFICES ASSUME NEW x \in marks, NEW s \in Slots, slot[x][s] \in Objects
               PROVE  slot[x][s] \in marks
      BY DEF Closed, Targets
  <2>1. s \in Pending(x)
      BY DEF Pending
  <2> QED
      BY <1>1, <2>1 DEF MarkInv, TriColour
<1> QED
    BY <1>1, <1>2, <1>3, ReachableLaws

\* A collection deletes the registered objects out of reach and no other one,
\* for every object graph and every program (gc::collect, gc.cpp:52-71).
THEOREM CollectionExact == Spec => CollectExact
<1>1. TypeInv /\ MarkInv /\ [Next]_vars =>
        [phase = "mark" /\ phase' # "mark" =>
           heap' = heap \ (all_objects \ Reachable)]_vars
  <2> SUFFICES ASSUME TypeInv, MarkInv, Next, phase = "mark", phase' # "mark"
               PROVE  heap' = heap \ (all_objects \ Reachable)
      OBVIOUS
  <2>1. ~Mutator
      BY DEF Mutator, LoadNil, Pop, BuildFail, LoadLocal, StoreLocal, StoreSlot, LoadSlot,
           StoreField, LoadField, IterCurrent, BuildBegin, Collect, BuildEnd, Throw, NewObj,
           GetIterator, NewArr, InitObj, BuildAdd, Ready, Running, Building
  <2>2. Sweep
      BY <2>1 DEF Next, Collector, MarkRoot, MarkProperty, MarkElement, MarkReturn, Grow,
           Return, Running
  <2>3. marks = Reachable
      BY <2>2, MarksComplete DEF Sweep
  <2> QED
      BY <2>2, <2>3 DEF Sweep
<1> QED
    BY MarkInvariant, <1>1, PTL DEF Spec, CollectExact

(***************************************************************************)
(* No dangling reference, for programs that keep every object they use on  *)
(* the VM stack or in a slot of such an object: no value held by native    *)
(* code or a register alone, no static field, no iterator.                 *)
(***************************************************************************)
StackOps == {"load", "store", "pop", "stprop", "setitem", "newobj", "newarr", "collect"}

HeapInv ==
    /\ NoDangling
    /\ all_objects = heap
    /\ \A o \in Objects \ heap : slot[o] = Bare
    /\ status # "dangling"
    /\ building = Nil
    /\ ret.do \in {"none", "collect"}

\* In a heap without dangling references everything reachable is alive.
LEMMA ReachableAlive == TypeInv /\ NoDangling => Reachable \subseteq heap
BY ReachableLaws DEF NoDangling, StackLive, SlotsLive, Closed, TypeInv, TypeOK

\* The operation in progress is one of a safe program.
LEMMA SafeSteps ==
    ASSUME Ops \subseteq StackOps, HeapInv, Mutator
    PROVE  \/ LoadNil \/ Pop \/ Collect
           \/ \E i \in 1..MaxStack : LoadLocal(i) \/ StoreLocal(i)
           \/ \E s \in Slots : StoreSlot(s) \/ LoadSlot(s)
           \/ \E o \in Objects : NewObj(o) \/ \E n \in 0..MaxStack : NewArr(o, n)
BY DEF StackOps, HeapInv, Mutator, StoreField, LoadField, InitObj, Throw, GetIterator,
    IterCurrent, BuildBegin, BuildAdd, BuildEnd, BuildFail, Ready, Building

\* Every object on the stack is alive, and so are the objects it refers to.
LEMMA LiveFacts ==
    ASSUME TypeInv, HeapInv
    PROVE  /\ \A i \in 1..Len(stack) : stack[i] \in Objects => stack[i] \in heap
           /\ \A o \in heap : \A s \in Slots : slot[o][s] \in Objects => slot[o][s] \in heap
           /\ stack # <<>> /\ Top \in Objects => Top \in heap
<1>1. \A i \in 1..Len(stack) : stack[i] \in Objects => stack[i] \in heap
    BY DEF HeapInv, NoDangling, StackLive, Roots
<1>2. \A o \in heap : \A s \in Slots : slot[o][s] \in Objects => slot[o][s] \in heap
    BY DEF HeapInv, NoDangling, SlotsLive, Targets
<1>3. stack # <<>> => Len(stack) \in 1..Len(stack)
    BY StackFacts
<1> QED
    BY <1>1, <1>2, <1>3 DEF Top

\* A stack of live values and slots of live objects give the invariant back.
LEMMA LiveAgain ==
    ASSUME TypeInv, HeapInv, heap' = heap, all_objects' = all_objects, building' = building,
           status' = status, ret'.do \in {"none", "collect"},
           \A i \in 1..Len(stack') : stack'[i] \in Objects => stack'[i] \in heap,
           \A o \in heap : \A s \in Slots : slot'[o][s] \in Objects => slot'[o][s] \in heap,
           \A o \in Objects \ heap : slot'[o] = slot[o]
    PROVE  HeapInv'
<1>1. StackLive' /\ SlotsLive'
    BY DEF StackLive, SlotsLive, Roots, Targets
<1> QED
    BY <1>1 DEF HeapInv, NoDangling, Bare

\* Marking does not disturb the heap invariant.
LEMMA MarkHeapInv ==
    ASSUME TypeInv, MarkInv, HeapInv,
           \/ MarkRoot \/ MarkReturn
           \/ \E k \in PropKeys : MarkProperty(k)
           \/ \E e \in ElemSlots : MarkElement(e)
    PROVE  HeapInv'
<1>1. UNCHANGED <<heap, all_objects, slot, building, stack, ret>>
    BY DEF MarkRoot, MarkReturn, MarkProperty, MarkElement, program
<1>2. ASSUME NEW o \in Reachable, NEW under, Visit(o, under) PROVE status' # "dangling"
    BY <1>2, ReachableAlive DEF Visit, HeapInv
<1>3. status' # "dangling"
  <2>1. CASE MarkRoot
    <3>1. cursor \in 1..Len(stack)
        BY <2>1 DEF MarkRoot, TypeInv, TypeOK
    <3>2. stack[cursor] \in Objects => stack[cursor] \in Reachable
        BY <3>1, ReachableLaws DEF Roots
    <3> QED
        BY <1>2, <2>1, <3>2 DEF MarkRoot, HeapInv
  <2>2. ASSUME NEW s \in Slots, frames # <<>>, s \in Frame.todo, phase = "mark"
        PROVE  slot[Frame.obj][s] \in Reachable
    <3>1. Frame = frames[Len(frames)] /\ Len(frames) \in Nat \ {0}
        BY <2>2, AfterCovers
    <3>2. Frame.obj \in Reachable /\ Frame.todo \subseteq Pending(Frame.obj)
        BY <2>2, <3>1 DEF MarkInv, MarkPrecise, TypeInv, FramesOK
    <3> QED
        BY <2>2, <3>2, ReachableLaws DEF Pending, Targets
  <2>3. ASSUME NEW k \in PropKeys, MarkProperty(k) PROVE status' # "dangling"
    <3>1. slot[Frame.obj][k] \in Reachable
        BY <2>2, <2>3 DEF MarkProperty, Running
    <3> QED
        BY <1>2, <2>3, <3>1 DEF MarkProperty, HeapInv
  <2>4. ASSUME NEW e \in ElemSlots, MarkElement(e) PROVE status' # "dangling"
    <3>1. slot[Frame.obj][e] \in Reachable
        BY <2>2, <2>4 DEF MarkElement, Running
    <3> QED
        BY <1>2, <2>4, <3>1 DEF MarkElement
  <2>5. CASE MarkReturn
      BY <2>5 DEF MarkReturn, HeapInv
  <2> QED
      BY <2>1, <2>3, <2>4, <2>5
<1>4. StackLive' /\ SlotsLive'
    BY <1>1 DEF HeapInv, NoDangling, StackLive, SlotsLive, Roots, Targets
<1> QED
    BY <1>1, <1>3, <1>4 DEF HeapInv, NoDangling, Bare

\* Sweeping keeps it: what is deleted is not reachable.
LEMMA SweepHeapInv == TypeInv /\ MarkInv /\ HeapInv /\ Sweep => HeapInv'
<1> SUFFICES ASSUME TypeInv, MarkInv, HeapInv, Sweep PROVE HeapInv'
    OBVIOUS
<1> DEFINE dead == all_objects \ marks
<1>1. /\ heap' = heap \ dead /\ all_objects' = all_objects \ dead
      /\ slot' = [o \in Objects |-> IF o \in dead THEN Bare ELSE slot[o]]
      /\ UNCHANGED <<stack, ret, building, status>>
    BY DEF Sweep
<1>2. marks = Reachable
    BY MarksComplete DEF Sweep, Running
<1>3. heap' = Reachable
    BY <1>1, <1>2, ReachableAlive DEF HeapInv
<1>4. \A o \in heap' : o \in Objects /\ slot'[o] = slot[o]
    BY <1>1 DEF TypeInv, TypeOK
<1>5. StackLive'
    BY <1>1, <1>3, ReachableLaws DEF StackLive, Roots
<1>6. SlotsLive'
    BY <1>3, <1>4, ReachableLaws DEF SlotsLive, Targets
<1>7. \A o \in Objects \ heap' : slot'[o] = Bare
    BY <1>1 DEF HeapInv
<1>8. Bare' = Bare
    BY DEF Bare
<1> QED
    BY <1>1, <1>5, <1>6, <1>7, <1>8 DEF HeapInv, NoDangling

\* So do the steps after the sweep.
LEMMA GrowReturnHeapInv == TypeInv /\ HeapInv /\ (Grow \/ Return) => HeapInv'
<1> SUFFICES ASSUME TypeInv, HeapInv, Grow \/ Return PROVE HeapInv'
    OBVIOUS
<1>1. ret.do \in {"none", "collect"}
    BY DEF HeapInv
<1>2. /\ UNCHANGED <<heap, all_objects, slot, building, stack, status>>
      /\ ret'.do \in {"none", "collect"}
    BY <1>1 DEF Grow, Return, program, NoRet, Ret
<1> QED
    BY <1>2, LiveFacts, LiveAgain

\* So do the operations that only move values on the stack.
LEMMA StackHeapInv ==
    ASSUME TypeInv, HeapInv,
           \/ LoadNil \/ Pop \/ Collect
           \/ \E i \in 1..MaxStack : LoadLocal(i) \/ StoreLocal(i)
           \/ \E s \in Slots : StoreSlot(s) \/ LoadSlot(s)
    PROVE  HeapInv'
<1> DEFINE live(v) == v \in Objects => v \in heap
<1>1. /\ stack \in Seq(Value) /\ Len(stack) \in Nat
      /\ \A i \in 1..Len(stack) : live(stack[i])
      /\ live(Nil)
    BY LiveFacts, StackFacts, ObjectsAssumption
<1>2. \A o \in heap : \A s \in Slots : live(slot[o][s])
    BY LiveFacts
<1>3. ASSUME NEW n \in 0..Len(stack)
      PROVE  /\ Popped(n) \in Seq(Value) /\ Len(Popped(n)) = Len(stack) - n
             /\ \A i \in 1..Len(Popped(n)) : live(Popped(n)[i])
  <2>1. Popped(n) \in Seq(Value) /\ Len(Popped(n)) = Len(stack) - n
      BY StackFacts
  <2>2. \A i \in 1..(Len(stack) - n) : Popped(n)[i] = stack[i]
      BY <1>1, SubSeqProperties DEF Popped
  <2> QED
      BY <1>1, <2>1, <2>2
<1>4. stack # <<>> => 1 \in 0..Len(stack) /\ live(Top)
  <2>1. ASSUME stack # <<>> PROVE 1 \in 0..Len(stack) /\ Len(stack) \in 1..Len(stack)
      BY <1>1, <2>1
  <2>2. ASSUME stack # <<>> PROVE live(Top)
    <3> HIDE DEF live
    <3> QED
        BY <1>1, <2>1, <2>2 DEF Top
  <2> QED
      BY <2>1, <2>2, Zenon
<1> HIDE DEF live
<1>5. ASSUME NEW q \in Seq(Value), \A i \in 1..Len(q) : live(q[i]), NEW v \in Value, live(v)
      PROVE  \A i \in 1..Len(Append(q, v)) : live(Append(q, v)[i])
    BY <1>5
<1>6. ASSUME UNCHANGED <<heap, all_objects, building, slot, status, ret>>,
             \A i \in 1..Len(stack') : live(stack'[i])
      PROVE  HeapInv'
    BY <1>2, <1>6, LiveAgain DEF live, HeapInv
<1>7. Nil \in Value
    OBVIOUS
<1>8. CASE LoadNil
    BY <1>1, <1>5, <1>6, <1>7, <1>8 DEF LoadNil, Quiet
<1>9. CASE Pop
    BY <1>3, <1>4, <1>6, <1>9 DEF Pop, Quiet
<1>10. CASE Collect
  <2>1. /\ ret'.do = "collect"
        /\ UNCHANGED <<heap, all_objects, slot, building, stack, status>>
      BY <1>10 DEF Collect, program, Ret
  <2> QED
      BY <2>1, LiveFacts, LiveAgain
<1>11. ASSUME NEW i \in 1..MaxStack, LoadLocal(i) PROVE HeapInv'
  <2>1. i \in 1..Len(stack) /\ stack' = Append(stack, stack[i])
      BY <1>11 DEF LoadLocal
  <2>2. stack[i] \in Value /\ live(stack[i])
      BY <1>1, <2>1
  <2>3. \A j \in 1..Len(stack') : live(stack'[j])
      BY <1>1, <1>5, <2>1, <2>2
  <2> QED
      BY <1>6, <1>11, <2>3 DEF LoadLocal, Quiet
<1>12. ASSUME NEW i \in 1..MaxStack, StoreLocal(i) PROVE HeapInv'
  <2>1. i \in 1..(Len(stack) - 1) /\ stack' = [Popped(1) EXCEPT ![i] = Top] /\ stack # <<>>
      BY <1>1, <1>12 DEF StoreLocal
  <2>2. live(Top) /\ Popped(1) \in Seq(Value) /\ \A j \in 1..Len(Popped(1)) : live(Popped(1)[j])
      BY <1>3, <1>4, <2>1
  <2>3. \A j \in 1..Len(stack') : live(stack'[j])
      BY <2>1, <2>2
  <2> QED
      BY <1>6, <1>12, <2>3 DEF StoreLocal, Quiet
<1>13. ASSUME NEW s \in Slots, LoadSlot(s) PROVE HeapInv'
  <2>1. /\ stack # <<>> /\ Top \in Objects /\ stack' = Append(Popped(1), slot[Top][s])
        /\ UNCHANGED <<heap, all_objects, building, slot, ret>> /\ Deref(Top)
      BY <1>13 DEF LoadSlot, Quiet
  <2>2. Top \in heap
      BY <2>1, LiveFacts
  <2>3. live(slot[Top][s]) /\ slot[Top][s] \in Value
      BY <1>2, <2>1, <2>2, KeptType
  <2>4. Popped(1) \in Seq(Value) /\ \A j \in 1..Len(Popped(1)) : live(Popped(1)[j])
      BY <1>3, <1>4, <2>1
  <2>5. \A j \in 1..Len(stack') : live(stack'[j])
      BY <1>5, <2>1, <2>3, <2>4
  <2>6. status' = status
      BY <2>1, <2>2 DEF Deref
  <2> QED
      BY <1>6, <2>1, <2>5, <2>6
<1>14. ASSUME NEW s \in Slots, StoreSlot(s) PROVE HeapInv'
  <2>1. /\ Len(stack) >= 2 /\ UNCHANGED <<heap, all_objects, building, ret>>
        /\ stack' = Popped(2) \/ stack' = Append(Popped(2), Nil)
      BY <1>14 DEF StoreSlot, Quiet
  <2>2. /\ 2 \in 0..Len(stack) /\ Len(stack) - 1 \in 1..Len(stack)
        /\ Len(stack) \in 1..Len(stack)
      BY <1>1, <2>1
  <2>3. PICK this \in Objects, val \in Value :
          /\ slot' = [slot EXCEPT ![this][s] = val] /\ Deref(this)
          /\ live(this) /\ live(val)
    <3>1. /\ Top \in Value /\ stack[Len(stack) - 1] \in Value
          /\ live(Top) /\ live(stack[Len(stack) - 1])
        BY <1>1, <2>2 DEF Top
    <3> QED
        BY <1>14, <3>1 DEF StoreSlot
  <2>4. status' = status /\ this \in heap
      BY <2>3 DEF Deref, live
  <2>5. \A j \in 1..Len(stack') : live(stack'[j])
    <3>1. Popped(2) \in Seq(Value) /\ \A j \in 1..Len(Popped(2)) : live(Popped(2)[j])
        BY <1>3, <2>2
    <3> QED
        BY <1>1, <1>5, <1>7, <2>1, <3>1
  <2>6. \A o \in heap : \A t \in Slots : live(slot'[o][t])
      BY <1>2, <2>3, KeptType
  <2>7. \A o \in Objects \ heap : slot'[o] = slot[o]
      BY <2>3, <2>4, KeptType
  <2> QED
      BY <2>1, <2>4, <2>5, <2>6, <2>7, LiveAgain DEF live, HeapInv
<1> QED
    BY <1>8, <1>9, <1>10, <1>11, <1>12, <1>13, <1>14

\* Where a new object and what its slots hold come from.
LEMMA NewFacts ==
    ASSUME TypeInv, HeapInv, NEW o \in Objects,
           NewObj(o) \/ \E n \in 0..MaxStack : NewArr(o, n)
    PROVE  /\ heap' = heap \cup {o} /\ o \notin heap
           /\ all_objects' = all_objects \cup {o}
           /\ UNCHANGED <<building, status>> /\ ret'.do = "none"
           /\ \E n \in 0..Len(stack) :
                /\ stack' = Append(Popped(n), o)
                /\ \A t \in Objects \ {o} : slot'[t] = slot[t]
                /\ \A s \in Slots : slot'[o][s] \in Objects =>
                     \E i \in 1..Len(stack) : slot'[o][s] = stack[i]
<1>1. /\ heap' = heap \cup {o} /\ o \notin heap /\ all_objects' = all_objects \cup {o}
      /\ UNCHANGED <<building, status>> /\ ret'.do = "none"
    BY DEF NewObj, NewArr, AddObject, NoRet, Ret, program
<1>2. \E n \in 0..Len(stack) :
        /\ stack' = Append(Popped(n), o)
        /\ \A t \in Objects \ {o} : slot'[t] = slot[t]
        /\ \A s \in Slots : slot'[o][s] \in Objects =>
             \E i \in 1..Len(stack) : slot'[o][s] = stack[i]
  <2>1. CASE NewObj(o)
    <3>1. /\ stack' = Append(stack, o) /\ slot' = slot /\ slot[o] = Bare
        BY <1>1, <2>1 DEF NewObj, program, HeapInv
    <3>2. Popped(0) = stack
        BY StackFacts, SubSeqFull DEF Popped
    <3>3. \A s \in Slots : slot'[o][s] \notin Objects
        BY <3>1, ObjectsAssumption DEF Bare
    <3>4. 0 \in 0..Len(stack)
        BY StackFacts
    <3> QED
        BY <3>1, <3>2, <3>3, <3>4
  <2>2. ASSUME NEW n \in 0..MaxStack, NewArr(o, n) PROVE n \in 0..Len(stack) /\
             /\ stack' = Append(Popped(n), o)
             /\ \A t \in Objects \ {o} : slot'[t] = slot[t]
             /\ \A s \in Slots : slot'[o][s] \in Objects =>
                  \E i \in 1..Len(stack) : slot'[o][s] = stack[i]
    <3>1. /\ stack' = Append(Popped(n), o) /\ n \in 0..Len(stack)
          /\ slot' = [slot EXCEPT ![o] =
                        [s \in Slots |-> IF s \in 1..n THEN stack[Len(stack) + 1 - s]
                                         ELSE Nil]]
        BY <2>2 DEF NewArr
    <3>2. ASSUME NEW s \in Slots, slot'[o][s] \in Objects
          PROVE  \E i \in 1..Len(stack) : slot'[o][s] = stack[i]
      <4>1. slot'[o][s] = IF s \in 1..n THEN stack[Len(stack) + 1 - s] ELSE Nil
          BY <3>1, KeptType
      <4>2. s \in 1..n /\ slot'[o][s] = stack[Len(stack) + 1 - s]
          BY <3>2, <4>1, ObjectsAssumption
      <4>3. Len(stack) + 1 - s \in 1..Len(stack)
          BY <3>1, <4>2, StackFacts
      <4> QED
          BY <4>2, <4>3
    <3>3. \A t \in Objects \ {o} : slot'[t] = slot[t]
        BY <3>1, KeptType
    <3> QED
        BY <3>1, <3>2, <3>3
  <2> QED
      BY <2>1, <2>2
<1> QED
    BY <1>1, <1>2

\* A new object is on the stack before it is registered, so it is a root.
LEMMA NewHeapInv ==
    ASSUME TypeInv, HeapInv, NEW o \in Objects,
           NewObj(o) \/ \E n \in 0..MaxStack : NewArr(o, n)
    PROVE  HeapInv'
<1>1. /\ heap' = heap \cup {o} /\ o \notin heap /\ all_objects' = all_objects \cup {o}
      /\ UNCHANGED <<building, status>> /\ ret'.do = "none"
    BY NewFacts
<1>2. PICK n \in 0..Len(stack) :
        /\ stack' = Append(Popped(n), o)
        /\ \A t \in Objects \ {o} : slot'[t] = slot[t]
        /\ \A s \in Slots : slot'[o][s] \in Objects =>
             \E i \in 1..Len(stack) : slot'[o][s] = stack[i]
    BY NewFacts
<1>3. \A i \in 1..Len(stack') : stack'[i] \in Objects => stack'[i] \in heap'
  <2>1. /\ Popped(n) \in Seq(Value) /\ Len(Popped(n)) = Len(stack) - n
        /\ Len(stack) \in Nat
      BY StackFacts
  <2>2. \A i \in 1..Len(Popped(n)) : Popped(n)[i] = stack[i] /\ i \in 1..Len(stack)
      BY <2>1, StackFacts, SubSeqProperties DEF Popped
  <2>3. \A i \in 1..Len(Popped(n)) : Popped(n)[i] \in Objects => Popped(n)[i] \in heap
      BY <2>2, LiveFacts
  <2> QED
      BY <1>1, <1>2, <2>1, <2>3
<1>4. \A t \in heap' : \A s \in Slots : slot'[t][s] \in Objects => slot'[t][s] \in heap'
    BY <1>1, <1>2, LiveFacts, KeptType
<1>5. \A t \in Objects \ heap' : slot'[t] = Bare
    BY <1>1, <1>2 DEF HeapInv
<1>6. StackLive' /\ SlotsLive' /\ Bare' = Bare
    BY <1>3, <1>4 DEF StackLive, SlotsLive, Roots, Targets, Bare
<1> QED
    BY <1>1, <1>5, <1>6 DEF HeapInv, NoDangling

\* For programs made of StackOps the heap invariant holds in every state.
LEMMA HeapInvariant ==
    ASSUME Ops \subseteq StackOps
    PROVE  Spec => [](TypeInv /\ MarkInv /\ HeapInv)
<1>1. Init => HeapInv
    BY DEF Init, HeapInv, NoDangling, StackLive, SlotsLive, Roots, NoRet, Ret
<1>2. TypeInv /\ MarkInv /\ HeapInv /\ [Next]_vars => HeapInv'
  <2> SUFFICES ASSUME TypeInv, MarkInv, HeapInv, [Next]_vars PROVE HeapInv'
      OBVIOUS
  <2>1. CASE Collector
      BY <2>1, MarkHeapInv, SweepHeapInv, GrowReturnHeapInv DEF Collector
  <2>2. CASE Mutator
      BY <2>2, SafeSteps, StackHeapInv, NewHeapInv
  <2>3. CASE UNCHANGED vars
      BY <2>3, LiveFacts, LiveAgain DEF vars, program, HeapInv
  <2> QED
      BY <2>1, <2>2, <2>3 DEF Next
<1> QED
    BY MarkInvariant, <1>1, <1>2, PTL DEF Spec

\* A program that keeps its objects on the VM stack and in slots never meets a
\* deleted object, whatever it allocates and whenever a collection happens.
THEOREM NoDanglingRefs ==
    ASSUME Ops \subseteq StackOps
    PROVE  Spec => []NoDangling
<1>1. HeapInv => NoDangling
    BY DEF HeapInv
<1> QED
    BY HeapInvariant, <1>1, PTL

(***************************************************************************)
(* The collector keeps the promise of HeapSpec: marking, growing and       *)
(* returning are invisible, a sweep is a Reclaim, an operation a Program   *)
(* step.                                                                   *)
(***************************************************************************)
LEMMA PromiseReachable == Promise!Reachable = Reachable
<1>1. ASSUME NEW S \in SUBSET Objects PROVE Promise!Closed(S) <=> Closed(S)
    BY DEF Promise!Closed, Closed
<1> QED
    BY <1>1 DEF Promise!Reachable, Reachable

\* The empty VM is an initial state of the abstract heap.
LEMMA PromiseInit == Init => Promise!Init
BY ObjectsAssumption DEF Init, Promise!Init, Roots, Targets, Bare

\* A step that touches neither the heap, the stack nor the slots is invisible.
LEMMA PromiseStutter ==
    ASSUME heap' = heap, stack' = stack, slot' = slot
    PROVE  UNCHANGED Promise!vars
BY DEF Promise!vars, Roots, Targets

\* A sweep is one Reclaim of the abstract heap.
LEMMA PromiseSweep ==
    ASSUME TypeInv, MarkInv, HeapInv, Sweep
    PROVE  Promise!Reclaim
<1>1. /\ heap' = heap \ (all_objects \ marks) /\ stack' = stack
      /\ slot' = [o \in Objects |-> IF o \in all_objects \ marks THEN Bare ELSE slot[o]]
    BY DEF Sweep
<1>2. marks = Reachable /\ all_objects = heap
    BY MarksComplete DEF Sweep, Running, HeapInv
<1>3. heap' = heap \cap Reachable
    BY <1>1, <1>2, ReachableAlive DEF HeapInv
<1>4. Roots' = Roots
    BY <1>1 DEF Roots
<1>5. ASSUME NEW o \in Objects
      PROVE  Targets(o)' = IF o \in heap' THEN Targets(o) ELSE {}
  <2>1. CASE o \in heap'
      BY <1>1, <1>2, <1>3, <2>1 DEF Targets
  <2>2. CASE o \notin heap'
    <3>1. slot'[o] = Bare
        BY <1>1, <1>2, <1>3, <2>2 DEF HeapInv
    <3> QED
        BY <2>2, <3>1, ObjectsAssumption DEF Targets, Bare
  <2> QED
      BY <2>1, <2>2
<1> QED
    BY <1>3, <1>4, <1>5, PromiseReachable DEF Promise!Reclaim

\* Values an operation leaves on the stack or in slots were reachable or are new.
LEMMA PromiseProgram ==
    ASSUME TypeInv, HeapInv, NEW new \in SUBSET (Objects \ heap), heap' = heap \cup new,
           \A i \in 1..Len(stack') : stack'[i] \in Objects =>
             stack'[i] \in Reachable \cup new,
           \A o \in Objects : \A s \in Slots : slot'[o][s] \in Objects =>
             \/ slot'[o][s] \in Targets(o)
             \/ o \in Reachable \cup new /\ slot'[o][s] \in Reachable \cup new
    PROVE  Promise!Program
<1>1. Roots' \subseteq Reachable \cup new
    BY DEF Roots
<1>2. ASSUME NEW o \in Objects
      PROVE  Targets(o)' \subseteq Targets(o) \cup (IF o \in Reachable \cup new
                                                  THEN Reachable \cup new ELSE {})
    BY DEF Targets
<1> QED
    BY <1>1, <1>2, PromiseReachable DEF Promise!Program

\* What is on the stack is reachable, and so is what its slots hold.
LEMMA ReachFacts ==
    ASSUME TypeInv
    PROVE  /\ \A i \in 1..Len(stack) : stack[i] \in Objects => stack[i] \in Reachable
           /\ \A o \in Reachable : \A s \in Slots :
                slot[o][s] \in Objects => slot[o][s] \in Reachable
           /\ \A n \in 0..Len(stack) :
                /\ Popped(n) \in Seq(Value) /\ Len(Popped(n)) = Len(stack) - n
                /\ \A i \in 1..Len(Popped(n)) : Popped(n)[i] = stack[i] /\ i \in 1..Len(stack)
<1>1. \A i \in 1..Len(stack) : stack[i] \in Objects => stack[i] \in Reachable
    BY ReachableLaws DEF Roots
<1>2. \A o \in Reachable : \A s \in Slots :
        slot[o][s] \in Objects => slot[o][s] \in Reachable
    BY ReachableLaws DEF Targets
<1>3. ASSUME NEW n \in 0..Len(stack)
      PROVE  /\ Popped(n) \in Seq(Value) /\ Len(Popped(n)) = Len(stack) - n
             /\ \A i \in 1..Len(Popped(n)) : Popped(n)[i] = stack[i] /\ i \in 1..Len(stack)
  <2>1. Popped(n) \in Seq(Value) /\ Len(Popped(n)) = Len(stack) - n
      BY StackFacts
  <2>2. \A i \in 1..(Len(stack) - n) : Popped(n)[i] = stack[i]
      BY StackFacts, SubSeqProperties DEF Popped
  <2> QED
      BY <2>1, <2>2, StackFacts
<1> QED
    BY <1>1, <1>2, <1>3

\* A step that puts only reachable values on the stack is a Program step.
LEMMA PromiseStackStep ==
    ASSUME TypeInv, HeapInv, UNCHANGED <<heap, slot>>,
           \A i \in 1..Len(stack') : stack'[i] \in Objects => stack'[i] \in Reachable
    PROVE  Promise!Program
<1>1. \A o \in Objects : \A s \in Slots :
        slot'[o][s] \in Objects => slot'[o][s] \in Targets(o)
    BY DEF Targets
<1>2. {} \in SUBSET (Objects \ heap) /\ heap' = heap \cup {}
    OBVIOUS
<1> QED
    BY <1>1, <1>2, PromiseProgram

\* So are the operations that only move values on the stack.
LEMMA PromiseStack ==
    ASSUME TypeInv, HeapInv,
           \/ LoadNil \/ Pop
           \/ \E i \in 1..MaxStack : LoadLocal(i) \/ StoreLocal(i)
           \/ \E s \in Slots : LoadSlot(s)
    PROVE  Promise!Program
<1> DEFINE known(v) == v \in Objects => v \in Reachable
<1>1. /\ stack \in Seq(Value) /\ Len(stack) \in Nat
      /\ \A i \in 1..Len(stack) : known(stack[i]) /\ stack[i] \in Value
      /\ known(Nil) /\ Nil \in Value
    BY ReachFacts, StackFacts, ObjectsAssumption
<1>2. stack # <<>> => /\ Popped(1) \in Seq(Value) /\ Len(Popped(1)) = Len(stack) - 1
                      /\ \A i \in 1..Len(Popped(1)) : known(Popped(1)[i])
                      /\ known(Top) /\ Top \in Value
  <2>1. stack # <<>> => 1 \in 0..Len(stack) /\ Len(stack) \in 1..Len(stack)
      BY StackFacts
  <2> QED
      BY <1>1, <2>1, ReachFacts DEF Top
<1>3. stack # <<>> /\ Top \in Objects =>
        \A s \in Slots : known(slot[Top][s]) /\ slot[Top][s] \in Value
    BY <1>2, ReachFacts, KeptType
<1> HIDE DEF known
<1>4. ASSUME NEW q \in Seq(Value), \A i \in 1..Len(q) : known(q[i]), NEW v \in Value, known(v)
      PROVE  \A i \in 1..Len(Append(q, v)) : known(Append(q, v)[i])
    BY <1>4
<1>5. \A i \in 1..Len(stack') : known(stack'[i])
  <2>1. CASE LoadNil
      BY <1>1, <1>4, <2>1 DEF LoadNil
  <2>2. CASE Pop
      BY <1>2, <2>2 DEF Pop
  <2>3. ASSUME NEW i \in 1..MaxStack, LoadLocal(i)
        PROVE  \A j \in 1..Len(stack') : known(stack'[j])
    <3>1. i \in 1..Len(stack) /\ stack' = Append(stack, stack[i])
        BY <2>3 DEF LoadLocal
    <3> QED
        BY <1>1, <1>4, <3>1
  <2>4. ASSUME NEW i \in 1..MaxStack, StoreLocal(i)
        PROVE  \A j \in 1..Len(stack') : known(stack'[j])
    <3>1. /\ i \in 1..(Len(stack) - 1) /\ stack' = [Popped(1) EXCEPT ![i] = Top]
          /\ stack # <<>>
        BY <1>1, <2>4 DEF StoreLocal
    <3> QED
        BY <1>2, <3>1
  <2>5. ASSUME NEW s \in Slots, LoadSlot(s)
        PROVE  \A j \in 1..Len(stack') : known(stack'[j])
    <3>1. /\ stack # <<>> /\ Top \in Objects /\ stack' = Append(Popped(1), slot[Top][s])
        BY <2>5 DEF LoadSlot
    <3>2. known(slot[Top][s]) /\ slot[Top][s] \in Value
        BY <1>3, <3>1
    <3> QED
        BY <1>2, <1>4, <3>1, <3>2
  <2> QED
      BY <2>1, <2>2, <2>3, <2>4, <2>5
<1>6. UNCHANGED <<heap, slot>>
    BY DEF LoadNil, Pop, LoadLocal, StoreLocal, LoadSlot, Quiet
<1> QED
    BY <1>5, <1>6, PromiseStackStep DEF known

\* So is storing a reference in a property or an element.
LEMMA PromiseStore ==
    ASSUME TypeInv, HeapInv, NEW s \in Slots, StoreSlot(s)
    PROVE  Promise!Program
<1>1. /\ Len(stack) >= 2 /\ heap' = heap
      /\ stack' = Popped(2) \/ stack' = Append(Popped(2), Nil)
    BY DEF StoreSlot, Quiet
<1>2. /\ 2 \in 0..Len(stack) /\ Len(stack) - 1 \in 1..Len(stack)
      /\ Len(stack) \in 1..Len(stack)
    BY <1>1, StackFacts
<1>3. PICK this \in Objects, val \in Value :
        /\ slot' = [slot EXCEPT ![this][s] = val]
        /\ this \in Reachable /\ (val \in Objects => val \in Reachable)
  <2>1. /\ Top \in Value /\ stack[Len(stack) - 1] \in Value
        /\ Top \in Objects => Top \in Reachable
        /\ stack[Len(stack) - 1] \in Objects => stack[Len(stack) - 1] \in Reachable
      BY <1>2, ReachFacts, StackFacts DEF Top
  <2> QED
      BY <2>1 DEF StoreSlot
<1>4. \A i \in 1..Len(stack') : stack'[i] \in Objects => stack'[i] \in Reachable
  <2>1. /\ Popped(2) \in Seq(Value)
        /\ \A i \in 1..Len(Popped(2)) : Popped(2)[i] \in Objects => Popped(2)[i] \in Reachable
      BY <1>2, ReachFacts
  <2> QED
      BY <1>1, <2>1, ObjectsAssumption
<1>5. \A o \in Objects : \A t \in Slots : slot'[o][t] \in Objects =>
        \/ slot'[o][t] \in Targets(o)
        \/ o \in Reachable /\ slot'[o][t] \in Reachable
    BY <1>3, KeptType DEF Targets
<1>6. {} \in SUBSET (Objects \ heap) /\ heap' = heap \cup {} /\ Reachable \cup {} = Reachable
    BY <1>1
<1> QED
    BY <1>4, <1>5, <1>6, PromiseProgram

\* So is allocating an object or a container.
LEMMA PromiseNew ==
    ASSUME TypeInv, HeapInv, NEW o \in Objects,
           NewObj(o) \/ \E n \in 0..MaxStack : NewArr(o, n)
    PROVE  Promise!Program
<1>1. PICK n \in 0..Len(stack) :
        /\ stack' = Append(Popped(n), o)
        /\ \A t \in Objects \ {o} : slot'[t] = slot[t]
        /\ \A s \in Slots : slot'[o][s] \in Objects =>
             \E i \in 1..Len(stack) : slot'[o][s] = stack[i]
    BY NewFacts
<1>2. {o} \in SUBSET (Objects \ heap) /\ heap' = heap \cup {o}
    BY NewFacts
<1>3. \A i \in 1..Len(stack') : stack'[i] \in Objects => stack'[i] \in Reachable \cup {o}
  <2>1. /\ Popped(n) \in Seq(Value)
        /\ \A i \in 1..Len(Popped(n)) : Popped(n)[i] = stack[i] /\ i \in 1..Len(stack)
      BY ReachFacts
  <2>2. \A i \in 1..Len(Popped(n)) : Popped(n)[i] \in Objects => Popped(n)[i] \in Reachable
      BY <2>1, ReachFacts
  <2> QED
      BY <1>1, <2>1, <2>2
<1>4. \A t \in Objects : \A s \in Slots : slot'[t][s] \in Objects =>
        \/ slot'[t][s] \in Targets(t)
        \/ t \in Reachable \cup {o} /\ slot'[t][s] \in Reachable \cup {o}
  <2>1. ASSUME NEW t \in Objects \ {o}, NEW s \in Slots, slot'[t][s] \in Objects
        PROVE  slot'[t][s] \in Targets(t)
      BY <1>1, <2>1 DEF Targets
  <2>2. ASSUME NEW s \in Slots, slot'[o][s] \in Objects
        PROVE  slot'[o][s] \in Reachable
      BY <1>1, <2>2, ReachFacts
  <2> QED
      BY <2>1, <2>2
<1> QED
    BY <1>2, <1>3, <1>4, PromiseProgram

\* A program that keeps its objects on the VM stack and in slots sees the heap
\* of HeapSpec: exactly the unreachable objects disappear, only at collections,
\* and references never come from nowhere.
THEOREM KeepsPromise ==
    ASSUME Ops \subseteq StackOps
    PROVE  Spec => HeapPromise
<1>1. TypeInv /\ MarkInv /\ HeapInv /\ [Next]_vars => [Promise!Next]_(Promise!vars)
  <2> SUFFICES ASSUME TypeInv, MarkInv, HeapInv, [Next]_vars
               PROVE  [Promise!Next]_(Promise!vars)
      OBVIOUS
  <2>1. CASE \/ MarkRoot \/ MarkReturn \/ Grow \/ Collect \/ UNCHANGED vars
             \/ \E k \in PropKeys : MarkProperty(k)
             \/ \E e \in ElemSlots : MarkElement(e)
    <3>1. heap' = heap /\ stack' = stack /\ slot' = slot
        BY <2>1 DEF MarkRoot, MarkReturn, Grow, Collect, MarkProperty, MarkElement, vars,
             program
    <3> QED
        BY <3>1, PromiseStutter
  <2>2. CASE Return
    <3>1. ret.do \in {"none", "collect"}
        BY DEF HeapInv
    <3>2. heap' = heap /\ stack' = stack /\ slot' = slot
        BY <2>2, <3>1 DEF Return
    <3> QED
        BY <3>2, PromiseStutter
  <2>3. CASE Sweep
      BY <2>3, PromiseSweep DEF Promise!Next
  <2>4. CASE Mutator
      BY <2>1, <2>4, SafeSteps, PromiseStack, PromiseStore, PromiseNew DEF Promise!Next
  <2> QED
      BY <2>1, <2>2, <2>3, <2>4 DEF Next, Collector
<1> QED
    BY HeapInvariant, PromiseInit, <1>1, PTL DEF Spec, HeapPromise, Promise!Spec


(***************************************************************************)
(* The threshold.  While a collection is under way there may be one object *)
(* more than it, the one whose registration started the collection; only   *)
(* gc.collect() starts one without registering.                            *)
(***************************************************************************)
Within(count, next) == count <= next \/ Overflows(next)
OneOver(count, next) == count <= next + 1 \/ Overflows(next)

RoomInv ==
    status = "ok" /\ force_no_gc = 0 =>
        /\ phase \in {"idle", "return"} => Within(Cardinality(all_objects), next_collect)
        /\ phase \in {"mark", "grow"} => OneOver(Cardinality(all_objects), next_collect)
        /\ phase = "mark" /\ ret.do = "collect" =>
             Within(Cardinality(all_objects), next_collect)

\* The number of registered objects is a natural, and a subset has no more.
LEMMA Counting ==
    ASSUME TypeInv
    PROVE  /\ Cardinality(all_objects) \in Nat
           /\ \A S \in SUBSET all_objects : /\ Cardinality(S) \in Nat
                                            /\ Cardinality(S) <= Cardinality(all_objects)
           /\ \A o \in Objects : /\ Cardinality(all_objects \cup {o}) \in Nat
                                 /\ Cardinality(all_objects \cup {o})
                                      <= Cardinality(all_objects) + 1
           /\ next_collect \in Nat /\ GrowSize \in Nat \ {0} /\ MaxThreshold \in Nat
<1>1. IsFiniteSet(all_objects)
    BY ObjectsAssumption, FS_Subset DEF TypeInv, TypeOK
<1>2. Cardinality(all_objects) \in Nat
    BY <1>1, FS_CardinalityType
<1>3. ASSUME NEW S \in SUBSET all_objects
      PROVE  Cardinality(S) \in Nat /\ Cardinality(S) <= Cardinality(all_objects)
    BY <1>1, FS_Subset, FS_CardinalityType
<1>4. ASSUME NEW o \in Objects
      PROVE  /\ Cardinality(all_objects \cup {o}) \in Nat
             /\ Cardinality(all_objects \cup {o}) <= Cardinality(all_objects) + 1
  <2>1. Cardinality(all_objects \cup {o}) =
          IF o \in all_objects THEN Cardinality(all_objects) ELSE Cardinality(all_objects) + 1
      BY <1>1, FS_AddElement
  <2> QED
      BY <1>2, <2>1
<1> QED
    BY <1>2, <1>3, <1>4, NumbersAssumption, KeptType

\* A threshold that shrinks stays above the objects that are left.
LEMMA ShrinkLeavesRoom ==
    ASSUME NEW c \in Nat, NEW n \in Nat, 2 * n >= 5 * c
    PROVE  c <= (4 * n) \div 5
BY Z3

\* What shrink_if_possible does to either bound.
LEMMA ShrunkWithin ==
    ASSUME NEW c \in Nat, NEW n \in Nat
    PROVE  /\ Within(c, n) => Within(c, Shrunk(c, n))
           /\ OneOver(c, n) => OneOver(c, Shrunk(c, n))
<1>1. CASE 2 * n < 5 * c
    BY <1>1 DEF Shrunk
<1>2. CASE ~(2 * n < 5 * c)
  <2>1. Shrunk(c, n) = (4 * n) \div 5 /\ c <= (4 * n) \div 5
      BY <1>2, ShrinkLeavesRoom DEF Shrunk
  <2>2. (4 * n) \div 5 \in Nat
      BY DivNat
  <2> QED
      BY <2>1, <2>2 DEF Within, OneOver
<1> QED
    BY <1>1, <1>2

\* Fewer objects are within the same bounds.
LEMMA FewerWithin ==
    ASSUME NEW c \in Nat, NEW d \in Nat, d <= c, NEW n \in Nat
    PROVE  /\ Within(c, n) => Within(d, n)
           /\ OneOver(c, n) => OneOver(d, n)
           /\ Within(c, n) => OneOver(c, n)
BY DEF Within, OneOver

\* end_no_gc: the threshold that fits leaves room for one object more.
LEMMA FitLeavesRoom ==
    ASSUME NEW c \in Nat, NEW n \in Nat
    PROVE  GrownToFit(c, n) \in Nat /\ c + 1 <= GrownToFit(c, n)
<1>1. CASE Fits(c, n)
    BY <1>1 DEF Fits, GrownToFit
<1>2. CASE ~Fits(c, n)
  <2> DEFINE lack == 11 * c - 10 * n
             q == lack \div (10 * GrowSize)
             grown == GrowSize * (q + 1)
  <2>1. lack \in Nat /\ 10 * GrowSize \in Nat \ {0} /\ GrowSize \in Nat \ {0}
      BY <1>2, NumbersAssumption DEF Fits
  <2>2. q \in Nat
      BY <2>1, DivNat
  <2>3. lack < (10 * GrowSize) * (q + 1)
    <3> HIDE DEF lack
    <3>1. \A a \in Nat, b \in Nat \ {0} : a < b * (a \div b) + b
        BY Z3
    <3>2. \A b \in Nat, k \in Nat : b * (k + 1) = b * k + b
        BY Z3
    <3>3. lack < (10 * GrowSize) * q + 10 * GrowSize
        BY <2>1, <3>1
    <3> HIDE DEF q
    <3> QED
        BY <2>1, <2>2, <3>2, <3>3, Zenon
  <2>4. (10 * GrowSize) * (q + 1) = 10 * grown /\ grown \in Nat
    <3> HIDE DEF q
    <3>1. \A a, b \in Nat : (10 * a) * b = 10 * (a * b) /\ a * b \in Nat
        BY Z3
    <3>2. q + 1 \in Nat
        BY <2>2
    <3> QED
        BY <2>1, <3>1, <3>2
  <2>5. GrownToFit(c, n) = n + grown
      BY <1>2 DEF GrownToFit
  <2> HIDE DEF q, grown
  <2> QED
      BY <2>3, <2>4, <2>5, <2>1
<1> QED
    BY <1>1, <1>2

\* A threshold that has saturated cannot grow.
LEMMA SaturatedStuck == TypeInv => Overflows(Saturated)
<1> SUFFICES ASSUME TypeInv PROVE Overflows(Saturated)
    OBVIOUS
<1> DEFINE room == MaxThreshold - next_collect
<1>1. room \in Nat /\ next_collect \in Nat /\ MaxThreshold \in Nat /\ GrowSize \in Nat \ {0}
    BY NumbersAssumption DEF TypeInv, TypeOK
<1>2. \A a \in Nat, b \in Nat \ {0} : a < b * (a \div b) + b /\ b * (a \div b) \in Nat
    BY Z3
<1>3. room < GrowSize * (room \div GrowSize) + GrowSize /\ GrowSize * (room \div GrowSize) \in Nat
    BY <1>1, <1>2
<1> DEFINE step == GrowSize * (room \div GrowSize)
<1>4. Saturated = next_collect + step
    BY DEF Saturated
<1> HIDE DEF step
<1>5. room < step + GrowSize /\ step \in Nat
    BY <1>3 DEF step
<1> QED
    BY <1>1, <1>4, <1>5 DEF Overflows

\* Steps that leave the collector's books alone keep the bound.
LEMMA RoomSame ==
    ASSUME RoomInv, UNCHANGED <<all_objects, next_collect, force_no_gc>>,
           status' = "ok" => status = "ok",
           phase' \in {"idle", "return"} => phase \in {"idle", "return"},
           phase' \in {"mark", "grow"} => phase \in {"mark", "grow"},
           phase' = "mark" => phase = "mark" /\ ret' = ret
    PROVE  RoomInv'
BY DEF RoomInv, Within, OneOver, Overflows

\* Registering an object of one's own keeps it.
LEMMA RoomAlloc ==
    ASSUME TypeInv, NEW o \in Objects, NEW g \in Nat, NEW n \in Nat, NEW r,
           AddObject(o, g, n, r), r.do # "collect",
           force_no_gc' = g, next_collect' = n,
           status' = "ok" /\ g = 0 => Within(Cardinality(all_objects), n)
    PROVE  RoomInv'
<1> DEFINE c == Cardinality(all_objects)
           d == Cardinality(all_objects \cup {o})
<1>1. c \in Nat /\ d \in Nat /\ d <= c + 1
    BY Counting
<1>2. all_objects' = all_objects \cup {o} /\ ret' = r
    BY DEF AddObject
<1>3. SUFFICES ASSUME status' = "ok", g = 0 PROVE RoomInv'
    BY DEF RoomInv
<1>4. Within(c, n)
    BY <1>3
<1>5. CASE d >= n
  <2>1. phase' = "mark" /\ OneOver(d, n)
      BY <1>1, <1>3, <1>4, <1>5 DEF AddObject, StartMarking, Within, OneOver
  <2> QED
      BY <1>2, <2>1 DEF RoomInv, OneOver, Overflows
<1>6. CASE ~(d >= n)
  <2>1. phase' = "return" /\ Within(d, n)
      BY <1>1, <1>3, <1>6 DEF AddObject, Within
  <2> QED
      BY <1>2, <2>1 DEF RoomInv, Within, Overflows
<1> QED
    BY <1>5, <1>6

\* Sweeping and shrinking keep it.
LEMMA SweepRoom == TypeInv /\ RoomInv /\ Sweep => RoomInv'
<1> SUFFICES ASSUME TypeInv, RoomInv, Sweep PROVE RoomInv'
    OBVIOUS
<1> DEFINE left == all_objects \ (all_objects \ marks)
           c == Cardinality(all_objects)
           d == Cardinality(left)
<1>1. c \in Nat /\ d \in Nat /\ d <= c /\ next_collect \in Nat
    BY Counting
<1>2. /\ all_objects' = left /\ next_collect' = Shrunk(d, next_collect)
      /\ phase = "mark" /\ phase' = IF ret.do = "collect" THEN "return" ELSE "grow"
      /\ UNCHANGED <<force_no_gc, ret, status>>
    BY DEF Sweep, Running
<1> HIDE DEF left
<1>3. SUFFICES ASSUME status = "ok", force_no_gc = 0 PROVE RoomInv'
    BY <1>2 DEF RoomInv
<1>4. OneOver(d, Shrunk(d, next_collect))
    BY <1>1, <1>2, <1>3, FewerWithin, ShrunkWithin DEF RoomInv
<1>5. ret.do = "collect" => Within(d, Shrunk(d, next_collect))
    BY <1>1, <1>2, <1>3, FewerWithin, ShrunkWithin DEF RoomInv
<1> QED
    BY <1>2, <1>4, <1>5 DEF RoomInv, Within, OneOver, Overflows

\* Growing ends within the threshold, if it can grow.
LEMMA GrowRoom == TypeInv /\ RoomInv /\ Grow => RoomInv'
<1> SUFFICES ASSUME TypeInv, RoomInv, Grow PROVE RoomInv'
    OBVIOUS
<1> DEFINE c == Cardinality(all_objects)
<1>1. c \in Nat /\ next_collect \in Nat /\ GrowSize \in Nat \ {0} /\ MaxThreshold \in Nat
    BY Counting
<1>2. /\ UNCHANGED <<all_objects, force_no_gc, status>> /\ phase = "grow" /\ phase' = "return"
      /\ next_collect' = IF Crowded(c, next_collect) /\ ~Overflows(next_collect)
                         THEN next_collect + GrowSize ELSE next_collect
    BY DEF Grow, Running
<1>3. SUFFICES ASSUME status = "ok", force_no_gc = 0 PROVE RoomInv'
    BY <1>2 DEF RoomInv
<1>4. OneOver(c, next_collect)
    BY <1>2, <1>3 DEF RoomInv
<1>5. Within(c, next_collect')
    BY <1>1, <1>2, <1>4 DEF Within, OneOver, Crowded, Overflows
<1> QED
    BY <1>2, <1>5 DEF RoomInv, Within, Overflows

\* Releasing the last guard grows the threshold until everything fits.
LEMMA BuildEndRoom == TypeInv /\ RoomInv /\ BuildEnd => RoomInv'
<1> SUFFICES ASSUME TypeInv, RoomInv, BuildEnd PROVE RoomInv'
    OBVIOUS
<1> DEFINE next == IF Guarded THEN Wanted(force_no_gc') ELSE next_collect
           c == Cardinality(all_objects)
<1>1. /\ phase = "idle" /\ building \in Objects /\ status = "ok"
      /\ force_no_gc' = IF Guarded THEN force_no_gc - 1 ELSE force_no_gc
      /\ status' = status
    BY KeptType DEF BuildEnd, Building, Running, Value
<1>2. force_no_gc \in Nat /\ force_no_gc' \in Nat /\ c \in Nat /\ next_collect \in Nat
    BY <1>1, KeptType, ObjectsAssumption, Counting DEF TypeInv, ResumeOK
<1>3. force_no_gc' = 0 => Within(c, next)
  <2>1. CASE Guarded
      BY <1>2, <2>1, FitLeavesRoom DEF Within, Wanted
  <2>2. CASE ~Guarded
      BY <1>1, <2>2 DEF RoomInv
  <2> QED
      BY <2>1, <2>2
<1>4. next \in Nat
    BY <1>2, FitLeavesRoom DEF Wanted
<1>5. CASE next <= MaxThreshold
  <2>1. /\ next_collect' = next
        /\ AddObject(building, force_no_gc', next, Ret("push", building, Nil))
      BY <1>5 DEF BuildEnd
  <2>2. Ret("push", building, Nil).do # "collect"
      BY DEF Ret
  <2> HIDE DEF next
  <2> QED
      BY <1>1, <1>2, <1>3, <1>4, <2>1, <2>2, RoomAlloc
<1>6. CASE ~(next <= MaxThreshold)
  <2>1. next_collect' = Saturated /\ UNCHANGED <<all_objects, phase, ret>>
      BY <1>6 DEF BuildEnd
  <2>2. Overflows(next_collect')
      BY <2>1, SaturatedStuck
  <2> QED
      BY <1>1, <2>1, <2>2 DEF RoomInv, Within, Overflows
<1> QED
    BY <1>5, <1>6

\* Every other operation registers one object at most.
LEMMA MutatorRoom == TypeInv /\ RoomInv /\ Mutator => RoomInv'
<1> SUFFICES ASSUME TypeInv, RoomInv, Mutator PROVE RoomInv'
    OBVIOUS
<1>1. CASE \/ LoadNil \/ Pop \/ BuildFail
           \/ \E i \in 1..MaxStack : LoadLocal(i) \/ StoreLocal(i)
           \/ \E s \in Slots : StoreSlot(s) \/ LoadSlot(s)
           \/ \E f \in Fields : StoreField(f) \/ LoadField(f)
           \/ \E e \in ElemSlots : IterCurrent(e)
  <2>1. /\ UNCHANGED <<all_objects, next_collect, force_no_gc>> /\ phase = "idle"
        /\ phase' = "idle" /\ status = "ok"
      BY <1>1 DEF LoadNil, Pop, BuildFail, LoadLocal, StoreLocal, StoreSlot, LoadSlot,
           StoreField, LoadField, IterCurrent, Ready, Running, Building, Quiet, numbers
  <2> QED
      BY <2>1, RoomSame
<1>2. ASSUME NEW o \in Objects, BuildBegin(o) PROVE RoomInv'
  <2>1. /\ phase = "idle" /\ phase' = phase /\ status = "ok"
        /\ UNCHANGED <<all_objects, next_collect>>
        /\ force_no_gc' = IF Guarded THEN force_no_gc + 1 ELSE force_no_gc
      BY <1>2 DEF BuildBegin, Ready, Running
  <2>2. force_no_gc \in Nat
      BY KeptType
  <2> QED
      BY <2>1, <2>2 DEF RoomInv, Within, Overflows
<1>3. ASSUME NEW o \in Objects, NEW r, AddObject(o, force_no_gc, next_collect, r),
             r.do # "collect", phase = "idle", status = "ok",
             UNCHANGED <<force_no_gc, next_collect>>
      PROVE  RoomInv'
  <2>1. force_no_gc \in Nat /\ next_collect \in Nat
      BY KeptType, Counting
  <2>2. force_no_gc = 0 => Within(Cardinality(all_objects), next_collect)
      BY <1>3 DEF RoomInv
  <2> QED
      BY <1>3, <2>1, <2>2, RoomAlloc
<1>4. /\ NoRet.do # "collect"
      /\ \A how \in {"push", "replace", "elem"} : \A v, s : Ret(how, v, s).do # "collect"
    BY DEF NoRet, Ret
<1>5. ASSUME NEW o \in Objects,
             \/ NewObj(o) \/ \E n \in 0..MaxStack : NewArr(o, n)
      PROVE  RoomInv'
  <2>1. /\ AddObject(o, force_no_gc, next_collect, NoRet) /\ phase = "idle" /\ status = "ok"
        /\ UNCHANGED <<force_no_gc, next_collect>>
      BY <1>5 DEF NewObj, NewArr, Ready, Running, numbers
  <2> QED
      BY <1>3, <1>4, <2>1
<1>6. ASSUME NEW o \in Objects,
             \/ GetIterator(o)
             \/ \E how \in {"push", "replace"} : InitObj(o, how)
             \/ \E e \in ElemSlots : BuildAdd(o, e)
      PROVE  RoomInv'
  <2>1. \E how \in {"push", "replace", "elem"} : \E v, s :
          AddObject(o, force_no_gc, next_collect, Ret(how, v, s))
      BY <1>6 DEF GetIterator, InitObj, BuildAdd
  <2>2. phase = "idle" /\ status = "ok" /\ UNCHANGED <<force_no_gc, next_collect>>
      BY <1>6 DEF GetIterator, InitObj, BuildAdd, Ready, Building, Running, numbers
  <2> QED
      BY <1>3, <1>4, <2>1, <2>2
<1>7. CASE Throw
  <2>1. /\ Top \in Objects /\ phase = "idle" /\ status = "ok"
        /\ AddObject(Top, force_no_gc, next_collect, Ret("push", Top, Nil))
        /\ UNCHANGED <<force_no_gc, next_collect>>
      BY <1>7 DEF Throw, Ready, Running, numbers
  <2> QED
      BY <1>3, <1>4, <2>1
<1>8. CASE Collect
  <2>1. /\ UNCHANGED <<all_objects, next_collect, force_no_gc, status>>
        /\ phase = "idle" /\ phase' = "mark"
      BY <1>8 DEF Collect, StartMarking, Ready, Running, numbers
  <2>2. Cardinality(all_objects) \in Nat /\ next_collect \in Nat
      BY Counting
  <2> QED
      BY <2>1, <2>2, FewerWithin DEF RoomInv, Within, OneOver, Overflows
<1> QED
    BY <1>1, <1>2, <1>5, <1>6, <1>7, <1>8, BuildEndRoom DEF Mutator

\* The bound holds in every reachable state.
LEMMA RoomInvariant == Spec => [](TypeInv /\ RoomInv)
<1>1. Init => RoomInv
    BY FS_EmptySet, NumbersAssumption DEF Init, RoomInv, Within
<1>2. TypeInv /\ RoomInv /\ [Next]_vars => RoomInv'
  <2> SUFFICES ASSUME TypeInv, RoomInv, [Next]_vars PROVE RoomInv'
      OBVIOUS
  <2>1. CASE \/ MarkRoot \/ MarkReturn
             \/ \E k \in PropKeys : MarkProperty(k)
             \/ \E e \in ElemSlots : MarkElement(e)
    <3>1. /\ UNCHANGED <<all_objects, next_collect, force_no_gc, phase, ret>>
          /\ status = "ok"
        BY <2>1 DEF MarkRoot, MarkReturn, MarkProperty, MarkElement, Running, numbers
    <3> QED
        BY <3>1, RoomSame
  <2>2. CASE Return
    <3>1. /\ UNCHANGED <<all_objects, next_collect, force_no_gc, status>>
          /\ phase = "return" /\ phase' = "idle"
        BY <2>2 DEF Return, Running, numbers
    <3> QED
        BY <3>1, RoomSame
  <2>3. CASE UNCHANGED vars
    <3>1. UNCHANGED <<all_objects, next_collect, force_no_gc, phase, ret, status>>
        BY <2>3 DEF vars, numbers
    <3> QED
        BY <3>1, RoomSame
  <2> QED
      BY <2>1, <2>2, <2>3, SweepRoom, GrowRoom, MutatorRoom DEF Next, Collector
<1> QED
    BY TypeInvariant, <1>1, <1>2, PTL DEF Spec

\* Between operations the registered objects are within the threshold, or it cannot grow
\* any more (add_object, gc.cpp:34-46; end_no_gc, gc.cpp:130-137).
THEOREM ThresholdKept == Spec => []ThresholdInv
<1>1. RoomInv => ThresholdInv
    BY DEF RoomInv, ThresholdInv, Within
<1> QED
    BY RoomInvariant, <1>1, PTL

(***************************************************************************)
(* The container a native function is filling.  It is alive and not        *)
(* registered; with the guard held no collection can be under way.         *)
(***************************************************************************)
BuildInv ==
    /\ status = "ok" =>
         /\ all_objects \subseteq heap
         /\ \A o \in Objects \ heap : slot[o] = Bare
         /\ building # Nil => building \in heap \ all_objects
    /\ building # Nil /\ Guarded =>
         /\ status = "ok" /\ phase \in {"idle", "return"}
         /\ \A s \in Slots : slot[building][s] \in Objects => slot[building][s] \in heap
         /\ ret.do = "elem" /\ ret.val \in Objects => ret.val \in heap

\* Operations that are not building: what is registered is alive, what is not alive is
\* empty.
LEMMA NotBuilding ==
    ASSUME BuildInv, building' = Nil,
           status' = "ok" =>
             /\ status = "ok" /\ heap \subseteq heap' /\ all_objects' \subseteq heap'
             /\ \A o \in Objects \ heap' : slot'[o] = slot[o]
    PROVE  BuildInv'
BY DEF BuildInv, Bare

\* An object that is made outside of a builder.
LEMMA MakeBuild ==
    ASSUME TypeInv, BuildInv, status = "ok", building' = Nil, NEW o \in Objects,
           heap' = heap \cup {o}, all_objects' = all_objects \cup {o},
           \A t \in Objects \ {o} : slot'[t] = slot[t]
    PROVE  BuildInv'
BY NotBuilding DEF BuildInv

\* Giving up a container that is not registered.
LEMMA DropBuild ==
    ASSUME TypeInv, BuildInv, status = "ok", building \in Objects, building' = Nil,
           heap' = heap \ {building}, slot' = [slot EXCEPT ![building] = Bare],
           all_objects' = all_objects
    PROVE  BuildInv'
<1>1. \A o \in Objects \ heap' : slot'[o] = Bare
    BY KeptType DEF BuildInv
<1>2. all_objects' \subseteq heap'
    BY ObjectsAssumption DEF BuildInv
<1> QED
    BY <1>1, <1>2 DEF BuildInv, Bare

\* The collector leaves the container alone.
LEMMA CollectorBuild == TypeInv /\ BuildInv /\ Collector => BuildInv'
<1> SUFFICES ASSUME TypeInv, BuildInv, Collector PROVE BuildInv'
    OBVIOUS
<1>1. CASE \/ MarkRoot \/ MarkReturn \/ Grow
           \/ \E k \in PropKeys : MarkProperty(k)
           \/ \E e \in ElemSlots : MarkElement(e)
  <2>1. /\ UNCHANGED <<heap, all_objects, slot, building>> /\ status = "ok"
        /\ phase \in {"mark", "grow"}
      BY <1>1 DEF MarkRoot, MarkReturn, MarkProperty, MarkElement, Grow, Running, program
  <2>2. ~(building # Nil /\ Guarded)
      BY <2>1 DEF BuildInv
  <2> QED
      BY <2>1, <2>2 DEF BuildInv, Guarded, Bare
<1>2. CASE Sweep
  <2> DEFINE dead == all_objects \ marks
  <2>1. /\ heap' = heap \ dead /\ all_objects' = all_objects \ dead
        /\ slot' = [o \in Objects |-> IF o \in dead THEN Bare ELSE slot[o]]
        /\ UNCHANGED <<building, status>> /\ phase = "mark" /\ status = "ok"
      BY <1>2 DEF Sweep, Running
  <2>2. ~(building # Nil /\ Guarded)
      BY <2>1 DEF BuildInv
  <2>3. \A o \in Objects \ heap' : slot'[o] = Bare
      BY <2>1 DEF BuildInv
  <2>4. all_objects' \subseteq heap' /\ (building # Nil => building \in heap' \ all_objects')
      BY <2>1 DEF BuildInv
  <2> QED
      BY <2>1, <2>2, <2>3, <2>4 DEF BuildInv, Guarded, Bare
<1>3. CASE Return
  <2>1. /\ UNCHANGED <<heap, all_objects, building, status>> /\ phase' = "idle"
        /\ status = "ok" /\ phase = "return" /\ ret'.do = "none"
        /\ slot' = IF ret.do = "elem"
                   THEN [slot EXCEPT ![building][ret.at] = ret.val] ELSE slot
      BY <1>3 DEF Return, Running, NoRet, Ret
  <2>2. slot \in [Objects -> [Slots -> Value]] /\ building \in Value
      BY KeptType
  <2>3. ASSUME NEW o \in Objects \ heap PROVE slot'[o] = slot[o]
    <3>1. o # building
        BY <2>1, ObjectsAssumption DEF BuildInv
    <3> QED
        BY <2>1, <2>2, <3>1
  <2>4. ASSUME building # Nil, Guarded, NEW s \in Slots, slot'[building][s] \in Objects
        PROVE  slot'[building][s] \in heap
    <3>1. building \in Objects
        BY <2>2, <2>4 DEF Value
    <3>2. slot'[building][s] = slot[building][s]
          \/ (ret.do = "elem" /\ slot'[building][s] = ret.val)
        BY <2>1, <2>2, <3>1
    <3> QED
        BY <2>4, <3>2 DEF BuildInv
  <2> QED
      BY <2>1, <2>3, <2>4 DEF BuildInv, Guarded, Bare
<1> QED
    BY <1>1, <1>2, <1>3 DEF Collector

\* What is registered is alive, what is dead is empty, through every operation that
\* does not build.
LEMMA PlainBuild ==
    ASSUME TypeInv, BuildInv,
           \/ LoadNil \/ Pop \/ Throw \/ Collect
           \/ \E i \in 1..MaxStack : LoadLocal(i) \/ StoreLocal(i)
           \/ \E s \in Slots : StoreSlot(s) \/ LoadSlot(s)
           \/ \E f \in Fields : StoreField(f) \/ LoadField(f)
           \/ \E e \in ElemSlots : IterCurrent(e)
    PROVE  BuildInv'
<1>1. status = "ok" /\ building = Nil /\ building' = Nil /\ heap' = heap
    BY DEF LoadNil, Pop, Throw, Collect, LoadLocal, StoreLocal, StoreSlot, LoadSlot,
       StoreField, LoadField, IterCurrent, Ready, Running, Quiet, program
<1>2. CASE \/ LoadNil \/ Pop \/ Collect
           \/ \E i \in 1..MaxStack : LoadLocal(i) \/ StoreLocal(i)
           \/ \E s \in Slots : LoadSlot(s)
           \/ \E f \in Fields : StoreField(f) \/ LoadField(f)
           \/ \E e \in ElemSlots : IterCurrent(e)
  <2>1. UNCHANGED <<all_objects, slot>>
      BY <1>2 DEF LoadNil, Pop, Collect, LoadLocal, StoreLocal, LoadSlot,
         StoreField, LoadField, IterCurrent, Quiet, program
  <2> QED
      BY <1>1, <2>1, NotBuilding DEF BuildInv
<1>3. CASE Throw
  <2>1. slot' = slot /\ all_objects' = all_objects \cup {Top} /\ Deref(Top)
      BY <1>3 DEF Throw, AddObject, program
  <2> QED
      BY <1>1, <2>1, NotBuilding DEF BuildInv, Deref
<1>4. ASSUME NEW s \in Slots, StoreSlot(s) PROVE BuildInv'
  <2>1. PICK this, val : /\ slot' = [slot EXCEPT ![this][s] = val]
                         /\ Deref(this) /\ all_objects' = all_objects
      BY <1>4 DEF StoreSlot, Quiet
  <2>2. status' = "ok" => this \in heap
      BY <2>1 DEF Deref
  <2>3. status' = "ok" => \A o \in Objects \ heap : slot'[o] = slot[o]
      BY <2>1, <2>2, KeptType
  <2> QED
      BY <1>1, <2>1, <2>3, NotBuilding DEF BuildInv
<1> QED
    BY <1>2, <1>3, <1>4

\* So it is through every operation that makes an object.
LEMMA MakingBuild ==
    ASSUME TypeInv, BuildInv, NEW o \in Objects,
           \/ NewObj(o) \/ GetIterator(o)
           \/ \E n \in 0..MaxStack : NewArr(o, n)
           \/ \E how \in {"push", "replace"} : InitObj(o, how)
    PROVE  BuildInv'
<1>1. /\ status = "ok" /\ building = Nil /\ building' = Nil /\ heap' = heap \cup {o}
      /\ all_objects' = all_objects \cup {o}
    BY DEF NewObj, GetIterator, NewArr, InitObj, AddObject, Ready, Running, program
<1>2. \A t \in Objects \ {o} : slot'[t] = slot[t]
    BY KeptType DEF NewObj, GetIterator, NewArr, InitObj, program
<1> QED
    BY <1>1, <1>2, MakeBuild

\* The builder's own steps: under the guard nothing it has made is deleted.
LEMMA BuilderBuild ==
    ASSUME TypeInv, BuildInv,
           \/ BuildEnd \/ BuildFail
           \/ \E o \in Objects : BuildBegin(o)
           \/ \E o \in Objects, e \in ElemSlots : BuildAdd(o, e)
    PROVE  BuildInv'
<1>1. CASE BuildFail
  <2>1. /\ status = "ok" /\ building \in Objects /\ building' = Nil
        /\ heap' = heap \ {building} /\ slot' = [slot EXCEPT ![building] = Bare]
        /\ all_objects' = all_objects
      BY <1>1, KeptType DEF BuildFail, Building, Running, Value
  <2> QED
      BY <2>1, DropBuild
<1>2. CASE BuildEnd
  <2>1. /\ status = "ok" /\ building \in Objects /\ building' = Nil
        /\ \/ /\ heap' = heap \ {building} /\ slot' = [slot EXCEPT ![building] = Bare]
              /\ all_objects' = all_objects
           \/ heap' = heap /\ slot' = slot /\ all_objects' = all_objects \cup {building}
      BY <1>2, KeptType DEF BuildEnd, Building, Running, Value, AddObject
  <2> QED
      BY <2>1, ObjectsAssumption, DropBuild, NotBuilding DEF BuildInv
<1>3. ASSUME NEW o \in Objects, BuildBegin(o) PROVE BuildInv'
  <2>1. /\ status = "ok" /\ phase = "idle" /\ o \notin heap /\ heap' = heap \cup {o}
        /\ building' = o /\ UNCHANGED <<all_objects, slot, phase, ret, status>>
      BY <1>3 DEF BuildBegin, Ready, Running
  <2>2. slot[o] = Bare /\ \A s \in Slots : slot'[o][s] = Nil
      BY <2>1 DEF BuildInv, Bare
  <2>3. ret.do = "none"
      BY <2>1 DEF TypeInv, ResumeOK
  <2> QED
      BY <2>1, <2>2, <2>3, ObjectsAssumption DEF BuildInv, Bare
<1>4. ASSUME NEW o \in Objects, NEW e \in ElemSlots, BuildAdd(o, e) PROVE BuildInv'
  <2>1. /\ status = "ok" /\ phase = "idle" /\ building \in Objects /\ o \notin heap
        /\ heap' = heap \cup {o} /\ all_objects' = all_objects \cup {o}
        /\ UNCHANGED <<building, slot, status>> /\ ret' = Ret("elem", o, e)
        /\ AddObject(o, force_no_gc, next_collect, Ret("elem", o, e))
      BY <1>4, KeptType DEF BuildAdd, AddObject, Building, Running, Value, program
  <2>2. Guarded => phase' = "return"
      BY <2>1, KeptType, ObjectsAssumption DEF AddObject, TypeInv, ResumeOK
  <2>3. ret'.val = o
      BY <2>1 DEF Ret
  <2> QED
      BY <2>1, <2>2, <2>3, ObjectsAssumption DEF BuildInv, Guarded, Bare
<1> QED
    BY <1>1, <1>2, <1>3, <1>4

\* Nothing a guarded native function has put into its container is collected before the
\* container is registered, whether it finishes or fails (dir.h:54-67; the guard of
\* gc.cpp:125-137).
THEOREM BuildingKept == Spec => []BuildingLive
<1>1. Init => BuildInv
    BY DEF Init, BuildInv
<1>2. TypeInv /\ BuildInv /\ [Next]_vars => BuildInv'
  <2> SUFFICES ASSUME TypeInv, BuildInv, [Next]_vars PROVE BuildInv'
      OBVIOUS
  <2>1. CASE Mutator
      BY <2>1, PlainBuild, MakingBuild, BuilderBuild DEF Mutator
  <2>2. CASE UNCHANGED vars
      BY <2>2 DEF vars, program, BuildInv, Guarded, Bare
  <2> QED
      BY <2>1, <2>2, CollectorBuild DEF Next
<1>3. BuildInv => BuildingLive
    BY DEF BuildInv, BuildingLive, Targets
<1> QED
    BY TypeInvariant, <1>1, <1>2, <1>3, PTL DEF Spec

(***************************************************************************)
(* The depth of marking.  A program without __setitem__ fills a container  *)
(* only when it makes it, with objects that are older: following elements  *)
(* alone never comes back.  A property is followed only to an object that  *)
(* is not marked yet, so its activation is the first one on that object.   *)
(* Between two such activations the objects therefore go down the order R  *)
(* in which elements come before their containers, and a pair of objects - *)
(* where the stretch began, where it is now - tells the activations apart. *)
(***************************************************************************)
ElemOrder(R) ==
    /\ \A a \in Objects : <<a, a>> \notin R
    /\ \A a, b, c \in Objects : <<a, b>> \in R /\ <<b, c>> \in R => <<a, c>> \in R

Older(R) == \A o \in Objects : \A e \in ElemSlots :
                slot[o][e] \in Objects => <<slot[o][e], o>> \in R

\* activation h is the first one on its object
First(fs, h) == \A j \in 1..(h - 1) : fs[j].obj # fs[h].obj

\* the stretch of activation i began at h
Began(fs, h, i) == First(fs, h) /\ \A g \in (h + 1)..i : ~First(fs, g)

Descends(fs, R) ==
    \A i \in 1..Len(fs) :
        /\ \E h \in 1..i : Began(fs, h, i)
        /\ \A j \in 1..(i - 1) : \/ \E h \in (j + 1)..i : First(fs, h)
                                 \/ <<fs[i].obj, fs[j].obj>> \in R

DepthInv ==
    /\ \E R \in SUBSET (Objects \X Objects) :
         ElemOrder(R) /\ Older(R) /\ (phase = "mark" => Descends(frames, R))
    /\ status # "cpp_stack_overflow"

\* Activations that return, or go on with their loops, leave the others as they are.
LEMMA DescendsAgain ==
    ASSUME NEW R, NEW fs \in Seq(FrameType), Descends(fs, R), NEW gs \in Seq(FrameType),
           Len(gs) <= Len(fs), \A i \in 1..Len(gs) : gs[i].obj = fs[i].obj
    PROVE  Descends(gs, R)
<1>1. Len(gs) \in Nat /\ Len(fs) \in Nat
    OBVIOUS
<1>2. ASSUME NEW h \in 1..Len(gs) PROVE First(gs, h) <=> First(fs, h)
    BY <1>1 DEF First
<1>3. ASSUME NEW i \in 1..Len(gs)
      PROVE  /\ \E h \in 1..i : Began(gs, h, i)
             /\ \A j \in 1..(i - 1) : \/ \E h \in (j + 1)..i : First(gs, h)
                                      \/ <<gs[i].obj, gs[j].obj>> \in R
  <2>1. /\ \E h \in 1..i : Began(fs, h, i)
        /\ \A j \in 1..(i - 1) : \/ \E h \in (j + 1)..i : First(fs, h)
                                 \/ <<fs[i].obj, fs[j].obj>> \in R
    <3>1. i \in 1..Len(fs)
        BY <1>1
    <3> QED
        BY <3>1 DEF Descends
  <2>2. PICK h \in 1..i : Began(fs, h, i)
      BY <2>1
  <2>3. Began(gs, h, i)
      BY <1>1, <1>2, <2>2 DEF Began
  <2>4. ASSUME NEW j \in 1..(i - 1)
        PROVE  (\E k \in (j + 1)..i : First(gs, k)) \/ <<gs[i].obj, gs[j].obj>> \in R
    <3>1. j \in 1..Len(gs) /\ (j + 1)..i \subseteq 1..Len(gs)
        BY <1>1
    <3> QED
        BY <1>2, <2>1, <3>1
  <2> QED
      BY <2>3, <2>4
<1> QED
    BY <1>3 DEF Descends

\* Every activation is one on an object.
LEMMA ActivationTypes ==
    ASSUME NEW fs \in Seq(FrameType)
    PROVE  Len(fs) \in Nat /\ \A i \in 1..Len(fs) : fs[i].obj \in Objects
<1>1. Len(fs) \in Nat /\ \A i \in 1..Len(fs) : fs[i] \in FrameType
    OBVIOUS
<1>2. \A g \in FrameType : g.obj \in Objects
    BY DEF FrameType
<1> QED
    BY <1>1, <1>2

\* A new activation is the first on its object, or on an element of the innermost one.
LEMMA DescendsFurther ==
    ASSUME NEW R, ElemOrder(R), NEW fs \in Seq(FrameType), Descends(fs, R),
           NEW f \in FrameType,
           \/ \A i \in 1..Len(fs) : fs[i].obj # f.obj
           \/ Len(fs) # 0 /\ <<f.obj, fs[Len(fs)].obj>> \in R
    PROVE  Descends(Append(fs, f), R)
<1> DEFINE gs == Append(fs, f)
           n == Len(fs) + 1
<1>1. /\ Len(fs) \in Nat /\ gs \in Seq(FrameType) /\ Len(gs) = n /\ gs[n] = f
      /\ \A i \in 1..Len(fs) : gs[i] = fs[i]
    OBVIOUS
<1>2. f.obj \in Objects /\ \A i \in 1..Len(fs) : fs[i].obj \in Objects
    BY ActivationTypes DEF FrameType
<1> HIDE DEF gs
<1>3. ASSUME NEW h \in 1..Len(fs) PROVE First(gs, h) <=> First(fs, h)
  <2>1. h \in 1..Len(fs) /\ 1..(h - 1) \subseteq 1..Len(fs)
      BY <1>1
  <2>2. gs[h] = fs[h] /\ \A j \in 1..(h - 1) : gs[j] = fs[j]
      BY <1>1, <2>1
  <2> QED
      BY ONLY <2>2 DEF First
<1>4. ASSUME NEW i \in 1..Len(fs)
      PROVE  /\ \E h \in 1..i : Began(gs, h, i)
             /\ \A j \in 1..(i - 1) : \/ \E h \in (j + 1)..i : First(gs, h)
                                      \/ <<gs[i].obj, gs[j].obj>> \in R
  <2>1. /\ \E h \in 1..i : Began(fs, h, i)
        /\ \A j \in 1..(i - 1) : \/ \E h \in (j + 1)..i : First(fs, h)
                                 \/ <<fs[i].obj, fs[j].obj>> \in R
      BY DEF Descends
  <2>2. PICK h \in 1..i : Began(fs, h, i)
      BY <2>1
  <2>3. Began(gs, h, i)
      BY <1>1, <1>3, <2>2 DEF Began
  <2>4. ASSUME NEW j \in 1..(i - 1)
        PROVE  (\E k \in (j + 1)..i : First(gs, k)) \/ <<gs[i].obj, gs[j].obj>> \in R
    <3>1. j \in 1..Len(fs) /\ (j + 1)..i \subseteq 1..Len(fs)
        BY <1>1
    <3> QED
        BY <1>1, <1>3, <2>1, <3>1
  <2> QED
      BY <2>3, <2>4
<1>5. /\ \E h \in 1..n : Began(gs, h, n)
      /\ \A j \in 1..(n - 1) : \/ \E h \in (j + 1)..n : First(gs, h)
                               \/ <<gs[n].obj, gs[j].obj>> \in R
  <2>1. CASE First(gs, n)
    <3>1. Began(gs, n, n)
        BY <1>1, <2>1 DEF Began
    <3>2. n \in 1..n /\ \A j \in 1..(n - 1) : n \in (j + 1)..n
        BY <1>1
    <3> QED
        BY <2>1, <3>1, <3>2
  <2>2. CASE ~First(gs, n)
    <3>1. Len(fs) # 0 /\ <<f.obj, fs[Len(fs)].obj>> \in R
        BY <1>1, <2>2 DEF First
    <3>2. Len(fs) \in 1..Len(fs)
        BY <1>1, <3>1
    <3>3. PICK h \in 1..Len(fs) : Began(gs, h, Len(fs))
        BY <1>4, <3>2
    <3>4. Began(gs, h, n)
      <4>1. \A g \in (h + 1)..n : g \in (h + 1)..Len(fs) \/ g = n
          BY <1>1
      <4> QED
          BY <2>2, <3>3, <4>1 DEF Began
    <3>5. ASSUME NEW j \in 1..(n - 1)
          PROVE  (\E k \in (j + 1)..n : First(gs, k)) \/ <<gs[n].obj, gs[j].obj>> \in R
      <4>1. j \in 1..Len(fs) /\ (j = Len(fs) \/ j \in 1..(Len(fs) - 1))
          BY <1>1
      <4>2. CASE j = Len(fs)
          BY <1>1, <3>1, <4>1, <4>2
      <4>3. CASE j \in 1..(Len(fs) - 1)
        <5>1. \/ \E k \in (j + 1)..Len(fs) : First(gs, k)
              \/ <<gs[Len(fs)].obj, gs[j].obj>> \in R
            BY <1>4, <3>2, <4>3
        <5>2. (j + 1)..Len(fs) \subseteq (j + 1)..n
            BY <1>1
        <5>3. <<gs[Len(fs)].obj, gs[j].obj>> \in R => <<gs[n].obj, gs[j].obj>> \in R
          <6>1. /\ gs[n].obj \in Objects /\ gs[Len(fs)].obj \in Objects
                /\ gs[j].obj \in Objects /\ <<gs[n].obj, gs[Len(fs)].obj>> \in R
              BY <1>1, <1>2, <3>1, <3>2, <4>1
          <6> QED
              BY <6>1 DEF ElemOrder
        <5> QED
            BY <5>1, <5>2, <5>3
      <4> QED
          BY <4>1, <4>2, <4>3
    <3>6. h \in 1..n
        BY <1>1
    <3> QED
        BY <3>4, <3>5, <3>6
  <2> QED
      BY <2>1, <2>2
<1>6. \A i \in 1..Len(gs) : i = n \/ i \in 1..Len(fs)
    BY <1>1
<1> QED
    BY <1>4, <1>5, <1>6 DEF Descends, gs

\* There are no more activations than pairs of objects.
LEMMA DescentBounded ==
    ASSUME NEW R, ElemOrder(R), NEW fs \in Seq(FrameType), Descends(fs, R)
    PROVE  /\ Cardinality(Objects) \in Nat
           /\ Len(fs) <= Cardinality(Objects) * Cardinality(Objects)
<1> DEFINE from(i) == CHOOSE h \in 1..i : Began(fs, h, i)
           pair == [i \in 1..Len(fs) |-> <<fs[from(i)].obj, fs[i].obj>>]
<1>1. Len(fs) \in Nat /\ \A i \in 1..Len(fs) : fs[i].obj \in Objects
    BY ActivationTypes
<1>2. ASSUME NEW i \in 1..Len(fs)
      PROVE  from(i) \in 1..i /\ Began(fs, from(i), i) /\ fs[from(i)].obj \in Objects
  <2>1. \E h \in 1..i : Began(fs, h, i)
      BY DEF Descends
  <2>2. from(i) \in 1..i /\ Began(fs, from(i), i)
      BY <2>1
  <2> HIDE DEF from
  <2> QED
      BY <1>1, <2>2
<1> HIDE DEF from
<1>3. ASSUME NEW i \in 1..Len(fs), NEW j \in 1..Len(fs), j < i, pair[i] = pair[j]
      PROVE  FALSE
  <2> DEFINE a == from(i)
             b == from(j)
  <2>1. fs[a].obj = fs[b].obj /\ fs[i].obj = fs[j].obj
      BY <1>3
  <2>2. a \in 1..i /\ b \in 1..j /\ Began(fs, a, i) /\ Began(fs, b, j)
      BY <1>2
  <2> HIDE DEF a, b
  <2>3. a = b
    <3>1. ~(a < b)
        BY <2>1, <2>2, <1>1 DEF Began, First
    <3>2. ~(b < a)
        BY <2>1, <2>2, <1>1 DEF Began, First
    <3> QED
        BY <2>2, <3>1, <3>2, <1>1
  <2>4. \A h \in (j + 1)..i : ~First(fs, h)
    <3>1. (j + 1)..i \subseteq (a + 1)..i
        BY <1>1, <2>2, <2>3
    <3> QED
        BY <2>2, <3>1 DEF Began
  <2>5. j \in 1..(i - 1)
      BY <1>1, <1>3
  <2>6. <<fs[i].obj, fs[j].obj>> \in R
      BY <2>4, <2>5 DEF Descends
  <2> QED
      BY <1>1, <2>1, <2>6 DEF ElemOrder
<1>4. pair \in Injection(1..Len(fs), Objects \X Objects)
  <2>1. pair \in [1..Len(fs) -> Objects \X Objects]
      BY <1>1, <1>2
  <2>2. ASSUME NEW i \in 1..Len(fs), NEW j \in 1..Len(fs), pair[i] = pair[j]
        PROVE  i = j
    <3>1. i < j \/ j < i \/ i = j
        BY <1>1
    <3> HIDE DEF pair
    <3> QED
        BY <1>3, <2>2, <3>1
  <2> HIDE DEF pair
  <2> QED
      BY <2>1, <2>2 DEF Injection, IsInjective
<1> HIDE DEF pair
<1>5. /\ IsFiniteSet(Objects \X Objects) /\ Cardinality(Objects) \in Nat
      /\ Cardinality(Objects \X Objects) = Cardinality(Objects) * Cardinality(Objects)
    BY ObjectsAssumption, FS_Product, FS_CardinalityType
<1>6. Cardinality(1..Len(fs)) = Len(fs)
    BY <1>1, FS_Interval
<1> QED
    BY <1>4, <1>5, <1>6, FS_Injection

\* What shows the invariant after a step.
LEMMA DepthNext ==
    ASSUME NEW R \in SUBSET (Objects \X Objects), ElemOrder(R), Older(R)',
           phase' = "mark" => Descends(frames', R), status' # "cpp_stack_overflow"
    PROVE  DepthInv'
<1>1. ElemOrder(R)' /\ Descends(frames, R)' = Descends(frames', R)
    BY DEF ElemOrder, Descends, Began, First
<1> QED
    BY <1>1 DEF DepthInv

\* Entering mark(o) needs one C++ frame more, and there is one.
LEMMA VisitDepth ==
    ASSUME MaxDepth >= Cardinality(Objects) * Cardinality(Objects),
           NEW R \in SUBSET (Objects \X Objects), ElemOrder(R), Older(R), slot' = slot,
           NEW under \in Seq(FrameType), Descends(under, R),
           NEW o \in Objects, Visit(o, under),
           \/ \A i \in 1..Len(under) : under[i].obj # o
           \/ Len(under) # 0 /\ <<o, under[Len(under)].obj>> \in R,
           status # "cpp_stack_overflow"
    PROVE  DepthInv'
<1> DEFINE new == [obj |-> o, todo |-> Pending(o)]
<1>1. new \in FrameType /\ new.obj = o
    BY DEF FrameType, Pending
<1>2. frames' = Append(under, new)
    BY DEF Visit
<1> HIDE DEF new
<1>3. Descends(Append(under, new), R)
    BY <1>1, DescendsFurther
<1>4. Append(under, new) \in Seq(FrameType) /\ Len(Append(under, new)) = Len(under) + 1
    BY <1>1
<1>5. /\ Cardinality(Objects) \in Nat
      /\ Len(Append(under, new)) <= Cardinality(Objects) * Cardinality(Objects)
    BY <1>3, <1>4, DescentBounded
<1>6. ~(Len(under) >= MaxDepth)
  <2>1. /\ Cardinality(Objects) * Cardinality(Objects) \in Nat /\ Len(under) \in Nat
        /\ MaxDepth \in Nat
      BY <1>5, TimesNat, NumbersAssumption
  <2> QED
      BY <1>4, <1>5, <2>1
<1>7. status' # "cpp_stack_overflow"
    BY <1>6 DEF Visit
<1>8. Older(R)'
    BY DEF Older
<1> QED
    BY <1>2, <1>3, <1>7, <1>8, DepthNext

\* As long as no container changes, leaving activations alone or dropping some is safe.
LEMMA DepthAgain ==
    ASSUME DepthInv, \A o \in Objects : slot'[o] = slot[o] \/ slot'[o] = Bare,
           status' = status,
           phase' = "mark" =>
             \/ frames' = <<>>
             \/ /\ phase = "mark" /\ frames \in Seq(FrameType) /\ frames' \in Seq(FrameType)
                /\ Len(frames') <= Len(frames)
                /\ \A i \in 1..Len(frames') : frames'[i].obj = frames[i].obj
    PROVE  DepthInv'
<1>1. PICK R \in SUBSET (Objects \X Objects) :
        ElemOrder(R) /\ Older(R) /\ (phase = "mark" => Descends(frames, R))
    BY DEF DepthInv
<1>2. Older(R)'
  <2>1. \A e \in ElemSlots : Bare[e] \notin Objects
      BY ObjectsAssumption DEF Bare, Slots
  <2> QED
      BY <1>1, <2>1 DEF Older
<1>3. phase' = "mark" => Descends(frames', R)
  <2>1. CASE frames' = <<>>
      BY <2>1 DEF Descends
  <2>2. CASE phase' = "mark" /\ frames' # <<>>
      BY <1>1, <2>2, DescendsAgain
  <2> QED
      BY <2>1, <2>2
<1> QED
    BY <1>1, <1>2, <1>3, DepthNext DEF DepthInv

\* The collector's steps stay within the C++ stack.
LEMMA CollectorDepth ==
    ASSUME MaxDepth >= Cardinality(Objects) * Cardinality(Objects),
           TypeInv, MarkInv, DepthInv, Collector, ret.do \in {"none", "collect"}
    PROVE  DepthInv'
<1>1. PICK R \in SUBSET (Objects \X Objects) :
        ElemOrder(R) /\ Older(R) /\ (phase = "mark" => Descends(frames, R))
    BY DEF DepthInv
<1>2. frames \in Seq(FrameType) /\ marks \subseteq Objects /\ status # "cpp_stack_overflow"
    BY DEF TypeInv, TypeOK, DepthInv
<1>3. ASSUME MarkRoot PROVE DepthInv'
  <2>1. /\ phase = "mark" /\ frames = <<>> /\ slot' = slot /\ phase' = phase
      BY <1>3 DEF MarkRoot, Running, program
  <2>2. CASE stack[cursor] \in Objects
    <3>1. Visit(stack[cursor], <<>>)
        BY <1>3, <2>2 DEF MarkRoot
    <3>2. <<>> \in Seq(FrameType) /\ Descends(<<>>, R) /\ Len(<<>>) = 0
        BY DEF Descends
    <3>3. \A i \in 1..Len(<<>>) : <<>>[i].obj # stack[cursor]
        BY <3>2
    <3> QED
        BY <1>1, <1>2, <2>1, <2>2, <3>1, <3>2, <3>3, VisitDepth
  <2>3. CASE stack[cursor] \notin Objects
      BY <1>3, <2>1, <2>3, DepthAgain DEF MarkRoot
  <2> QED
      BY <2>2, <2>3
<1>4. ASSUME NEW s \in Slots, phase = "mark", phase' = phase, frames # <<>>, slot' = slot,
             s \in Frame.todo, Visit(slot[Frame.obj][s], After(s)),
             s \in ElemSlots \/ slot[Frame.obj][s] \notin marks
      PROVE  DepthInv'
  <2>1. /\ After(s) \in Seq(FrameType) /\ Len(After(s)) = Len(frames)
        /\ \A i \in 1..Len(frames) : After(s)[i].obj = frames[i].obj
        /\ Frame = frames[Len(frames)] /\ Len(frames) \in Nat \ {0}
      BY <1>4, AfterCovers
  <2>2. Descends(After(s), R)
      BY <1>1, <1>2, <1>4, <2>1, DescendsAgain
  <2>3. \A i \in 1..Len(frames) : frames[i].obj \in marks
      BY <1>4 DEF MarkInv
  <2>4. Frame.obj \in Objects /\ slot[Frame.obj][s] \in Objects
    <3>1. Len(frames) \in 1..Len(frames)
        BY <2>1
    <3>2. Frame.obj \in marks /\ Frame.todo \subseteq Pending(Frame.obj)
        BY <2>1, <2>3, <3>1 DEF TypeInv, FramesOK
    <3> QED
        BY <1>2, <1>4, <3>2 DEF Pending
  <2>5. CASE s \in ElemSlots
    <3>1. <<slot[Frame.obj][s], Frame.obj>> \in R
        BY <1>1, <2>4, <2>5 DEF Older
    <3>2. After(s)[Len(After(s))].obj = Frame.obj /\ Len(After(s)) # 0
        BY <2>1
    <3> QED
        BY <1>1, <1>2, <1>4, <2>1, <2>2, <2>4, <3>1, <3>2, VisitDepth
  <2>6. CASE slot[Frame.obj][s] \notin marks
    <3>1. \A i \in 1..Len(After(s)) : After(s)[i].obj # slot[Frame.obj][s]
        BY <2>1, <2>3, <2>6
    <3> QED
        BY <1>1, <1>2, <1>4, <2>1, <2>2, <2>4, <3>1, VisitDepth
  <2> QED
      BY <1>4, <2>5, <2>6
<1>5. ASSUME NEW k \in PropKeys, MarkProperty(k) PROVE DepthInv'
  <2>1. /\ phase = "mark" /\ phase' = phase /\ frames # <<>> /\ slot' = slot
        /\ k \in Frame.todo
      BY <1>5 DEF MarkProperty, Running, program
  <2>2. CASE slot[Frame.obj][k] \in marks
    <3>1. frames' = After(k) /\ status' = status
        BY <1>5, <2>2 DEF MarkProperty
    <3>2. /\ After(k) \in Seq(FrameType) /\ Len(After(k)) = Len(frames)
          /\ \A i \in 1..Len(frames) : After(k)[i].obj = frames[i].obj
          /\ Len(frames) \in Nat
        BY <2>1, AfterCovers
    <3> QED
        BY <1>2, <2>1, <3>1, <3>2, DepthAgain
  <2>3. CASE slot[Frame.obj][k] \notin marks
    <3>1. Visit(slot[Frame.obj][k], After(k))
        BY <1>5, <2>3 DEF MarkProperty
    <3> QED
        BY <1>4, <2>1, <2>3, <3>1 DEF Slots
  <2> QED
      BY <2>2, <2>3
<1>6. ASSUME NEW e \in ElemSlots, MarkElement(e) PROVE DepthInv'
  <2>1. /\ phase = "mark" /\ phase' = phase /\ frames # <<>> /\ slot' = slot
        /\ e \in Frame.todo /\ Visit(slot[Frame.obj][e], After(e))
      BY <1>6 DEF MarkElement, Running, program
  <2> QED
      BY <1>4, <2>1 DEF Slots
<1>7. ASSUME MarkReturn PROVE DepthInv'
  <2>1. /\ phase = "mark" /\ frames # <<>> /\ slot' = slot /\ status' = status
        /\ frames' = Callers
      BY <1>7 DEF MarkReturn, Running, program
  <2>2. /\ Callers \in Seq(FrameType) /\ Len(Callers) = Len(frames) - 1
        /\ \A i \in 1..(Len(frames) - 1) : Callers[i] = frames[i]
        /\ Len(frames) \in Nat \ {0}
      BY <1>2, <2>1, FrontOf DEF Callers
  <2>3. /\ Len(frames') <= Len(frames) /\ frames' \in Seq(FrameType)
        /\ \A i \in 1..Len(frames') : frames'[i].obj = frames[i].obj
      BY <2>1, <2>2
  <2> QED
      BY <1>2, <2>1, <2>3, DepthAgain
<1>8. ASSUME Sweep PROVE DepthInv'
  <2>1. /\ phase' # "mark" /\ status' = status
        /\ slot' = [o \in Objects |-> IF o \in all_objects \ marks THEN Bare ELSE slot[o]]
      BY <1>8 DEF Sweep
  <2> QED
      BY <2>1, DepthAgain
<1>9. ASSUME Grow \/ Return PROVE DepthInv'
  <2>1. phase' # "mark" /\ status' = status /\ slot' = slot
      BY <1>9 DEF Grow, Return, program
  <2> QED
      BY <2>1, DepthAgain
<1> QED
    BY <1>3, <1>5, <1>6, <1>7, <1>8, <1>9 DEF Collector

\* A new container has older objects in it: it comes last in the order.
LEMMA NewDepth ==
    ASSUME TypeInv, HeapInv, DepthInv, NEW o \in Objects,
           NewObj(o) \/ \E n \in 0..MaxStack : NewArr(o, n)
    PROVE  DepthInv'
<1>1. PICK R \in SUBSET (Objects \X Objects) : ElemOrder(R) /\ Older(R)
    BY DEF DepthInv
<1> DEFINE S == {q \in R : q[1] # o /\ q[2] # o} \cup {<<a, o>> : a \in Objects \ {o}}
<1>2. /\ o \notin heap /\ status' = status
      /\ \A t \in Objects \ {o} : slot'[t] = slot[t]
      /\ \A s \in Slots : slot'[o][s] \in Objects =>
           \E i \in 1..Len(stack) : slot'[o][s] = stack[i]
    BY NewFacts
<1>3. S \in SUBSET (Objects \X Objects)
    OBVIOUS
<1>4. \A a, b : <<a, b>> \in S <=> \/ <<a, b>> \in R /\ a # o /\ b # o
                                   \/ b = o /\ a \in Objects \ {o}
    OBVIOUS
<1> HIDE DEF S
<1>5. ElemOrder(S)
    BY <1>1, <1>4 DEF ElemOrder
<1>6. ASSUME NEW t \in Objects, NEW e \in ElemSlots, slot'[t][e] \in Objects
      PROVE  <<slot'[t][e], t>> \in S
  <2>1. e \in Slots
      BY DEF Slots
  <2>2. CASE t = o
    <3>1. slot'[o][e] \in heap
        BY <1>2, <1>6, <2>1, <2>2, LiveFacts
    <3> QED
        BY <1>2, <1>4, <1>6, <2>2, <3>1
  <2>3. CASE t # o
    <3>1. slot'[t][e] = slot[t][e]
        BY <1>2, <2>3
    <3>2. t \in heap
      <4>1. Bare[e] \notin Objects
          BY <2>1, ObjectsAssumption DEF Bare
      <4> QED
          BY <1>6, <3>1, <4>1 DEF HeapInv
    <3>3. slot[t][e] \in heap
        BY <1>6, <2>1, <3>1, <3>2, LiveFacts
    <3>4. slot[t][e] # o /\ <<slot[t][e], t>> \in R
        BY <1>1, <1>2, <1>6, <3>1, <3>3 DEF Older
    <3> QED
        BY <1>4, <2>3, <3>1, <3>4
  <2> QED
      BY <2>2, <2>3
<1>7. Older(S)'
    BY <1>6 DEF Older
<1>8. phase' = "mark" => frames' = <<>>
    BY DEF NewObj, NewArr, AddObject, StartMarking
<1>9. phase' = "mark" => Descends(frames', S)
    BY <1>8 DEF Descends
<1> QED
    BY <1>2, <1>3, <1>5, <1>7, <1>9, DepthNext DEF DepthInv

\* A program without __setitem__ changes the elements of no container it has made.
LEMMA MutatorDepth ==
    ASSUME Ops \subseteq StackOps \ {"setitem"}, TypeInv, HeapInv, DepthInv, Mutator
    PROVE  DepthInv'
<1>1. ASSUME UNCHANGED <<slot, phase>>, status' # "cpp_stack_overflow" \/ status' = status,
             phase = "idle"
      PROVE  DepthInv'
  <2>1. PICK R \in SUBSET (Objects \X Objects) : ElemOrder(R) /\ Older(R)
      BY DEF DepthInv
  <2>2. Older(R)' /\ phase' # "mark" /\ status' # "cpp_stack_overflow"
      BY <1>1, <2>1 DEF Older, DepthInv
  <2> QED
      BY <2>1, <2>2, DepthNext
<1>2. CASE LoadNil \/ Pop \/ \E i \in 1..MaxStack : LoadLocal(i) \/ StoreLocal(i)
    BY <1>1, <1>2 DEF LoadNil, Pop, LoadLocal, StoreLocal, Quiet, Ready, Running
<1>3. ASSUME NEW s \in Slots, LoadSlot(s) PROVE DepthInv'
  <2>1. UNCHANGED <<slot, phase>> /\ phase = "idle" /\ status' \in {status, "dangling"}
      BY <1>3 DEF LoadSlot, Quiet, Ready, Running, Deref
  <2> QED
      BY <1>1, <2>1
<1>4. CASE Collect
  <2>1. slot' = slot /\ status' = status /\ frames' = <<>>
      BY <1>4 DEF Collect, StartMarking, program
  <2> QED
      BY <2>1, DepthAgain
<1>5. ASSUME NEW s \in Slots, StoreSlot(s) PROVE DepthInv'
  <2>1. s \in PropKeys /\ s \notin ElemSlots
      BY <1>5, SlotsAssumption DEF StoreSlot, Ready, StackOps, Slots
  <2>2. PICK R \in SUBSET (Objects \X Objects) : ElemOrder(R) /\ Older(R)
      BY DEF DepthInv
  <2>3. PICK this, val : slot' = [slot EXCEPT ![this][s] = val]
      BY <1>5 DEF StoreSlot
  <2>4. \A o \in Objects : \A e \in ElemSlots : slot'[o][e] = slot[o][e]
      BY <2>1, <2>3, KeptType DEF Slots
  <2>5. Older(R)'
      BY <2>2, <2>4 DEF Older
  <2>6. phase' # "mark" /\ status' # "cpp_stack_overflow"
      BY <1>5 DEF StoreSlot, Quiet, Ready, Running, Deref, DepthInv
  <2> QED
      BY <2>2, <2>5, <2>6, DepthNext
<1> QED
    BY <1>2, <1>3, <1>4, <1>5, SafeSteps, NewDepth

\* Marking an object graph, cyclic or not, takes at most as many C++ frames as there are
\* pairs of objects, as long as no container is filled after it was made (gc::mark,
\* gc.cpp:77-92, which marks an element without asking whether it is marked).
THEOREM MarkingDepth ==
    ASSUME Ops \subseteq StackOps \ {"setitem"},
           MaxDepth >= Cardinality(Objects) * Cardinality(Objects)
    PROVE  Spec => []MarkDepthBounded
<1>1. Init => DepthInv
  <2> SUFFICES ASSUME Init PROVE DepthInv
      OBVIOUS
  <2>1. ElemOrder({}) /\ {} \in SUBSET (Objects \X Objects)
      BY DEF ElemOrder
  <2>2. Older({})
      BY ObjectsAssumption DEF Init, Older, Bare, Slots
  <2>3. phase # "mark" /\ status # "cpp_stack_overflow"
      BY DEF Init
  <2> QED
      BY <2>1, <2>2, <2>3 DEF DepthInv
<1>2. TypeInv /\ MarkInv /\ HeapInv /\ DepthInv /\ [Next]_vars => DepthInv'
  <2> SUFFICES ASSUME TypeInv, MarkInv, HeapInv, DepthInv, [Next]_vars PROVE DepthInv'
      OBVIOUS
  <2>1. CASE Collector
      BY <2>1, CollectorDepth DEF HeapInv
  <2>2. CASE Mutator
      BY <2>2, MutatorDepth
  <2>3. CASE UNCHANGED vars
    <3>1. UNCHANGED <<slot, phase, frames, status>> /\ frames \in Seq(FrameType)
        BY <2>3 DEF vars, program, marking, TypeInv, TypeOK
    <3>2. Len(frames) \in Nat
        BY <3>1
    <3> QED
        BY <3>1, <3>2, DepthAgain
  <2> QED
      BY <2>1, <2>2, <2>3 DEF Next
<1>3. DepthInv => MarkDepthBounded
    BY DEF DepthInv, MarkDepthBounded
<1>4. Ops \subseteq StackOps
    OBVIOUS
<1> QED
    BY <1>1, <1>2, <1>3, <1>4, HeapInvariant, PTL DEF Spec
================================================================================
