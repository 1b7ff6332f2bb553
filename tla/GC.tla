---------------------------------- MODULE GC ----------------------------------
(***************************************************************************)
(* The mark-and-sweep collector of the VM (compiler/gc.cpp) together with  *)
(* the VM operations that allocate, store, load and drop references.       *)
(*                                                                         *)
(* A heap object is a model value.  Its outgoing references are slots:     *)
(* PropKeys are rookie properties (object.h `properties`, which gc::mark   *)
(* walks itself) and ElemSlots are container elements (which only          *)
(* gc_visit walks).  Any object may have both: a superset of the object    *)
(* graphs the classes of the code allow.  Everything that is not a         *)
(* collectable object - null, integers, interned strings, types - is Nil.  *)
(*                                                                         *)
(* The VM is single threaded: while the collector runs the program stands  *)
(* still inside the operation that called gc::add_object or gc.collect().  *)
(* Marking is recursive in the code; each call is a frame of `frames`, so  *)
(* the recursion depth is visible.                                         *)
(***************************************************************************)
EXTENDS Integers, Sequences, FiniteSets

CONSTANTS
    Objects,       \* addresses of heap objects
    Nil,           \* any value that is not a collectable object
    PropKeys,      \* property slots of an object
    ElemSlots,     \* element slots of a container
    Fields,        \* static fields (`fields` of a runtime_typedata)
    GrowSize,      \* gc_grow_size, gc.h:13
    MaxThreshold,  \* UINT32_MAX of next_collect
    MaxStack,      \* bound: values on the VM stack
    MaxDepth,      \* C++ frames gc::mark may use before the C++ stack is gone
    MaxGuards,     \* bound: no-gc guards held at once
    Ops            \* the VM operations the rookie program uses

ASSUME ObjectsAssumption == IsFiniteSet(Objects) /\ Nil \notin Objects
ASSUME SlotsAssumption == PropKeys \cap ElemSlots = {}
ASSUME NumbersAssumption ==
    /\ GrowSize \in Nat \ {0}
    /\ MaxThreshold \in Nat /\ GrowSize <= MaxThreshold
    /\ MaxStack \in Nat /\ MaxDepth \in Nat /\ MaxGuards \in Nat

Slots == PropKeys \cup ElemSlots
Value == Objects \cup {Nil}

VARIABLES
    heap,          \* objects allocated and not yet deleted
    all_objects,   \* gc::all_objects, what sweep may delete
    slot,          \* properties and elements of every object
    over,          \* the container an iterator object refers to, else Nil
    stack,         \* runner::stack, the only roots
    fields,        \* static fields
    next_collect,  \* gc::next_collect
    force_no_gc,   \* gc::force_no_gc
    phase,         \* where the collector is
    ret,           \* what the interrupted operation does next
    marks,         \* gc_context::marks
    cursor,        \* next stack slot to mark
    frames,        \* activations of gc::mark
    building,      \* container a native function is filling, else Nil
    status         \* "ok" until undefined behaviour or a fatal error

program == <<slot, over, fields, building>>
numbers == <<next_collect, force_no_gc>>
marking == <<marks, cursor, frames>>
vars == <<heap, all_objects, program, stack, numbers, phase, ret, marking,
          status>>

(***************************************************************************)
(* What an operation still has to do when add_object returns: nothing,     *)
(* push a value, put it in the place of the top one, or store it in the    *)
(* container under construction.                                           *)
(***************************************************************************)
Ret(do, v, s) == [do |-> do, val |-> v, at |-> s]
NoRet == Ret("none", Nil, Nil)
RetType == [do: {"collect", "none", "push", "replace", "elem"},
            val: Value, at: Slots \cup {Nil}]

Bare == [s \in Slots |-> Nil]
Top == stack[Len(stack)]
Popped(n) == SubSeq(stack, 1, Len(stack) - n)

Init ==
    /\ heap = {} /\ all_objects = {}
    /\ slot = [o \in Objects |-> Bare]
    /\ over = [o \in Objects |-> Nil]
    /\ stack = <<>>
    /\ fields = [f \in Fields |-> Nil]
    /\ next_collect = GrowSize
    /\ force_no_gc = 0
    /\ phase = "idle" /\ ret = NoRet
    /\ marks = {} /\ cursor = 1 /\ frames = <<>>
    /\ building = Nil
    /\ status = "ok"

(***************************************************************************)
(* The threshold arithmetic of gc.cpp, its factors as exact fractions.     *)
(***************************************************************************)
\* gc::add_object: all_objects.size() >= next_collect * 0.7
Crowded(count, next) == 10 * count >= 7 * next

\* mutant: shrink_if_possible without its test
ShrunkAlways(count, next) == (4 * next) \div 5

\* gc::shrink_if_possible, the result truncated to uint32_t
Shrunk(count, next) == IF 2 * next < 5 * count THEN next ELSE (4 * next) \div 5

\* mutant: grow without asking _overflow
NeverOverflows(next) == FALSE

\* _overflow(next_collect, gc_grow_size): the unsigned sum would wrap
Overflows(next) == next + GrowSize > MaxThreshold

\* gc::grow_until_fit: the first grow_single() step past count * 1.1
Fits(count, next) == 11 * count < 10 * next
GrownToFit(count, next) ==
    IF Fits(count, next) THEN next
    ELSE next + GrowSize * ((11 * count - 10 * next) \div (10 * GrowSize) + 1)

(***************************************************************************)
(* gc::add_object, up to the call of collect(), for a threshold next; r is *)
(* what the caller does afterwards.                                        *)
(***************************************************************************)
\* mutants: the gc_context survives from one collection to the next; the loop over
\* the stack begins at its second slot
StartWithOldMarks == phase' = "mark" /\ cursor' = 1 /\ frames' = <<>> /\ UNCHANGED marks
StartAtSecond == phase' = "mark" /\ marks' = {} /\ cursor' = 2 /\ frames' = <<>>

StartMarking == phase' = "mark" /\ marks' = {} /\ cursor' = 1 /\ frames' = <<>>

\* mutant: add_object that does not look at force_no_gc
AddObjectUnguarded(o, guards, next, r) ==
    /\ all_objects' = all_objects \cup {o}
    /\ ret' = r
    /\ IF Cardinality(all_objects \cup {o}) >= next
       THEN StartMarking
       ELSE phase' = "return" /\ UNCHANGED marking

AddObject(o, guards, next, r) ==
    /\ all_objects' = all_objects \cup {o}
    /\ ret' = r
    /\ IF guards = 0 /\ Cardinality(all_objects \cup {o}) >= next
       THEN StartMarking
       ELSE phase' = "return" /\ UNCHANGED marking

(***************************************************************************)
(* The recursion of gc::mark.                                              *)
(***************************************************************************)
\* mutant: a container class without gc_visit
PendingProperties(o) == {s \in PropKeys : slot[o][s] \in Objects}

Pending(o) == {s \in Slots : slot[o][s] \in Objects}

\* mark(v) on an object: record it and walk its slots in a new activation.
\* Following a deleted object is undefined; so is running out of C++ stack.
Visit(o, under) ==
    /\ marks' = marks \cup {o}
    /\ frames' = Append(under, [obj |-> o, todo |-> Pending(o)])
    /\ status' = IF o \notin heap THEN "dangling"
                 ELSE IF Len(under) >= MaxDepth THEN "cpp_stack_overflow"
                 ELSE status

Running(p) == status = "ok" /\ phase = p

\* mutant: the loop does not advance past a value that is no object
MarkRootSticky ==
    /\ Running("mark") /\ frames = <<>> /\ cursor <= Len(stack)
    /\ IF stack[cursor] \in Objects
       THEN cursor' = cursor + 1 /\ Visit(stack[cursor], <<>>)
       ELSE UNCHANGED marking /\ UNCHANGED status
    /\ UNCHANGED <<heap, all_objects, program, stack, numbers, phase, ret>>

\* gc::collect, the loop over r.stack
MarkRoot ==
    /\ Running("mark") /\ frames = <<>> /\ cursor <= Len(stack)
    /\ cursor' = cursor + 1
    /\ IF stack[cursor] \in Objects
       THEN Visit(stack[cursor], <<>>)
       ELSE UNCHANGED <<marks, frames, status>>
    /\ UNCHANGED <<heap, all_objects, program, stack, numbers, phase, ret>>

Frame == frames[Len(frames)]
Callers == SubSeq(frames, 1, Len(frames) - 1)
\* mutant: leaving the loop over the properties where the code continues it
AfterBreak(s) == Append(Callers, [Frame EXCEPT !.todo = {}])

After(s) == Append(Callers, [Frame EXCEPT !.todo = @ \ {s}])

\* mutant: the properties are marked without looking whether they already are
MarkPropertyAgain(k) ==
    /\ Running("mark") /\ frames # <<>>
    /\ k \in PropKeys \cap Frame.todo
    /\ Visit(slot[Frame.obj][k], After(k))
    /\ UNCHANGED <<heap, all_objects, program, stack, numbers, phase, ret, cursor>>

\* the loop over properties: a value already marked is skipped
MarkProperty(k) ==
    /\ Running("mark") /\ frames # <<>>
    /\ k \in PropKeys \cap Frame.todo
    /\ IF slot[Frame.obj][k] \in marks
       THEN frames' = After(k) /\ UNCHANGED <<marks, status>>
       ELSE Visit(slot[Frame.obj][k], After(k))
    /\ UNCHANGED <<heap, all_objects, program, stack, numbers, phase, ret, cursor>>

\* gc_visit, after the properties: every element is marked again
MarkElement(e) ==
    /\ Running("mark") /\ frames # <<>>
    /\ PropKeys \cap Frame.todo = {}
    /\ e \in ElemSlots \cap Frame.todo
    /\ Visit(slot[Frame.obj][e], After(e))
    /\ UNCHANGED <<heap, all_objects, program, stack, numbers, phase, ret, cursor>>

MarkReturn ==
    /\ Running("mark") /\ frames # <<>> /\ Frame.todo = {}
    /\ frames' = Callers
    /\ UNCHANGED <<heap, all_objects, program, stack, numbers, phase, ret,
                   marks, cursor, status>>

\* gc::sweep and gc::shrink_if_possible; collect() then returns to its caller
Sweep ==
    /\ Running("mark") /\ frames = <<>> /\ cursor > Len(stack)
    /\ LET dead == all_objects \ marks
       IN  /\ all_objects' = all_objects \ dead
           /\ heap' = heap \ dead
           /\ slot' = [o \in Objects |-> IF o \in dead THEN Bare ELSE slot[o]]
           /\ over' = [o \in Objects |-> IF o \in dead THEN Nil ELSE over[o]]
           /\ next_collect' = Shrunk(Cardinality(all_objects \ dead), next_collect)
    /\ phase' = IF ret.do = "collect" THEN "return" ELSE "grow"
    /\ UNCHANGED <<stack, fields, force_no_gc, ret, marking, building, status>>

\* gc::add_object after collect(): make room.  Where the sum would wrap the
\* code sets the exception register and goes on with the old threshold.
Grow ==
    /\ Running("grow")
    /\ phase' = "return"
    /\ next_collect' = IF /\ Crowded(Cardinality(all_objects), next_collect)
                          /\ ~Overflows(next_collect)
                       THEN next_collect + GrowSize ELSE next_collect
    /\ UNCHANGED <<heap, all_objects, program, stack, force_no_gc, ret, marking,
                   status>>

\* the rest of the operation that was allocating
Return ==
    /\ Running("return")
    /\ phase' = "idle" /\ ret' = NoRet
    /\ stack' = CASE ret.do = "push" -> Append(stack, ret.val)
                  [] ret.do = "replace" -> Append(Popped(1), ret.val)
                  [] ret.do = "elem" -> Popped(1)
                  [] OTHER -> stack
    /\ slot' = IF ret.do = "elem"
               THEN [slot EXCEPT ![building][ret.at] = ret.val] ELSE slot
    /\ UNCHANGED <<heap, all_objects, over, fields, numbers, marking, building,
                   status>>

Collector ==
    \/ MarkRoot \/ (\E k \in PropKeys : MarkProperty(k))
    \/ (\E e \in ElemSlots : MarkElement(e))
    \/ MarkReturn \/ Sweep \/ Grow \/ Return

(***************************************************************************)
(* The program.  An operation runs when no native builder is active.       *)
(***************************************************************************)
Ready(op) == op \in Ops /\ Running("idle") /\ building = Nil
Room == Len(stack) < MaxStack
Quiet == UNCHANGED <<heap, all_objects, over, numbers, phase, ret, marking,
                     building>>
\* dereferencing o, whose result leaves the VM in a defined state only if alive
Deref(o) == status' = IF o \in heap THEN status ELSE "dangling"

\* op_ldnull, op_ldi, op_ldstr, op_ldtype
LoadNil ==
    /\ Ready("load") /\ Room
    /\ stack' = Append(stack, Nil)
    /\ Quiet /\ UNCHANGED <<slot, fields, status>>

\* op_ldloc, op_dup
LoadLocal(i) ==
    /\ Ready("load") /\ Room /\ i \in 1..Len(stack)
    /\ stack' = Append(stack, stack[i])
    /\ Quiet /\ UNCHANGED <<slot, fields, status>>

\* op_stloc
StoreLocal(i) ==
    /\ Ready("store") /\ i \in 1..(Len(stack) - 1)
    /\ stack' = [Popped(1) EXCEPT ![i] = Top]
    /\ Quiet /\ UNCHANGED <<slot, fields, status>>

\* op_pop, and the locals and arguments a return drops
Pop ==
    /\ Ready("pop") /\ stack # <<>>
    /\ stack' = Popped(1)
    /\ Quiet /\ UNCHANGED <<slot, fields, status>>

\* op_stprop: VALUE, THIS; array and dictionary __setitem__: THIS, VALUE
StoreSlot(s) ==
    LET this == IF s \in PropKeys THEN Top ELSE stack[Len(stack) - 1]
        val  == IF s \in PropKeys THEN stack[Len(stack) - 1] ELSE Top
    IN  /\ Ready(IF s \in PropKeys THEN "stprop" ELSE "setitem")
        /\ Len(stack) >= 2 /\ this \in Objects
        /\ slot' = [slot EXCEPT ![this][s] = val]
        /\ stack' = IF s \in PropKeys THEN Popped(2) ELSE Append(Popped(2), Nil)
        /\ Deref(this)
        /\ Quiet /\ UNCHANGED fields

\* op_ldprop; array and dictionary __getitem__
LoadSlot(s) ==
    /\ Ready("load") /\ stack # <<>> /\ Top \in Objects
    /\ stack' = Append(Popped(1), slot[Top][s])
    /\ Deref(Top)
    /\ Quiet /\ UNCHANGED <<slot, fields>>

\* op_stfld and op_ldfld; the type they pop is no collectable object
StoreField(f) ==
    /\ Ready("field") /\ Len(stack) >= 2 /\ stack[Len(stack) - 1] = Nil
    /\ fields' = [fields EXCEPT ![f] = Top]
    /\ stack' = Popped(2)
    /\ Quiet /\ UNCHANGED <<slot, status>>

LoadField(f) ==
    /\ Ready("field") /\ stack # <<>> /\ Top = Nil
    /\ stack' = Append(Popped(1), fields[f])
    /\ Quiet /\ UNCHANGED <<slot, fields, status>>

\* mutant: register first, then push
NewObjUnrooted(o) ==
    /\ Ready("newobj") /\ Room /\ o \in Objects \ heap
    /\ heap' = heap \cup {o}
    /\ AddObject(o, force_no_gc, next_collect, Ret("push", o, Nil))
    /\ UNCHANGED <<program, stack, numbers, status>>

\* op_newobj of a class without _ctor or with a native `new`, _newobj_systype:
\* push, then register.  Left out: a _ctor runs between the two, with the object
\* on the stack and out of reach of sweep.
NewObj(o) ==
    /\ Ready("newobj") /\ Room /\ o \in Objects \ heap
    /\ heap' = heap \cup {o}
    /\ stack' = Append(stack, o)
    /\ AddObject(o, force_no_gc, next_collect, NoRet)
    /\ UNCHANGED <<program, numbers, status>>

\* op_newarr, op_newdic: the n topmost values move into the container, the
\* container is pushed, then registered
NewArr(o, n) ==
    /\ Ready("newarr") /\ Room /\ o \in Objects \ heap
    /\ n \in 0..Len(stack) /\ 1..n \subseteq ElemSlots
    /\ heap' = heap \cup {o}
    /\ slot' = [slot EXCEPT ![o] =
                  [s \in Slots |-> IF s \in 1..n THEN stack[Len(stack) + 1 - s]
                                   ELSE Nil]]
    /\ stack' = Append(Popped(n), o)
    /\ AddObject(o, force_no_gc, next_collect, NoRet)
    /\ UNCHANGED <<over, fields, building, numbers, status>>

\* _initobj_systype (obj2rk, a string concatenation, a native exception):
\* register, and only then push the result or put it in the operand's place
InitObj(o, how) ==
    /\ Ready("initobj") /\ o \in Objects \ heap
    /\ how = "push" => Room
    /\ how = "replace" => stack # <<>>
    /\ heap' = heap \cup {o}
    /\ AddObject(o, force_no_gc, next_collect, Ret(how, o, Nil))
    /\ UNCHANGED <<program, stack, numbers, status>>

\* op_throw and handle_exception in the same frame: the thrown object is
\* popped, lives in the register `exception`, is registered again and pushed
Throw ==
    /\ Ready("throw") /\ stack # <<>> /\ Top \in Objects
    /\ stack' = Popped(1)
    /\ AddObject(Top, force_no_gc, next_collect, Ret("push", Top, Nil))
    /\ Deref(Top)
    /\ UNCHANGED <<heap, program, numbers>>

\* get_iterator: the iterator, which keeps a C++ reference to the container,
\* takes the container's place on the stack
GetIterator(o) ==
    /\ Ready("iterator") /\ o \in Objects \ heap
    /\ stack # <<>> /\ Top \in Objects /\ over[Top] = Nil
    /\ heap' = heap \cup {o}
    /\ over' = [over EXCEPT ![o] = Top]
    /\ AddObject(o, force_no_gc, next_collect, Ret("replace", o, Nil))
    /\ Deref(Top)
    /\ UNCHANGED <<slot, fields, building, stack, numbers>>

\* current of an iterator reads the container through that reference
IterCurrent(e) ==
    /\ Ready("iterator") /\ stack # <<>> /\ Top \in Objects /\ over[Top] # Nil
    /\ stack' = Append(Popped(1), slot[over[Top]][e])
    /\ Deref(over[Top])
    /\ Quiet /\ UNCHANGED <<slot, fields>>

\* gc.collect() of the rookie library
Collect ==
    /\ Ready("collect")
    /\ ret' = Ret("collect", Nil, Nil)
    /\ StartMarking
    /\ UNCHANGED <<heap, all_objects, program, stack, numbers, status>>

(***************************************************************************)
(* Native functions that fill a container of strings before registering    *)
(* it (type.methods, json.parse); dir.glob does so under the no-gc guard.  *)
(***************************************************************************)
Guarded == "glob" \in Ops
Building == Running("idle") /\ building # Nil

BuildBegin(o) ==
    /\ Ready(IF Guarded THEN "glob" ELSE "build") /\ o \in Objects \ heap
    /\ Guarded => force_no_gc < MaxGuards
    /\ heap' = heap \cup {o}
    /\ building' = o
    /\ force_no_gc' = IF Guarded THEN force_no_gc + 1 ELSE force_no_gc
    /\ UNCHANGED <<all_objects, slot, over, stack, fields, next_collect, phase,
                   ret, marking, status>>

\* push(str2rk(...)): the string is pushed, registered, popped and stored
BuildAdd(o, e) ==
    /\ Building /\ Room /\ o \in Objects \ heap
    /\ slot[building][e] = Nil
    /\ heap' = heap \cup {o}
    /\ stack' = Append(stack, o)
    /\ AddObject(o, force_no_gc, next_collect, Ret("elem", o, e))
    /\ UNCHANGED <<program, numbers, status>>

\* gc::end_no_gc when it leaves this many guards: the threshold it computes,
\* and the one it has reached when grow_single() throws on the way
Wanted(guards) ==
    IF guards = 0 THEN GrownToFit(Cardinality(all_objects), next_collect)
    ELSE next_collect
Saturated == next_collect + GrowSize * ((MaxThreshold - next_collect) \div GrowSize)

BuildEnd ==
    /\ Building /\ Room
    /\ force_no_gc' = IF Guarded THEN force_no_gc - 1 ELSE force_no_gc
    /\ LET next == IF Guarded THEN Wanted(force_no_gc') ELSE next_collect
       IN  IF next <= MaxThreshold
           THEN /\ next_collect' = next
                /\ AddObject(building, force_no_gc', next, Ret("push", building, Nil))
                /\ UNCHANGED <<heap, slot>>
           ELSE \* caught by runner::syscall; the container is never registered
                /\ next_collect' = Saturated
                /\ heap' = heap \ {building}
                /\ slot' = [slot EXCEPT ![building] = Bare]
                /\ UNCHANGED <<all_objects, phase, ret, marking>>
    /\ building' = Nil
    /\ UNCHANGED <<over, stack, fields, status>>

\* the directory iterator throws: runner::syscall catches, nothing is undone
BuildFail ==
    /\ Building /\ Guarded
    /\ heap' = heap \ {building}
    /\ slot' = [slot EXCEPT ![building] = Bare]
    /\ building' = Nil
    /\ UNCHANGED <<all_objects, over, stack, fields, numbers, phase, ret,
                   marking, status>>

Mutator ==
    \/ LoadNil \/ Pop \/ Throw \/ Collect
    \/ \E i \in 1..MaxStack : LoadLocal(i) \/ StoreLocal(i)
    \/ \E s \in Slots : StoreSlot(s) \/ LoadSlot(s)
    \/ \E f \in Fields : StoreField(f) \/ LoadField(f)
    \/ \E o \in Objects :
         \/ NewObj(o) \/ GetIterator(o) \/ BuildBegin(o)
         \/ \E n \in 0..MaxStack : NewArr(o, n)
         \/ \E how \in {"push", "replace"} : InitObj(o, how)
         \/ \E e \in ElemSlots : BuildAdd(o, e)
    \/ \E e \in ElemSlots : IterCurrent(e)
    \/ BuildEnd \/ BuildFail

Next == Collector \/ Mutator

Spec == Init /\ [][Next]_vars

\* The collector runs on the VM's only thread: once called it keeps going.
FairSpec == Spec /\ WF_vars(Collector)

--------------------------------------------------------------------------------
(***************************************************************************)
(* Reachability: the least set with the roots that following slots keeps.  *)
(***************************************************************************)
Roots == {stack[i] : i \in 1..Len(stack)} \cap Objects
Targets(o) == {slot[o][s] : s \in Slots} \cap Objects
Closed(S) == \A o \in S : Targets(o) \subseteq S
Reachable == {o \in Objects :
                \A S \in SUBSET Objects : Roots \subseteq S /\ Closed(S) => o \in S}

(***************************************************************************)
(* Properties                                                              *)
(***************************************************************************)
FrameType == [obj: Objects, todo: SUBSET Slots]

\* Every variable has its type; next_collect never wraps past uint32_t.
TypeOK ==
    /\ heap \subseteq Objects /\ all_objects \subseteq Objects
    /\ slot \in [Objects -> [Slots -> Value]]
    /\ over \in [Objects -> Value]
    /\ stack \in Seq(Value) /\ Len(stack) <= MaxStack
    /\ fields \in [Fields -> Value]
    /\ next_collect \in 0..MaxThreshold
    /\ force_no_gc \in Nat
    /\ phase \in {"idle", "mark", "grow", "return"}
    /\ ret \in RetType
    /\ marks \subseteq Objects
    /\ cursor \in Nat \ {0}
    /\ frames \in Seq(FrameType)
    /\ building \in Value
    /\ status \in {"ok", "dangling", "cpp_stack_overflow"}

\* Between operations the live objects stay within the collection threshold, so
\* one collection (add_object, gc.cpp:34-46) never leaves the next allocation
\* already over it; shrinking (gc.cpp:105-110) must not undo what growing gave.
\* Only a threshold that cannot grow any more is exceeded.
ThresholdInv ==
    phase \in {"idle", "return"} /\ force_no_gc = 0 /\ status = "ok" =>
        Cardinality(all_objects) <= next_collect \/ Overflows(next_collect)

\* The tri-colour invariant of gc::mark (gc.cpp:77-92): a reference out of a
\* marked object leads to a marked one unless an activation still has to follow it,
\* and every stack slot the loop of collect() has passed is marked.
TriColour ==
    phase = "mark" =>
        /\ \A o \in marks : \A s \in Pending(o) :
             \/ slot[o][s] \in marks
             \/ \E i \in 1..Len(frames) : frames[i].obj = o /\ s \in frames[i].todo
        /\ \A i \in 1..Len(stack) :
             i < cursor /\ stack[i] \in Objects => stack[i] \in marks

\* Marking is precise: nothing is marked that the stack does not reach, so
\* garbage is reclaimed by the very next collection (gc.cpp:59-64).
MarkPrecise == phase = "mark" => marks \subseteq Reachable

\* A collection deletes the registered objects the stack does not reach and
\* keeps all others (gc::collect, gc.cpp:52-71).
CollectExact ==
    [][phase = "mark" /\ phase' # "mark" =>
         heap' = heap \ (all_objects \ Reachable)]_vars

\* No value on the VM stack refers to a deleted object (readme: "Automated
\* memory management").
StackLive == Roots \subseteq heap

\* No property or element of a live object refers to a deleted object.
SlotsLive == \A o \in heap : Targets(o) \subseteq heap

NoDangling == StackLive /\ SlotsLive

\* What a guarded native builder has put into its container is not collected
\* before the container is registered (dir.h:54-65).
BuildingLive == building # Nil /\ Guarded => Targets(building) \subseteq heap

\* Marking never needs more C++ frames than are there.
MarkDepthBounded == status # "cpp_stack_overflow"

\* A collection that starts ends and the program runs again, on cyclic object
\* graphs too (gc.cpp:77-92), unless it follows a reference to a deleted object.
CollectTerminates == (phase = "mark") ~> (phase = "idle" \/ status = "dangling")

(***************************************************************************)
(* What the collector promises (HeapSpec), with the marking hidden.        *)
(***************************************************************************)
Promise == INSTANCE HeapSpec
             WITH roots <- Roots, refs <- [o \in Objects |-> Targets(o)]
HeapPromise == Promise!Spec
================================================================================
