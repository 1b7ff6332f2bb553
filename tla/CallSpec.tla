------------------------------- MODULE CallSpec -------------------------------
(***************************************************************************)
(* What calling and returning promise, whatever the layout of the stack:   *)
(* every activation of a method has operands of its own, a call moves its  *)
(* arguments to the new activation, a return moves one value back, and     *)
(* nothing else of one activation is ever touched by another.              *)
(***************************************************************************)
EXTENDS Naturals, Sequences

CONSTANTS Value, Empty

VARIABLE frames   \* the operands (locals and temporaries) of every activation

Depth == Len(frames)
Caller == frames[Depth]

Init == frames = <<<<>>>>

\* every activation but the running one
SameOthers == \A i \in 1..(Depth - 1) : frames'[i] = frames[i]

\* The running activation computes.
Work ==
    /\ Depth > 0 /\ Len(frames') = Depth
    /\ SameOthers
    /\ frames'[Depth] \in Seq(Value)

\* It may push one more value (the receiver) and then calls with its n topmost
\* values; whatever else the callee starts with is Empty.
CallWith(f, n) ==
    /\ Len(frames') = Depth + 1
    /\ SameOthers
    /\ frames'[Depth] = SubSeq(f, 1, Len(f) - n)
    /\ \E m \in 0..Len(frames'[Depth + 1]) :
         frames'[Depth + 1] = SubSeq(f, Len(f) - n + 1, Len(f))
                                \o [i \in 1..m |-> Empty]

Call ==
    /\ Depth > 0
    /\ \/ \E n \in 0..Len(Caller) : CallWith(Caller, n)
       \/ \E v \in Value : \E n \in 0..(Len(Caller) + 1) :
            CallWith(Append(Caller, v), n)

\* The running activation ends and leaves its topmost value with its caller.
Return ==
    /\ Depth > 0 /\ Caller # <<>>
    /\ Len(frames') = Depth - 1
    /\ \A i \in 1..(Depth - 2) : frames'[i] = frames[i]
    /\ Depth > 1 => frames'[Depth - 1] = Append(frames[Depth - 1], Caller[Len(Caller)])

Next == Work \/ Call \/ Return
Spec == Init /\ [][Next]_frames
================================================================================
