------------------------------- MODULE HeapSpec -------------------------------
(***************************************************************************)
(* What a garbage-collected heap promises its program, whatever the        *)
(* algorithm: the program allocates objects and rearranges references it   *)
(* can reach; now and then exactly the objects it cannot reach disappear.  *)
(* There is nothing here of marks, thresholds or guards (compiler/gc.h).   *)
(***************************************************************************)
EXTENDS FiniteSets

CONSTANT Objects

VARIABLES
    heap,   \* objects that exist
    roots,  \* objects the program refers to directly
    refs    \* references from one object to others

vars == <<heap, roots, refs>>

Closed(S) == \A o \in S : refs[o] \subseteq S
Reachable == {o \in Objects :
                \A S \in SUBSET Objects : roots \subseteq S /\ Closed(S) => o \in S}

Init == heap = {} /\ roots = {} /\ refs = [o \in Objects |-> {}]

\* One program step: new objects come into being (at most one at a time in the
\* code), and references are copied from what was reachable, never made up.
Program ==
    \E new \in SUBSET (Objects \ heap) :
        /\ heap' = heap \cup new
        /\ roots' \subseteq Reachable \cup new
        /\ \A o \in Objects :
             refs'[o] \subseteq refs[o] \cup (IF o \in Reachable \cup new
                                              THEN Reachable \cup new ELSE {})

\* One collection: what is out of reach is gone, the rest is untouched.
Reclaim ==
    /\ heap' = heap \cap Reachable
    /\ roots' = roots
    /\ refs' = [o \in Objects |-> IF o \in heap' THEN refs[o] ELSE {}]

Next == Program \/ Reclaim
Spec == Init /\ [][Next]_vars

\* What a program may rely on: whatever it can reach exists.
ReachableLive == Reachable \subseteq heap
================================================================================
