--------------------------------- MODULE MCGC ---------------------------------
(* Small instances of GC for TLC. *)
EXTENDS GC, TLC

CONSTANTS o1, o2, o3, p, f

Symmetry == Permutations(Objects)

None == {}
OneElem == {1}
TwoElems == {1, 2}

\* Programs that build, change and drop object graphs without native help.
CoreOps == {"load", "store", "pop", "stprop", "newobj", "newarr", "collect"}

\* The operations in which native code, a register or a field holds the only
\* reference, and native builders under the no-gc guard.
NativeOps == {"load", "pop", "stprop", "field", "initobj", "throw", "iterator", "glob"}

\* Native functions that return a new object.
NewbornOps == {"load", "store", "stprop", "newobj", "initobj"}
================================================================================
