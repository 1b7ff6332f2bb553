SPECIFICATION Spec
CONSTANTS
    o1 = o1  o2 = o2  o3 = o3  p = p  f = f
    Objects = {o1, o2, o3}
    Nil = Nil
    PropKeys = {p}
    ElemSlots <- OneElem
    Fields = {}
    GrowSize = 2
    MaxThreshold = 4
    MaxStack = 3
    MaxDepth = 9
    MaxGuards = 0
    Ops <- CoreOps
SYMMETRY Symmetry
INVARIANTS TypeOK ThresholdInv TriColour MarkPrecise NoDangling MarkDepthBounded
PROPERTIES HeapPromise
