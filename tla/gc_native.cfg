SPECIFICATION FairSpec
CONSTANTS
    o1 = o1  o2 = o2  o3 = o3  p = p  f = f
    Objects = {o1, o2, o3}
    Nil = Nil
    PropKeys = {p}
    ElemSlots <- TwoElems
    Fields = {f}
    GrowSize = 1
    MaxThreshold = 2
    MaxStack = 2
    MaxDepth = 9
    MaxGuards = 1
    Ops <- NativeOps
CHECK_DEADLOCK FALSE
INVARIANTS BuildingLive
PROPERTIES CollectExact CollectTerminates
