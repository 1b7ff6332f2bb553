SPECIFICATION Spec
CONSTANTS
    o1 = o1  o2 = o2  o3 = o3  p = p  f = f
    Objects = {o1, o2, o3}
    Nil = Nil
    PropKeys = {p}
    ElemSlots <- None
    Fields = {}
    GrowSize = 2
    MaxThreshold = 7
    MaxStack = 3
    MaxDepth = 9
    MaxGuards = 0
    Ops <- NewbornOps
INVARIANTS StackLive
CHECK_DEADLOCK FALSE
