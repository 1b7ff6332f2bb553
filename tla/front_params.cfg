SPECIFICATION Spec
CONSTANTS
    Sources <- ParamExpression
    Literals = {"0", "1", "2", "3", "-3", "-1", "-8", "hi {{a}}", "{{a}} hi", "1.5", "if(a) # b"}
    Integer <- Integers4
    Parts <- Interpolated
    Names = {"a", "b", "inner", "x", "y", "e", "args", "array"}
    SysMethods <- Natives
    MaxLoads = 6
    IntMax = 7
INVARIANTS Parses
