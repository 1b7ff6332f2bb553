SPECIFICATION FairSpec
CONSTANTS
    a1 = a1  a2 = a2
    Programs <- CallPrograms
    Objects = {a1, a2}
    ClassOf <- Class
    TrueV = TrueV  FalseV = FalseV  Null = Null  Empty = Empty
    Array = Array  Exception = Exception
    Scalars = {TrueV, FalseV}
    Results = {TrueV, FalseV}
    NativeMethods = {"to_string", "get_iterator", "current", "move_next"}
    StackSize = 12
    MaxCalls = 5
INVARIANTS TypeOK HeightsAsCompiled NoFault EndsClean HostInStep
PROPERTIES CallPromise InnermostCatches Terminates
