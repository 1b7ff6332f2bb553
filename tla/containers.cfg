SPECIFICATION FairSpec
CONSTANTS
    a1 = a1  a2 = a2  d1 = d1  n = n  o = o  p = p  e = e
    Arrays = {a1, a2}
    Dictionaries = {d1}
    Plain = {n, e}
    Scripted = {o, p}
    Default = e
    Keys = {1, 2, 3}
    MaxLen <- Lengths
    MaxLoops = 2
    Inside = {"foreach", "remove", "entries", "text", "join", "equal", "entry_texts"}
    Puts <- Contents
    MaxSteps = 2
    Starts <- Worlds
INVARIANTS TypeOK OnlyDisturbedFails
PROPERTIES NoneMissed LoopsEnd
CHECK_DEADLOCK FALSE
