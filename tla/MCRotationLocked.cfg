SPECIFICATION Spec
CONSTANTS
    Items = {i1}
    Docs = {}
    Stored = {}
    Rotators = {r1}
    Writers = {}
    Holders = {h1}
    Changers = {c1}
    Modes = {"fresh", "finish", "discard", "reseal"}
    MaxKey = 3
    MaxVersion = 3
    MaxCred = 2
    Free = Free
    Dead = Dead
INVARIANTS
    
    EveryRowOpens
    WrapperOpens
CHECK_DEADLOCK FALSE
