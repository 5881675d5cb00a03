SPECIFICATION Spec
CONSTANTS
    Items = {i1, i2}
    Docs = {}
    Stored = {i1}
    Rotators = {r1}
    Writers = {w1}
    Holders = {}
    Changers = {}
    Modes = {"fresh", "finish"}
    MaxKey = 3
    MaxVersion = 3
    MaxCred = 1
    Free = Free
    Dead = Dead
INVARIANTS
    LoginStrandsNoRow
CHECK_DEADLOCK FALSE
