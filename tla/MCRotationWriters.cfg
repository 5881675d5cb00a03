SPECIFICATION Spec
CONSTANTS
    Items = {i1}
    Docs = {d1}
    Stored = {d1}
    Rotators = {r1}
    Writers = {w1}
    Holders = {}
    Changers = {}
    Modes = {"fresh", "finish", "reseal"}
    MaxKey = 2
    MaxVersion = 3
    MaxCred = 1
    Free = Free
    Dead = Dead
INVARIANTS
    
    EveryRowOpens
PROPERTIES
    EditsSurvive
CHECK_DEADLOCK FALSE
