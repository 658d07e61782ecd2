CONSTANTS
    Cache = {c1, c2}
    Dma = {d1}
    Addr = {a1}
    Value = {v1, v2}
    Ordered = TRUE
    MaxForward = 3
SPECIFICATION Spec
INVARIANT NoInvalidTransition
