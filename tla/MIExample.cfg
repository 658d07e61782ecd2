CONSTANTS
    Cache = {c1, c2}
    Dma = {d1}
    Addr = {a1}
    Value = {v1, v2}
    Ordered = FALSE
    MaxForward = 3
SPECIFICATION Spec
INVARIANTS SingleOwner  DmaReadCurrent InvalidOnlyByDma
 
