\* As for the other run; INT_MIN is -16.
CONSTANTS
    Depth = 2
    IntMod = 32
    PtrMod = 64
    MaxIrqs = 0
SPECIFICATION Spec
INVARIANT NegativesReadBack
CHECK_DEADLOCK FALSE
