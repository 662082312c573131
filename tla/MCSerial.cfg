\* A FIFO of two characters, the least that does; ints of five bits and
\* pointers of six, two digits in either base.
CONSTANTS
    Depth = 2
    IntMod = 32
    PtrMod = 64
    MaxIrqs = 2
SPECIFICATION FairSpec
INVARIANTS TypeOK NoOverrun NothingLost ReadsBack
PROPERTY GetsOut
CHECK_DEADLOCK FALSE
