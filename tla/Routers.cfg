SPECIFICATION MCSpec
CONSTANTS
    w1 = w1  w2 = w2
    p1 = p1  p2 = p2
    o1 = o1  o2 = o2
    cl1 = cl1
    Worker = {w1, w2}
    Default = w1
    Foreign = Foreign
    Pid = {p1, p2}
    MaxBorn = 3
    MaxDetached = 1
    Op = {o1, o2}
    Boot = o1
    Kinds <- NoSwap
    Cancellable <- Shielded
    Client = {cl1}
    None = None
CHECK_DEADLOCK FALSE
INVARIANTS TenancyHolds LeaseProtected NeverForeign
PROPERTIES FreeGpu LeaseComesBack
