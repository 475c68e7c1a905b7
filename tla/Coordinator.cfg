SPECIFICATION FairSpec
CONSTANTS
    c1 = c1  c2 = c2  c3 = c3
    o1 = o1  o2 = o2
    Client = {c1, c2}
    Op = {o1, o2}
    PassesOn = TRUE
    Rounds = 2
    None = None
INVARIANTS TypeOK SomeoneWillWake
PROPERTIES ImplementsLease Served
