\* Every scenario of MCShop ends; a socket may stay silent.
SPECIFICATION Spec
CONSTANTS
    r1 = r1
    r2 = r2
    r3 = r3
    k1 = k1
    k2 = k2
    m1 = m1
    m2 = m2
    c1 = c1
    c2 = c2
    d1 = d1
    d2 = d2
    v1 = v1
    v2 = v2
    a1 = a1
    a2 = a2
    o1 = o1
    o2 = o2
    i1 = i1
    i2 = i2
    static = static
    unknown = unknown
    None = None
    s1 = s1
    s2 = s2
    u1 = u1
    u2 = u2
    f1 = f1
    t1 = t1
    t2 = t2
    t3 = t3
    p1 = p1
    p2 = p2
    g1 = g1
    g2 = g2
    g3 = g3
INVARIANTS BoardTruth OperatorTruth AuditTruth KnowledgeTruth LibraryTruth SocketTruth MemoryTruth IdentityTruth
PROPERTIES TrustIsEarned SubjectAdvances
CHECK_DEADLOCK FALSE
