\* Five scenarios; jobs, requests and sweeps end, and a window stays.
SPECIFICATION Spec
CONSTANTS
    s1 = s1
    k1 = k1
    k2 = k2
    u1 = u1
    f1 = f1
    j1 = j1
    j2 = j2
    d1 = d1
    d2 = d2
    picture = picture
    video = video
    r1 = r1
    c1 = c1
    foreign = foreign
    None = None
INVARIANTS ResearchTruth MediaTruth
PROPERTIES JobSettles GpusReturned SweepSettles StopReturns
CHECK_DEADLOCK FALSE
