CONSTANTS
    Slots = {s1, s2}
    Addrs = {a1, a2}
    Certs = {c1, c2}
    None = None
    Garbage = Garbage
    Timers = {t1, t2, t3}
SPECIFICATION MCSpec
SYMMETRY Symmetry
CHECK_DEADLOCK FALSE
INVARIANT MbufHasRoom
