SPECIFICATION Spec
CONSTANTS
    andi = andi
    bela = bela
    Agents = {andi, bela}
    Terminals = {t1, t2}
    Ids = {i1, i2}
    Procs = {p1, p2}
    Does <- Everything
    MaxFailed = 2
    MaxMishaps = 1
    MaxOverlaps = 1
    Gates = {supervisor, health}
SYMMETRY Symmetric
INVARIANTS TypeOK OneDesk OnlineIsVouched GuessBound
