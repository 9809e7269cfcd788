SPECIFICATION Spec
CONSTANTS
    Sessions = {s1}
    Procs = {p1, p2}
    Does <- DoesAnything
    Cards = {blue}
    Keys = {k1}
    NoKey = NoKey
    MaxPerDevice = 1
    MaxCore = 2
    MaxOverlaps = 1
    MaxAborts = 1
    Faults = {"redis", "evict", "ttl", "db"}
SYMMETRY Symmetric
INVARIANTS TypeOK OpenedOnce SubmittedIsOpened
PROPERTIES RefinesOpening
