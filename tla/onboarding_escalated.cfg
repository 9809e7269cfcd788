SPECIFICATION Spec
CONSTANTS
    Sessions = {s1}
    Procs = {p1}
    Does <- DoesOnboarding
    Cards = {blue}
    Keys = {k1}
    NoKey = NoKey
    MaxPerDevice = 1
    MaxCore = 1
    MaxOverlaps = 0
    MaxAborts = 0
    Faults = {}
INVARIANTS RecoveredByAgent
