SPECIFICATION Spec
CONSTANTS
    home = home
    p1 = p1
    p2 = p2
    Sessions = {home}
    Procs = {p1, p2}
    Does <- Everything
    MaxTokens = 2
    Faults = {}
INVARIANTS
    LoggedOutIsOut
