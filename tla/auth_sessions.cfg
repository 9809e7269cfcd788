SPECIFICATION FairSpec
CONSTANTS
    home = home
    p1 = p1
    p2 = p2
    Sessions = {home}
    Procs = {p1, p2}
    Does <- Everything
    MaxTokens = 3
    Faults = {"redis", "db", "evict", "abort", "flush"}
INVARIANTS
    TypeOK
    RefusedIsRevoked
    ConfirmedEnds
PROPERTIES
    RefinesLogins
    RevokedIsForgotten
