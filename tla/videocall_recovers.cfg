SPECIFICATION FairSpec
CONSTANTS
    session1 = session1
    andi = andi
    bela = bela
    citra = citra
    phone = phone
    deskA = deskA
    deskB = deskB
    deskC = deskC
    Sessions <- OneSession
    Agents <- AllAgents
    Procs = {phone, deskA}
    Who <- MCWho
    Does <- Recovering
    MaxCalls = 2
    MaxCases = 1
    MaxAborts = 1
    Faults = {"flush"}
PROPERTIES
    SeenAgain
    StaleReleased
    GoneTakesCall
