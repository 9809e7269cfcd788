SPECIFICATION FairSpec
CONSTANTS
    session1 = session1
    andi = andi
    bela = bela
    citra = citra
    phone = phone
    deskA = deskA
    deskB = deskB
    deskC = deskC
    Sessions <- OneSession
    Agents <- AllAgents
    Procs = {phone, deskA, deskB}
    Who <- MCWho
    Does <- Everything
    MaxCalls = 1
    MaxCases = 1
    MaxAborts = 0
    Faults = {}
PROPERTIES
    OneAgentPerCall
