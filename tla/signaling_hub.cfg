SPECIFICATION Spec
CONSTANTS
    Nasabah = {n1, n2}
    Agents = {a1}
    Cap = 1
INVARIANTS TypeOK AgentAnnounced
PROPERTY PumpsEnd
CHECK_DEADLOCK FALSE
