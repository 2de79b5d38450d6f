CONSTANTS
    Protocols = {p1, p2, p3}
    Guids = {a, b, c}
    Premium = {c}
    Sheltered = {}
    MaxPlayers = 2
    MaxChains = 2
    None = none
SPECIFICATION SessionSpec
INVARIANTS LinkedBothWays AutosendServed NobodyForgotten
PROPERTIES QueueRespected
SYMMETRY ProtocolSymmetry
