SPECIFICATION Spec
CONSTANTS
    Being = {b1}
    Node = {n1, n2, n3}
    Cid = {c1}
    NoNode = NoNode
    Quorum = 2
    HasRegistry = TRUE
    MaxOrders = 2
    MaxCrashes = 2
SYMMETRY NodeSymmetry
INVARIANTS CorroborationEarned SlashIsFounded
PROPERTIES ConfirmedNeverLapses ErasureUncontested
